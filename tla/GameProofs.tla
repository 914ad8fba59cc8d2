----------------------------- MODULE GameProofs ------------------------------
(***************************************************************************)
(* Proofs about the parts of the game module that share no state: the      *)
(* waypoint graph, for any number of waypoints and neighbours and a file   *)
(* buffer of any size; the search, for any graph, whoever asks and however *)
(* little room there is for the path; votes, for any number of players,    *)
(* any texts and thresholds and any length of a vote; the spawn queues,    *)
(* for any number of clients; and the memory, for a pool of any size.      *)
(***************************************************************************)
EXTENDS NavGraph, NavPath, Votes, SpawnQueue, GameMemory, Remainders, FiniteSetTheorems, SequenceTheorems, WellFoundedInduction, TLAPS
-----------------------------------------------------------------------------
(* Numbers, and what is had by a step taken again and again. *)

(* The least number of a set. *)
LEMMA LeastNumber ==
  ASSUME NEW S \in SUBSET Nat, S # {}
  PROVE  \E x \in S : \A y \in S : x <= y
<1> DEFINE R == OpToRel(<, Nat)
<1>1. R = {ss \in Nat \X Nat : ss[1] < ss[2]}
    BY DEF OpToRel
<1>2. IsWellFoundedOn(R, Nat)
    BY NatLessThanWellFounded
<1> HIDE DEF R
<1>3. PICK x \in S : \A y \in S : ~(<<y, x>> \in R)
    BY <1>2, WFMin
<1>4. \A y \in S : ~(y < x)
    BY <1>1, <1>3
<1> QED
    BY <1>4

(* Numbers that hold 0 and go on with each next one. *)
LEMMA AllNumbers ==
  ASSUME NEW S \in SUBSET Nat, 0 \in S, \A k \in S : k + 1 \in S
  PROVE  S = Nat
<1> SUFFICES ASSUME Nat \ S # {} PROVE FALSE
    OBVIOUS
<1>1. PICK x \in Nat \ S : \A y \in Nat \ S : x <= y
    BY LeastNumber
<1>2. x - 1 \in Nat /\ x - 1 \notin Nat \ S
    BY <1>1
<1> QED
    BY <1>1, <1>2

(* What is had from x by a step taken again and again. *)
IsSeries(f, n, D, x, step) ==
    /\ f \in [0..n -> D] /\ f[0] = x
    /\ \A i \in 0..n - 1 : f[i + 1] = step[f[i]]

LEMMA SeriesExists ==
  ASSUME NEW D, NEW x \in D, NEW step \in [D -> D], NEW n \in Nat
  PROVE  \E f : IsSeries(f, n, D, x, step)
<1> DEFINE S == {k \in Nat : \E f : IsSeries(f, k, D, x, step)}
<1>1. 0 \in S
  <2>1. IsSeries([i \in 0..0 |-> x], 0, D, x, step)
      BY DEF IsSeries
  <2> QED
      BY <2>1
<1>2. \A k \in S : k + 1 \in S
  <2> SUFFICES ASSUME NEW k \in Nat, NEW f, IsSeries(f, k, D, x, step)
               PROVE  \E g : IsSeries(g, k + 1, D, x, step)
      OBVIOUS
  <2> DEFINE g == [i \in 0..k + 1 |-> IF i = k + 1 THEN step[f[k]] ELSE f[i]]
  <2>1. f[k] \in D /\ step[f[k]] \in D
      BY DEF IsSeries
  <2>2. \A i \in 0..k + 1 : g[i] \in D
      BY <2>1 DEF IsSeries
  <2>3. g \in [0..k + 1 -> D]
      BY <2>2
  <2>4. g[0] = x
      BY DEF IsSeries
  <2>5. \A i \in 0..k : g[i] = f[i]
      OBVIOUS
  <2>6. g[k + 1] = step[f[k]]
      OBVIOUS
  <2> HIDE DEF g
  <2>7. ASSUME NEW i \in 0..(k + 1) - 1 PROVE g[i + 1] = step[g[i]]
    <3>1. CASE i = k
        BY <2>5, <2>6, <3>1
    <3>2. CASE i # k
        BY <2>5, <3>2 DEF IsSeries
    <3> QED
        BY <3>1, <3>2
  <2> QED
      BY <2>3, <2>4, <2>7 DEF IsSeries
<1> HIDE DEF S
<1>3. S = Nat
    BY <1>1, <1>2, AllNumbers DEF S
<1> QED
    BY <1>3 DEF S

LEMMA SeriesUnique ==
  ASSUME NEW D, NEW x \in D, NEW step \in [D -> D],
         NEW n \in Nat, NEW m \in Nat, n <= m, NEW f, NEW g,
         IsSeries(f, n, D, x, step), IsSeries(g, m, D, x, step)
  PROVE  \A i \in 0..n : f[i] = g[i]
<1> DEFINE S == {k \in Nat : k <= n => f[k] = g[k]}
<1>1. 0 \in S
    BY DEF IsSeries
<1>2. \A k \in S : k + 1 \in S
  <2> SUFFICES ASSUME NEW k \in Nat, k + 1 <= n, f[k] = g[k] PROVE f[k + 1] = g[k + 1]
      OBVIOUS
  <2>1. k \in 0..n - 1 /\ k \in 0..m - 1
      OBVIOUS
  <2> QED
      BY <2>1 DEF IsSeries
<1> HIDE DEF S
<1>3. S = Nat
    BY <1>1, <1>2, AllNumbers DEF S
<1> QED
    BY <1>3 DEF S

LEMMA Iterates ==
  ASSUME NEW D, NEW x \in D, NEW step \in [D -> D]
  PROVE  \E f \in [Nat -> D] : f[0] = x /\ \A k \in Nat : f[k + 1] = step[f[k]]
<1> DEFINE s == [k \in Nat |-> CHOOSE f : IsSeries(f, k, D, x, step)]
           f == [k \in Nat |-> s[k][k]]
<1>1. \A k \in Nat : IsSeries(s[k], k, D, x, step)
    BY SeriesExists
<1> HIDE DEF s
<1>2. f \in [Nat -> D]
    BY <1>1 DEF IsSeries
<1>3. f[0] = x
    BY <1>1 DEF IsSeries
<1>4. ASSUME NEW k \in Nat PROVE f[k + 1] = step[f[k]]
  <2>1. s[k + 1][k + 1] = step[s[k + 1][k]]
      BY <1>1 DEF IsSeries
  <2>2. s[k][k] = s[k + 1][k]
      BY <1>1, SeriesUnique
  <2> QED
      BY <2>1, <2>2
<1> QED
    BY <1>2, <1>3, <1>4

-----------------------------------------------------------------------------
(* The waypoint graph. *)

(* The parts of Whole.                                                     *)
Distinct(wps) == \A i, j \in DOMAIN wps : i # j => wps[i].place # wps[j].place
Sound(wps, i) ==
    /\ wps[i].place \in Places
    /\ wps[i].neighbors \subseteq DOMAIN wps \ {i}
    /\ Cardinality(wps[i].neighbors) <= MaxNeighbors

Numbers == SUBSET (1..MaxWaypoints)

LEMMA WholeParts ==
  ASSUME NEW wps
  PROVE  Whole(wps) <=> Distinct(wps) /\ \A i \in DOMAIN wps : Sound(wps, i)
BY DEF Whole, Distinct, Sound

LEMMA WaypointFields ==
  ASSUME NEW w \in Waypoint
  PROVE  w.place \in Places \cup {Nowhere} /\ w.neighbors \in Numbers
BY DEF Waypoint, Numbers

LEMMA AWaypoint ==
  ASSUME NEW p \in Places \cup {Nowhere}, NEW n \in Numbers,
         NEW w, w = [place |-> p, neighbors |-> n]
  PROVE  w \in Waypoint /\ w.place = p /\ w.neighbors = n
BY DEF Waypoint, Numbers

LEMMA NumbersAreFinite ==
  ASSUME NEW n \in Numbers
  PROVE  IsFiniteSet(n) /\ Cardinality(n) \in Nat /\ n \subseteq Nat
<1>1. IsFiniteSet(1..MaxWaypoints)
    BY NavAssumption, FS_Interval
<1>2. n \in SUBSET (1..MaxWaypoints)
    BY DEF Numbers
<1>3. IsFiniteSet(n)
    BY <1>1, <1>2, FS_Subset
<1> QED
    BY <1>2, <1>3, FS_CardinalityType

LEMMA ArrayOfWaypoints ==
  ASSUME NEW wps \in Seq(Waypoint)
  PROVE  /\ Len(wps) \in Nat /\ DOMAIN wps = 1..Len(wps)
         /\ \A i \in 1..Len(wps) : wps[i] \in Waypoint
BY LenProperties, ElementOfSeq

LEMMA IsArray ==
  ASSUME NEW n \in Nat, NEW wps, DOMAIN wps = 1..n, wps = [i \in 1..n |-> wps[i]],
         \A i \in 1..n : wps[i] \in Waypoint
  PROVE  wps \in Seq(Waypoint) /\ Len(wps) = n
<1>1. wps \in [1..n -> Waypoint]
    OBVIOUS
<1>2. wps \in Seq(Waypoint)
    BY <1>1, SeqDef
<1> QED
    BY <1>1, <1>2, LenProperties

-----------------------------------------------------------------------------
(* Neighbours: how many there are after one is added, after all that are   *)
(* seen are added, and after the waypoints have been renumbered.           *)

LEMMA GreatestNumber ==
  ASSUME NEW S \in Numbers, S # {}
  PROVE  \E x \in S : \A y \in S : y <= x
<1> DEFINE D == {MaxWaypoints - x : x \in S}
           R == OpToRel(<, Nat)
<1>1. D \in SUBSET Nat /\ D # {}
    BY NavAssumption DEF Numbers
<1>2. R = {ss \in Nat \X Nat : ss[1] < ss[2]}
    BY DEF OpToRel
<1>3. IsWellFoundedOn(R, Nat)
    BY NatLessThanWellFounded
<1> HIDE DEF R, D
<1>4. PICK d \in D : \A e \in D : ~(<<e, d>> \in R)
    BY <1>1, <1>3, WFMin
<1>5. \A e \in D : d <= e
  <2>1. \A e \in D : ~(e < d)
      BY <1>1, <1>2, <1>4
  <2> QED
      BY <1>1, <2>1
<1> USE DEF D
<1>6. PICK x \in S : d = MaxWaypoints - x
    OBVIOUS
<1>7. \A y \in S : MaxWaypoints - y \in D /\ y \in Nat
    BY DEF Numbers
<1> HIDE DEF D
<1> QED
    BY <1>5, <1>6, <1>7, NavAssumption

LEMMA FirstFew ==
  ASSUME NEW more \in Numbers, NEW room \in Nat,
         NEW T, T = {j \in more : Cardinality({k \in more : k < j}) < room}
  PROVE  T \in Numbers /\ Cardinality(T) <= room
<1>1. T \in Numbers
  <2>1. T \subseteq more
      OBVIOUS
  <2> QED
      BY <2>1 DEF Numbers
<1>2. CASE T = {}
  <2>1. Cardinality(T) = 0
      BY <1>2, FS_EmptySet
  <2> QED
      BY <1>1, <2>1
<1>3. CASE T # {}
  <2>1. PICK x \in T : \A y \in T : y <= x
      BY <1>1, <1>3, GreatestNumber
  <2> DEFINE lower == {k \in more : k < x}
  <2>2. lower \in Numbers /\ Cardinality(lower) < room
      BY <2>1 DEF Numbers
  <2>3. x \in Nat /\ T \subseteq Nat
      BY <1>1, NumbersAreFinite
  <2>4. T \subseteq lower \cup {x}
      BY <2>1, <2>3
  <2>5. IsFiniteSet(lower) /\ Cardinality(lower) \in Nat
      BY <2>2, NumbersAreFinite
  <2> HIDE DEF lower
  <2>6. /\ IsFiniteSet(lower \cup {x}) /\ Cardinality(lower \cup {x}) \in Nat
        /\ Cardinality(lower \cup {x}) <= Cardinality(lower) + 1
    <3>1. /\ IsFiniteSet(lower \cup {x})
          /\ Cardinality(lower \cup {x}) =
                IF x \in lower THEN Cardinality(lower) ELSE Cardinality(lower) + 1
        BY <2>5, FS_AddElement
    <3> QED
        BY <2>5, <3>1
  <2>7. Cardinality(T) <= Cardinality(lower \cup {x})
      BY <2>4, <2>6, FS_Subset
  <2>8. Cardinality(T) \in Nat
      BY <1>1, NumbersAreFinite
  <2> QED
      BY <1>1, <2>2, <2>5, <2>6, <2>7, <2>8
<1> QED
    BY <1>2, <1>3

LEMMA NeighborsFit ==
  ASSUME NEW n \in Numbers, NEW seen \in Numbers, NEW new, new = NewNeighbors(n, seen)
  PROVE  /\ new \in Numbers /\ n \subseteq new /\ new \subseteq n \cup seen
         /\ Cardinality(n) <= MaxNeighbors => Cardinality(new) <= MaxNeighbors
<1> DEFINE more == seen \ n
           T == {j \in more : Cardinality(n) + Cardinality({k \in more : k < j}) < MaxNeighbors}
           room == MaxNeighbors - Cardinality(n)
<1>1. new = n \cup T /\ more \in Numbers
    BY DEF NewNeighbors, Numbers
<1>2. Cardinality(n) \in Nat /\ IsFiniteSet(n)
    BY NumbersAreFinite
<1>3. new \in Numbers /\ n \subseteq new /\ new \subseteq n \cup seen
    BY <1>1 DEF Numbers
<1>4. ASSUME Cardinality(n) <= MaxNeighbors
      PROVE  Cardinality(new) <= MaxNeighbors
  <2>1. room \in Nat
      BY <1>2, <1>4, NavAssumption
  <2>2. \A j \in more : Cardinality({k \in more : k < j}) \in Nat
    <3>1. \A j : {k \in more : k < j} \in Numbers
        BY <1>1 DEF Numbers
    <3> QED
        BY <3>1, NumbersAreFinite
  <2>3. T = {j \in more : Cardinality({k \in more : k < j}) < room}
      BY <1>2, <2>2, NavAssumption
  <2> HIDE DEF T, more, room
  <2>4. T \in Numbers /\ Cardinality(T) <= room
      BY <1>1, <2>1, <2>3, FirstFew
  <2>5. IsFiniteSet(T) /\ Cardinality(T) \in Nat
      BY <2>4, NumbersAreFinite
  <2>6. IsFiniteSet(n \cap T) /\ Cardinality(n \cap T) \in Nat
      BY <1>2, FS_Intersection, FS_CardinalityType
  <2>7. Cardinality(new) = Cardinality(n) + Cardinality(T) - Cardinality(n \cap T)
      BY <1>1, <1>2, <2>5, FS_Union
  <2> QED
      BY <1>2, <2>4, <2>5, <2>6, <2>7, NavAssumption DEF room
<1> QED
    BY <1>3, <1>4

LEMMA RenumberedFit ==
  ASSUME NEW n \in Numbers, NEW last \in 1..MaxWaypoints, NEW i \in 1..last,
         NEW new, new = Renumbered(n, i, last)
  PROVE  /\ new \in Numbers /\ Cardinality(new) <= Cardinality(n)
         /\ \A j : j \in new <=> \E m \in n : m # i /\ j = IF m = last THEN i ELSE m
<1> DEFINE rest == n \ {i}
           f == [j \in rest |-> IF j = last THEN i ELSE j]
<1>1. new = {IF j = last THEN i ELSE j : j \in rest}
    BY DEF Renumbered
<1>2. /\ new \in Numbers
      /\ \A j : j \in new <=> \E m \in n : m # i /\ j = IF m = last THEN i ELSE m
    BY <1>1, NavAssumption DEF Numbers
<1>3. f \in Surjection(rest, new)
    BY <1>1 DEF Surjection
<1>4. /\ IsFiniteSet(n) /\ Cardinality(n) \in Nat
      /\ IsFiniteSet(rest) /\ Cardinality(rest) <= Cardinality(n) /\ Cardinality(rest) \in Nat
    BY NumbersAreFinite, FS_Subset, FS_CardinalityType
<1> HIDE DEF f, rest
<1>5. Cardinality(new) <= Cardinality(rest)
    BY <1>3, <1>4, FS_Surjection
<1>6. Cardinality(new) \in Nat
    BY <1>2, NumbersAreFinite
<1> QED
    BY <1>2, <1>4, <1>5, <1>6

-----------------------------------------------------------------------------
(* Every edit makes an array that is typed, and whole if it was before.    *)
Typed(wps) == wps \in Seq(Waypoint) /\ Len(wps) <= MaxWaypoints
Kept(wps, new) == Typed(new) /\ (Whole(wps) => Whole(new))

(* The same waypoints, with the same links and more.                       *)
Richer(wps, new) ==
    /\ Len(new) = Len(wps)
    /\ \A i \in 1..Len(wps) : /\ new[i].place = wps[i].place
                              /\ wps[i].neighbors \subseteq new[i].neighbors

LEMMA TypedParts ==
  ASSUME NEW wps, Typed(wps)
  PROVE  /\ Len(wps) \in Nat /\ DOMAIN wps = 1..Len(wps) /\ 1..Len(wps) \in Numbers
         /\ \A i \in 1..Len(wps) : /\ wps[i] \in Waypoint
                                   /\ wps[i].place \in Places \cup {Nowhere}
                                   /\ wps[i].neighbors \in Numbers
                                   /\ Cardinality(wps[i].neighbors) \in Nat
<1>1. Len(wps) \in Nat /\ DOMAIN wps = 1..Len(wps) /\ Len(wps) <= MaxWaypoints
      /\ \A i \in 1..Len(wps) : wps[i] \in Waypoint
    BY ArrayOfWaypoints DEF Typed
<1>2. 1..Len(wps) \in Numbers
    BY <1>1, NavAssumption DEF Numbers
<1> QED
    BY <1>1, <1>2, WaypointFields, NumbersAreFinite

LEMMA LinkKeeps ==
  ASSUME NEW wps, Typed(wps), NEW a \in 1..Len(wps), NEW b \in 1..Len(wps),
         NEW new, new = LinkedTo(wps, a, b)
  PROVE  Kept(wps, new) /\ Richer(wps, new)
<1> DEFINE n == wps[a].neighbors \cup {b}
<1>1. CASE a = b \/ Cardinality(wps[a].neighbors) >= MaxNeighbors
    BY <1>1 DEF LinkedTo, Kept, Richer
<1>2. CASE ~(a = b \/ Cardinality(wps[a].neighbors) >= MaxNeighbors)
  <2> DEFINE w == [wps[a] EXCEPT !.neighbors = n]
  <2>1. new = [wps EXCEPT ![a] = w]
      BY <1>2 DEF LinkedTo
  <2>2. wps[a].neighbors \in Numbers /\ Cardinality(wps[a].neighbors) \in Nat
        /\ 1..Len(wps) \in Numbers
      BY TypedParts
  <2>3. n \in Numbers
      BY <2>2 DEF Numbers
  <2>4. Cardinality(n) \in Nat /\ Cardinality(n) <= MaxNeighbors
    <3>1. /\ IsFiniteSet(wps[a].neighbors)
          /\ Cardinality(n) = IF b \in wps[a].neighbors THEN Cardinality(wps[a].neighbors)
                              ELSE Cardinality(wps[a].neighbors) + 1
        BY <2>2, NumbersAreFinite, FS_AddElement
    <3> QED
        BY <1>2, <2>2, <3>1, NavAssumption
  <2>5. w \in Waypoint /\ w.place = wps[a].place /\ w.neighbors = n
    <3>1. wps[a] \in Waypoint
        BY TypedParts
    <3> QED
        BY <2>3, <3>1 DEF Waypoint, Numbers
  <2> HIDE DEF n, w
  <2>6. /\ Typed(new) /\ Len(new) = Len(wps)
        /\ new[a].place = wps[a].place /\ new[a].neighbors = n
        /\ \A k \in 1..Len(wps) : k # a => new[k] = wps[k]
      BY <2>1, <2>5, ExceptSeq DEF Typed
  <2>7. Richer(wps, new)
      BY <2>6 DEF Richer, n
  <2>8. ASSUME Whole(wps)
        PROVE  Whole(new)
    <3>1. DOMAIN wps = 1..Len(wps) /\ DOMAIN new = 1..Len(wps)
        BY <2>6, TypedParts
    <3>2. Distinct(wps) /\ \A i \in 1..Len(wps) : Sound(wps, i)
        BY <2>8, <3>1, WholeParts
    <3>3. Distinct(new)
        BY <2>6, <3>1, <3>2 DEF Distinct
    <3>4. \A i \in 1..Len(wps) : Sound(new, i)
        BY <1>2, <2>4, <2>6, <3>1, <3>2 DEF Sound, n
    <3> QED
        BY <3>1, <3>3, <3>4, WholeParts
  <2> QED
      BY <2>6, <2>7, <2>8 DEF Kept
<1> QED
    BY <1>1, <1>2

LEMMA LinkStep ==
  ASSUME Typed(waypoints), NEW a \in Indices, NEW b \in Indices, NAV_LinkWaypoints(a, b)
  PROVE  Kept(waypoints, waypoints') /\ Richer(waypoints, waypoints')
<1> DEFINE half == LinkedTo(waypoints, a, b)
<1>1. Kept(waypoints, half) /\ Richer(waypoints, half)
    BY LinkKeeps DEF Indices, NumWaypoints
<1>2. waypoints' = LinkedTo(half, b, a) /\ a \in 1..Len(half) /\ b \in 1..Len(half)
    BY <1>1 DEF NAV_LinkWaypoints, Richer, Indices, NumWaypoints
<1> HIDE DEF half
<1>3. Kept(half, waypoints') /\ Richer(half, waypoints')
    BY <1>1, <1>2, LinkKeeps DEF Kept
<1> QED
    BY <1>1, <1>3 DEF Kept, Richer

LEMMA AutoLinkStep ==
  ASSUME Typed(waypoints), NAV_AutoLink
  PROVE  Kept(waypoints, waypoints') /\ Richer(waypoints, waypoints')
<1> DEFINE max == Len(waypoints)
<1>1. PICK sight \in SUBSET Pairs(max) :
         waypoints' = [i \in 1..max |->
                          [waypoints[i] EXCEPT !.neighbors = NewNeighbors(@, Sees(max, sight, i))]]
    BY DEF NAV_AutoLink, Indices, NumWaypoints
<1>2. /\ max \in Nat /\ max <= MaxWaypoints /\ DOMAIN waypoints = 1..max
      /\ \A i \in 1..max : waypoints[i] \in Waypoint
    BY TypedParts DEF Typed
<1>3. ASSUME NEW i \in 1..max
      PROVE  /\ waypoints'[i] \in Waypoint
             /\ waypoints'[i].place = waypoints[i].place
             /\ waypoints[i].neighbors \subseteq waypoints'[i].neighbors
             /\ waypoints'[i].neighbors \subseteq waypoints[i].neighbors \cup ((1..max) \ {i})
             /\ Cardinality(waypoints[i].neighbors) <= MaxNeighbors
                   => Cardinality(waypoints'[i].neighbors) <= MaxNeighbors
  <2> DEFINE old == waypoints[i].neighbors
             seen == Sees(max, sight, i)
             n == NewNeighbors(old, seen)
  <2>1. seen \subseteq (1..max) \ {i} /\ seen \in Numbers /\ old \in Numbers
    <3>1. seen \subseteq (1..max) \ {i}
        BY DEF Sees
    <3>2. 1..max \in Numbers /\ old \in Numbers
        BY TypedParts
    <3> QED
        BY <3>1, <3>2 DEF Numbers
  <2>2. waypoints'[i] = [waypoints[i] EXCEPT !.neighbors = n]
      BY <1>1
  <2> HIDE DEF old, seen
  <2>3. /\ n \in Numbers /\ old \subseteq n /\ n \subseteq old \cup seen
        /\ Cardinality(old) <= MaxNeighbors => Cardinality(n) <= MaxNeighbors
      BY <2>1, NeighborsFit
  <2> HIDE DEF n
  <2>4. /\ waypoints'[i] \in Waypoint /\ waypoints'[i].place = waypoints[i].place
        /\ waypoints'[i].neighbors = n
      BY <1>2, <2>2, <2>3 DEF Waypoint, Numbers
  <2> QED
      BY <2>1, <2>3, <2>4 DEF old
<1>4. DOMAIN waypoints' = 1..max /\ waypoints' = [i \in 1..max |-> waypoints'[i]]
    BY <1>1
<1>5. Typed(waypoints') /\ Len(waypoints') = max
    BY <1>2, <1>3, <1>4, IsArray DEF Typed
<1>6. Richer(waypoints, waypoints')
    BY <1>3, <1>5 DEF Richer
<1>7. ASSUME Whole(waypoints)
      PROVE  Whole(waypoints')
  <2>1. Distinct(waypoints) /\ \A i \in 1..max : Sound(waypoints, i)
      BY <1>2, <1>7, WholeParts
  <2>2. Distinct(waypoints')
      BY <1>2, <1>3, <1>4, <2>1 DEF Distinct
  <2>3. \A i \in 1..max : Sound(waypoints', i)
      BY <1>2, <1>3, <1>4, <2>1 DEF Sound
  <2> QED
      BY <1>4, <2>2, <2>3, WholeParts
<1> QED
    BY <1>5, <1>6, <1>7 DEF Kept

LEMMA AddStep ==
  ASSUME Typed(waypoints), NEW p \in Places, NAV_AddWaypoint(p)
  PROVE  /\ Kept(waypoints, waypoints')
         /\ Len(waypoints') = Len(waypoints) + 1
         /\ waypoints'[Len(waypoints) + 1].place = p
         /\ waypoints'[Len(waypoints) + 1].neighbors = {}
         /\ \A i \in 1..Len(waypoints) : waypoints'[i] = waypoints[i] /\ waypoints[i].place # p
<1> DEFINE n == Len(waypoints)
           w == Alone(p)
<1>1. /\ n \in Nat /\ n < MaxWaypoints /\ waypoints' = Append(waypoints, w)
      /\ DOMAIN waypoints = 1..n /\ p \notin PlacesOf(waypoints)
    BY TypedParts DEF NAV_AddWaypoint, NumWaypoints
<1>2. w \in Waypoint /\ w.place = p /\ w.neighbors = {}
    BY DEF Alone, Waypoint
<1> HIDE DEF w
<1>3. /\ waypoints' \in Seq(Waypoint) /\ Len(waypoints') = n + 1
      /\ waypoints'[n + 1] = w /\ \A i \in 1..n : waypoints'[i] = waypoints[i]
    BY <1>1, <1>2, AppendProperties DEF Typed
<1>4. \A i \in 1..n : waypoints[i].place # p
    BY <1>1 DEF PlacesOf
<1>5. Typed(waypoints')
    BY <1>1, <1>3, NavAssumption DEF Typed
<1>6. ASSUME Whole(waypoints)
      PROVE  Whole(waypoints')
  <2>1. Distinct(waypoints) /\ \A i \in 1..n : Sound(waypoints, i)
      BY <1>1, <1>6, WholeParts
  <2>2. DOMAIN waypoints' = 1..(n + 1)
      BY <1>3, <1>5, TypedParts
  <2>3. Distinct(waypoints')
      BY <1>1, <1>2, <1>3, <1>4, <2>1, <2>2 DEF Distinct
  <2>4. \A i \in 1..n : Sound(waypoints', i)
      BY <1>1, <1>3, <2>1, <2>2 DEF Sound
  <2>5. Sound(waypoints', n + 1)
    <3>1. Cardinality({}) = 0 /\ 0 <= MaxNeighbors
        BY FS_EmptySet, NavAssumption
    <3>2. waypoints'[n + 1].place \in Places /\ waypoints'[n + 1].neighbors = {}
        BY <1>2, <1>3
    <3> QED
        BY <3>1, <3>2 DEF Sound
  <2>6. \A i \in DOMAIN waypoints' : Sound(waypoints', i)
    <3>1. \A i \in 1..(n + 1) : i \in 1..n \/ i = n + 1
        BY <1>1
    <3> QED
        BY <2>2, <2>4, <2>5, <3>1
  <2> QED
      BY <2>3, <2>6, WholeParts
<1> QED
    BY <1>2, <1>3, <1>4, <1>5, <1>6 DEF Kept

(* Which waypoint is at index k when waypoint i is gone.                   *)
MovedFrom(k, i, last) == IF k = i THEN last ELSE k

LEMMA DeleteStep ==
  ASSUME Typed(waypoints), NEW i \in Indices, NAV_DeleteWaypoint(i),
         NEW last, last = Len(waypoints)
  PROVE  /\ Kept(waypoints, waypoints')
         /\ Len(waypoints') = last - 1
         /\ \A k \in 1..last - 1 :
               /\ waypoints'[k].place = waypoints[MovedFrom(k, i, last)].place
               /\ waypoints'[k].neighbors =
                     Renumbered(waypoints[MovedFrom(k, i, last)].neighbors, i, last)
<1>1. /\ last \in 1..MaxWaypoints /\ last - 1 \in Nat /\ i \in 1..last
      /\ DOMAIN waypoints = 1..last
      /\ \A k \in 1..last - 1 : MovedFrom(k, i, last) \in (1..last) \ {i}
    BY TypedParts, NavAssumption DEF Typed, Indices, NumWaypoints, MovedFrom
<1>2. waypoints' = [k \in 1..last - 1 |->
                      [waypoints[MovedFrom(k, i, last)] EXCEPT !.neighbors = Renumbered(@, i, last)]]
  <2>1. \A k : (IF k = i THEN waypoints[last] ELSE waypoints[k]) = waypoints[MovedFrom(k, i, last)]
      BY DEF MovedFrom
  <2> QED
      BY <2>1 DEF NAV_DeleteWaypoint, NumWaypoints
<1> DEFINE old(k) == waypoints[MovedFrom(k, i, last)].neighbors
           n(k) == Renumbered(old(k), i, last)
<1>3. ASSUME NEW k \in 1..last - 1
      PROVE  /\ waypoints'[k] \in Waypoint
             /\ waypoints'[k].place = waypoints[MovedFrom(k, i, last)].place
             /\ waypoints'[k].neighbors = n(k)
             /\ old(k) \in Numbers /\ Cardinality(old(k)) \in Nat /\ Cardinality(n(k)) \in Nat
             /\ Cardinality(n(k)) <= Cardinality(old(k))
             /\ \A j : j \in n(k) <=> \E m \in old(k) : m # i /\ j = IF m = last THEN i ELSE m
  <2>1. waypoints[MovedFrom(k, i, last)] \in Waypoint /\ old(k) \in Numbers
      BY <1>1, TypedParts
  <2>2. waypoints'[k] = [waypoints[MovedFrom(k, i, last)] EXCEPT !.neighbors = n(k)]
      BY <1>2
  <2> DEFINE o == old(k)
             new == n(k)
  <2>3. new = Renumbered(o, i, last) /\ o \in Numbers
      BY <2>1
  <2> HIDE DEF o, new
  <2>4. /\ new \in Numbers /\ Cardinality(new) <= Cardinality(o)
        /\ \A j : j \in new <=> \E m \in o : m # i /\ j = IF m = last THEN i ELSE m
      BY <1>1, <2>3, RenumberedFit
  <2>5. Cardinality(o) \in Nat /\ Cardinality(new) \in Nat
      BY <2>3, <2>4, NumbersAreFinite
  <2> USE DEF o, new
  <2>6. waypoints'[k] \in Waypoint /\ waypoints'[k].place = waypoints[MovedFrom(k, i, last)].place
        /\ waypoints'[k].neighbors = n(k)
      BY <2>1, <2>2, <2>4 DEF Waypoint, Numbers
  <2> QED
      BY <2>1, <2>4, <2>5, <2>6
<1> HIDE DEF old, n
<1>4. /\ DOMAIN waypoints' = 1..last - 1 /\ waypoints' = [k \in 1..last - 1 |-> waypoints'[k]]
      /\ \A k \in 1..last - 1 : waypoints'[k] \in Waypoint
    BY <1>2, <1>3
<1>5. Typed(waypoints') /\ Len(waypoints') = last - 1
    BY <1>1, <1>4, IsArray, NavAssumption DEF Typed
<1>6. ASSUME Whole(waypoints)
      PROVE  Whole(waypoints')
  <2>1. Distinct(waypoints) /\ \A k \in 1..last : Sound(waypoints, k)
      BY <1>1, <1>6, WholeParts
  <2>2. Distinct(waypoints')
    <3>1. \A j, k \in 1..last - 1 : j # k => MovedFrom(j, i, last) # MovedFrom(k, i, last)
        BY <1>1 DEF MovedFrom
    <3> QED
        BY <1>1, <1>3, <1>4, <2>1, <3>1 DEF Distinct
  <2>3. ASSUME NEW k \in 1..last - 1
        PROVE  Sound(waypoints', k)
    <3>1. /\ waypoints'[k].place = waypoints[MovedFrom(k, i, last)].place
          /\ waypoints'[k].neighbors = n(k)
          /\ Cardinality(old(k)) \in Nat /\ Cardinality(n(k)) \in Nat
          /\ Cardinality(n(k)) <= Cardinality(old(k))
          /\ \A j : j \in n(k) <=> \E m \in old(k) : m # i /\ j = IF m = last THEN i ELSE m
        BY <1>3
    <3>2. /\ waypoints[MovedFrom(k, i, last)].place \in Places
          /\ old(k) \subseteq (1..last) \ {MovedFrom(k, i, last)}
          /\ Cardinality(old(k)) <= MaxNeighbors
        BY <1>1, <2>1 DEF Sound, old
    <3>3. n(k) \subseteq (1..last - 1) \ {k}
        BY <1>1, <3>1, <3>2 DEF MovedFrom
    <3>4. Cardinality(n(k)) <= MaxNeighbors
        BY <3>1, <3>2, NavAssumption
    <3> QED
        BY <1>4, <3>1, <3>2, <3>3, <3>4 DEF Sound
  <2> QED
      BY <1>4, <2>2, <2>3, WholeParts
<1> QED
    BY <1>3, <1>5, <1>6 DEF Kept, old, n

(* What is read is what was written, unless it is known to be cut.         *)
LEMMA LoadStep ==
  ASSUME Typed(wptFile.nodes), wptFile.cut \in BOOLEAN, FromFile
  PROVE  /\ Typed(waypoints') /\ cut' \in BOOLEAN
         /\ ~cut' => waypoints' = wptFile.nodes /\ ~wptFile.cut
<1> DEFINE nodes == wptFile.nodes
           part == SubSeq(nodes, 1, FileRoom)
<1>1. CASE Len(nodes) <= FileRoom
    BY <1>1 DEF FromFile
<1>2. CASE ~(Len(nodes) <= FileRoom)
  <2>1. /\ Len(nodes) \in Nat /\ FileRoom \in Nat /\ MaxWaypoints \in Nat
        /\ FileRoom + 1 <= Len(nodes) /\ Len(nodes) <= MaxWaypoints
        /\ \A i \in 1..Len(nodes) : nodes[i] \in Waypoint
      BY <1>2, TypedParts, NavAssumption DEF Typed
  <2>2. /\ cut' = TRUE
        /\ \/ waypoints' = part
           \/ \E w \in CutShort(nodes[FileRoom + 1]) : waypoints' = Append(part, w)
      BY <1>2 DEF FromFile
  <2>3. part \in Seq(Waypoint) /\ Len(part) = FileRoom
    <3>1. \A i \in 1..FileRoom : nodes[i] \in Waypoint
        BY <2>1
    <3>2. part \in Seq(Waypoint)
          /\ Len(part) = IF 1 <= FileRoom THEN FileRoom - 1 + 1 ELSE 0
        BY <2>1, <3>1, SubSeqProperties
    <3> QED
        BY <2>1, <3>2
  <2>4. \A w \in CutShort(nodes[FileRoom + 1]) : w \in Waypoint
    <3> SUFFICES ASSUME NEW w \in CutShort(nodes[FileRoom + 1]) PROVE w \in Waypoint
        OBVIOUS
    <3> DEFINE last == nodes[FileRoom + 1]
    <3>1. last \in Waypoint /\ w \in CutShort(last)
        BY <2>1
    <3> HIDE DEF last
    <3>2. CASE w = Alone(Nowhere)
        BY <3>2 DEF Alone, Waypoint
    <3>3. ASSUME NEW n \in SUBSET last.neighbors, NEW k \in 1..MaxWaypoints,
                 w = [place |-> last.place, neighbors |-> n \cup {k}]
          PROVE  w \in Waypoint
        BY <3>1, <3>3 DEF Waypoint
    <3>4. \/ w = Alone(Nowhere)
          \/ \E n \in SUBSET last.neighbors, k \in Misread(last) :
                w = [place |-> last.place, neighbors |-> n \cup {k}]
        BY <3>1 DEF CutShort
    <3>5. Misread(last) \subseteq 1..MaxWaypoints
        BY DEF Misread
    <3> QED
        BY <3>2, <3>3, <3>4, <3>5
  <2> HIDE DEF part
  <2>5. ASSUME NEW w \in CutShort(nodes[FileRoom + 1]), waypoints' = Append(part, w)
        PROVE  Typed(waypoints')
    <3>1. waypoints' \in Seq(Waypoint) /\ Len(waypoints') = FileRoom + 1
        BY <2>3, <2>4, <2>5, AppendProperties
    <3> QED
        BY <2>1, <3>1 DEF Typed
  <2>6. CASE waypoints' = part
      BY <2>1, <2>2, <2>3, <2>6 DEF Typed
  <2> QED
      BY <2>2, <2>5, <2>6
<1> QED
    BY <1>1, <1>2

LEMMA GenerateStep ==
  ASSUME NAV_AutoGenerate
  PROVE  Typed(waypoints') /\ Whole(waypoints') /\ cut' = FALSE /\ UNCHANGED wptFile
<1>0. PICK max \in 0..MaxWaypoints :
         \E seeds \in [1..max -> Places], sight \in SUBSET Pairs(max) :
            /\ \A i, j \in 1..max : i # j => seeds[i] # seeds[j]
            /\ waypoints' = [i \in 1..max |-> [place |-> seeds[i],
                                               neighbors |-> NewNeighbors({}, Sees(max, sight, i))]]
    BY DEF NAV_AutoGenerate
<1>1. PICK seeds \in [1..max -> Places], sight \in SUBSET Pairs(max) :
         /\ \A i, j \in 1..max : i # j => seeds[i] # seeds[j]
         /\ waypoints' = [i \in 1..max |-> [place |-> seeds[i],
                                            neighbors |-> NewNeighbors({}, Sees(max, sight, i))]]
    BY <1>0
<1>2. max \in Nat /\ max <= MaxWaypoints
    BY NavAssumption
<1>3. ASSUME NEW i \in 1..max
      PROVE  /\ waypoints'[i] \in Waypoint /\ waypoints'[i].place = seeds[i]
             /\ waypoints'[i].neighbors \subseteq (1..max) \ {i}
             /\ Cardinality(waypoints'[i].neighbors) <= MaxNeighbors
  <2> DEFINE seen == Sees(max, sight, i)
             n == NewNeighbors({}, seen)
  <2>1. seen \subseteq (1..max) \ {i}
      BY DEF Sees
  <2>2. seen \in Numbers /\ {} \in Numbers
      BY <1>2, <2>1, NavAssumption DEF Numbers
  <2>3. Cardinality({}) <= MaxNeighbors
      BY FS_EmptySet, NavAssumption
  <2>4. waypoints'[i] = [place |-> seeds[i], neighbors |-> n]
      BY <1>1
  <2> HIDE DEF seen
  <2>5. n \in Numbers /\ n \subseteq {} \cup seen /\ Cardinality(n) <= MaxNeighbors
      BY <2>2, <2>3, NeighborsFit
  <2> HIDE DEF n
  <2>6. /\ waypoints'[i] \in Waypoint /\ waypoints'[i].place = seeds[i]
        /\ waypoints'[i].neighbors = n
      BY <2>4, <2>5 DEF Waypoint, Numbers
  <2> QED
      BY <2>1, <2>5, <2>6
<1>4. DOMAIN waypoints' = 1..max /\ waypoints' = [i \in 1..max |-> waypoints'[i]]
    BY <1>1
<1>5. Typed(waypoints')
    BY <1>2, <1>3, <1>4, IsArray DEF Typed
<1>6. Distinct(waypoints')
    BY <1>1, <1>3, <1>4 DEF Distinct
<1>7. \A i \in 1..max : Sound(waypoints', i)
    BY <1>3, <1>4 DEF Sound
<1> QED
    BY <1>4, <1>5, <1>6, <1>7, WholeParts DEF NAV_AutoGenerate

-----------------------------------------------------------------------------
(* The invariant.                                                          *)

LEMMA InvParts ==
  /\ GraphInv <=> /\ Typed(waypoints) /\ Typed(wptFile.nodes)
                  /\ wptFile = [there |-> wptFile.there, nodes |-> wptFile.nodes,
                                cut |-> wptFile.cut]
                  /\ wptFile.there \in BOOLEAN /\ wptFile.cut \in BOOLEAN /\ cut \in BOOLEAN
                  /\ (cut \/ Whole(waypoints)) /\ (wptFile.cut \/ Whole(wptFile.nodes))
  /\ GraphInv' <=> /\ Typed(waypoints') /\ Typed(wptFile'.nodes)
                   /\ wptFile' = [there |-> wptFile'.there, nodes |-> wptFile'.nodes,
                                  cut |-> wptFile'.cut]
                   /\ wptFile'.there \in BOOLEAN /\ wptFile'.cut \in BOOLEAN /\ cut' \in BOOLEAN
                   /\ (cut' \/ Whole(waypoints')) /\ (wptFile'.cut \/ Whole(wptFile'.nodes))
BY DEF GraphInv, GraphTypeOK, NumWaypoints, Typed, Whole

LEMMA EmptyIsWhole ==
  ASSUME NEW wps, wps = <<>>
  PROVE  Typed(wps) /\ Whole(wps)
<1>1. wps \in Seq(Waypoint) /\ Len(wps) = 0 /\ DOMAIN wps = 1..0
    BY EmptySeq, LenProperties
<1>2. Typed(wps)
    BY <1>1, NavAssumption DEF Typed
<1>3. DOMAIN wps = {}
    BY <1>1
<1> QED
    BY <1>2, <1>3 DEF Whole

LEMMA InitInv == GraphInit => GraphInv
<1> SUFFICES ASSUME GraphInit PROVE GraphInv
    OBVIOUS
<1>1. waypoints = <<>> /\ wptFile.nodes = <<>> /\ wptFile.there = FALSE
      /\ wptFile.cut = FALSE /\ cut = FALSE
      /\ wptFile = [there |-> FALSE, nodes |-> <<>>, cut |-> FALSE]
    BY DEF GraphInit
<1>2. Typed(waypoints) /\ Whole(waypoints) /\ Typed(wptFile.nodes) /\ Whole(wptFile.nodes)
    BY <1>1, EmptyIsWhole
<1>3. wptFile = [there |-> wptFile.there, nodes |-> wptFile.nodes, cut |-> wptFile.cut]
    BY <1>1
<1>4. wptFile.there \in BOOLEAN /\ wptFile.cut \in BOOLEAN /\ cut \in BOOLEAN
    BY <1>1
<1> QED
    BY <1>2, <1>3, <1>4, InvParts

LEMMA KeptIsInv ==
  ASSUME GraphInv, Kept(waypoints, waypoints'), UNCHANGED <<wptFile, cut>>
  PROVE  GraphInv'
BY InvParts DEF Kept

LEMMA LoadInv ==
  ASSUME GraphInv, FromFile, UNCHANGED wptFile
  PROVE  GraphInv'
<1>1. Typed(wptFile.nodes) /\ wptFile.cut \in BOOLEAN /\ (wptFile.cut \/ Whole(wptFile.nodes))
    BY InvParts
<1> QED
    BY <1>1, LoadStep, InvParts

LEMMA NextInv == GraphInv /\ [GraphNext]_navVars => GraphInv'
<1> SUFFICES ASSUME GraphInv, [GraphNext]_navVars PROVE GraphInv'
    OBVIOUS
<1>0. Typed(waypoints)
    BY InvParts
<1>1. ASSUME NEW p \in Places, NAV_AddWaypoint(p) PROVE GraphInv'
    BY <1>0, <1>1, AddStep, KeptIsInv DEF NAV_AddWaypoint
<1>2. ASSUME NEW i \in Indices, NAV_DeleteWaypoint(i) PROVE GraphInv'
    BY <1>0, <1>2, DeleteStep, KeptIsInv DEF NAV_DeleteWaypoint
<1>3. ASSUME NEW a \in Indices, NEW b \in Indices, NAV_LinkWaypoints(a, b) PROVE GraphInv'
    BY <1>0, <1>3, LinkStep, KeptIsInv DEF NAV_LinkWaypoints
<1>4. CASE NAV_AutoLink
    BY <1>0, <1>4, AutoLinkStep, KeptIsInv DEF NAV_AutoLink
<1>5. CASE NAV_SaveToFile
  <2>1. /\ wptFile'.nodes = waypoints /\ wptFile'.there /\ wptFile'.cut = cut
        /\ wptFile' = [there |-> wptFile'.there, nodes |-> wptFile'.nodes, cut |-> wptFile'.cut]
        /\ UNCHANGED <<waypoints, cut>>
      BY <1>5 DEF NAV_SaveToFile
  <2> QED
      BY <2>1, InvParts
<1>6. CASE NAV_LoadFromFile
    BY <1>6, LoadInv DEF NAV_LoadFromFile
<1>7. CASE NAV_InitForMap
  <2>1. CASE wptFile.there
      BY <1>7, <2>1, LoadInv DEF NAV_InitForMap
  <2>2. CASE ~wptFile.there
      BY <1>7, <2>2, GenerateStep, InvParts DEF NAV_InitForMap
  <2> QED
      BY <2>1, <2>2
<1>8. CASE UNCHANGED navVars
    BY <1>8, InvParts DEF navVars
<1> QED
    BY <1>1, <1>2, <1>3, <1>4, <1>5, <1>6, <1>7, <1>8 DEF GraphNext

(* A neighbour's index is that of a waypoint, in the array and in the      *)
(* file, as long as no file was read that did not fit (g_nav.c).           *)
THEOREM GraphStaysWhole == GraphSpec => []GraphInv
<1> QED
    BY InitInv, NextInv, PTL DEF GraphSpec

-----------------------------------------------------------------------------
(* The graph that an array stands for.                                     *)

Joins(wps, l) ==
    \E i \in DOMAIN wps : \E j \in wps[i].neighbors \cap DOMAIN wps :
       l = <<wps[i].place, wps[j].place>>

LEMMA GraphFields ==
  ASSUME NEW wps
  PROVE  /\ GraphOf(wps) = [nodes |-> GraphOf(wps).nodes, links |-> GraphOf(wps).links]
         /\ GraphOf(wps).nodes = {wps[i].place : i \in DOMAIN wps}
         /\ \A l : l \in GraphOf(wps).links <=> Joins(wps, l)
<1> DEFINE from(i) == {<<wps[i].place, wps[j].place>> : j \in wps[i].neighbors \cap DOMAIN wps}
           all == UNION {from(i) : i \in DOMAIN wps}
<1>1. GraphOf(wps) = [nodes |-> {wps[i].place : i \in DOMAIN wps}, links |-> all]
    BY DEF GraphOf, PlacesOf
<1>2. ASSUME NEW l
      PROVE  l \in all <=> Joins(wps, l)
  <2>1. l \in all <=> \E i \in DOMAIN wps : l \in from(i)
      OBVIOUS
  <2>2. \A i : l \in from(i) <=> \E j \in wps[i].neighbors \cap DOMAIN wps :
                                   l = <<wps[i].place, wps[j].place>>
      OBVIOUS
  <2> QED
      BY <2>1, <2>2 DEF Joins
<1> HIDE DEF all
<1> QED
    BY <1>1, <1>2

LEMMA WholeIsGraph ==
  ASSUME NEW wps, Whole(wps), NEW g, g = GraphOf(wps)
  PROVE  /\ g = [nodes |-> g.nodes, links |-> g.links]
         /\ g.nodes \subseteq Places
         /\ \A l \in g.links : l \in g.nodes \X g.nodes /\ l[1] # l[2]
<1>1. Distinct(wps) /\ \A i \in DOMAIN wps : Sound(wps, i)
    BY WholeParts
<1>2. /\ g = [nodes |-> g.nodes, links |-> g.links]
      /\ g.nodes = {wps[i].place : i \in DOMAIN wps}
      /\ \A l : l \in g.links <=> Joins(wps, l)
    BY GraphFields
<1>3. g.nodes \subseteq Places
    BY <1>1, <1>2 DEF Sound
<1>4. ASSUME NEW l \in g.links
      PROVE  l \in g.nodes \X g.nodes /\ l[1] # l[2]
  <2>1. PICK i \in DOMAIN wps, j \in DOMAIN wps :
           j \in wps[i].neighbors /\ l = <<wps[i].place, wps[j].place>>
      BY <1>2 DEF Joins
  <2>2. i # j
      BY <1>1, <2>1 DEF Sound
  <2> QED
      BY <1>1, <1>2, <2>1, <2>2 DEF Distinct
<1> QED
    BY <1>2, <1>3, <1>4

LEMMA RicherGraph ==
  ASSUME NEW wps, Typed(wps), NEW new, Typed(new), Richer(wps, new)
  PROVE  /\ GraphOf(new).nodes = GraphOf(wps).nodes
         /\ GraphOf(wps).links \subseteq GraphOf(new).links
<1>1. DOMAIN wps = 1..Len(wps) /\ DOMAIN new = 1..Len(wps)
    BY TypedParts DEF Richer
<1>2. /\ \A i \in 1..Len(wps) : new[i].place = wps[i].place
      /\ \A i \in 1..Len(wps) : wps[i].neighbors \subseteq new[i].neighbors
    BY DEF Richer
<1>3. GraphOf(new).nodes = GraphOf(wps).nodes
  <2>1. {new[i].place : i \in DOMAIN new} = {wps[i].place : i \in DOMAIN wps}
      BY <1>1, <1>2
  <2> QED
      BY <2>1, GraphFields
<1>4. \A l : Joins(wps, l) => Joins(new, l)
    BY <1>1, <1>2 DEF Joins
<1> QED
    BY <1>3, <1>4, GraphFields

LEMMA AddsPlace ==
  ASSUME Typed(waypoints), NEW p \in Places, NAV_AddWaypoint(p), Whole(waypoints)
  PROVE  GraphOf(waypoints') = [GraphOf(waypoints) EXCEPT !.nodes = @ \cup {p}]
         /\ p \notin GraphOf(waypoints).nodes
<1> DEFINE n == Len(waypoints)
<1>1. /\ n \in Nat /\ DOMAIN waypoints = 1..n /\ DOMAIN waypoints' = 1..(n + 1)
      /\ waypoints'[n + 1].place = p /\ waypoints'[n + 1].neighbors = {}
      /\ \A i \in 1..n : waypoints'[i] = waypoints[i] /\ waypoints[i].place # p
    BY AddStep, TypedParts DEF Kept
<1>2. \A i \in 1..n : waypoints[i].neighbors \subseteq 1..n
    BY <1>1, WholeParts DEF Sound
<1>3. {waypoints'[i].place : i \in 1..(n + 1)} = {waypoints[i].place : i \in 1..n} \cup {p}
  <2>1. 1..(n + 1) = (1..n) \cup {n + 1}
      BY <1>1
  <2> QED
      BY <1>1, <2>1
<1>4. \A l : Joins(waypoints', l) <=> Joins(waypoints, l)
  <2>1. \A i \in 1..n : i \in 1..(n + 1) /\ i # n + 1
      BY <1>1
  <2>2. \A i \in 1..(n + 1) : i \in 1..n \/ i = n + 1
      BY <1>1
  <2> HIDE DEF n
  <2> QED
      BY <1>1, <1>2, <2>1, <2>2 DEF Joins
<1>5. GraphOf(waypoints').links = GraphOf(waypoints).links
  <2>1. \A l : l \in GraphOf(waypoints').links <=> l \in GraphOf(waypoints).links
      BY <1>4, GraphFields
  <2> DEFINE a == GraphOf(waypoints').links
             b == GraphOf(waypoints).links
  <2>2. a \subseteq b /\ b \subseteq a
      BY <2>1
  <2> HIDE DEF a, b
  <2>3. a = b
      BY <2>2
  <2> QED
      BY <2>3 DEF a, b
<1>6. GraphOf(waypoints').nodes = GraphOf(waypoints).nodes \cup {p}
    BY <1>1, <1>3, GraphFields
<1>7. p \notin GraphOf(waypoints).nodes
    BY <1>1, GraphFields
<1> QED
    BY <1>5, <1>6, <1>7, GraphFields

(* The index that waypoint m has when waypoint i is gone.                  *)
After(m, i, last) == IF m = last THEN i ELSE m

LEMMA BeforeAndAfter ==
  ASSUME NEW last \in Nat, NEW i \in 1..last
  PROVE  /\ \A k \in 1..last - 1 : MovedFrom(k, i, last) \in 1..last /\ MovedFrom(k, i, last) # i
         /\ \A m \in 1..last : m # i => /\ After(m, i, last) \in 1..last - 1
                                        /\ MovedFrom(After(m, i, last), i, last) = m
BY DEF MovedFrom, After

LEMMA DeletesPlace ==
  ASSUME Typed(waypoints), NEW i \in Indices, NAV_DeleteWaypoint(i), Whole(waypoints),
         NEW p, p = waypoints[i].place
  PROVE  /\ p \in GraphOf(waypoints).nodes
         /\ GraphOf(waypoints') =
               [nodes |-> GraphOf(waypoints).nodes \ {p},
                links |-> {l \in GraphOf(waypoints).links : l[1] # p /\ l[2] # p}]
<1> DEFINE last == Len(waypoints)
           B(k) == MovedFrom(k, i, last)
           A(m) == After(m, i, last)
           place(k) == waypoints[k].place
           next(k) == waypoints[k].neighbors
<1>1. /\ last \in 1..MaxWaypoints /\ i \in 1..last
      /\ DOMAIN waypoints = 1..last /\ DOMAIN waypoints' = 1..last - 1
      /\ \A k \in 1..last - 1 : /\ waypoints'[k].place = place(B(k))
                                /\ waypoints'[k].neighbors = Renumbered(next(B(k)), i, last)
  <2>1. Typed(waypoints') /\ Len(waypoints') = last - 1
      BY DeleteStep DEF Kept
  <2>2. last \in Nat /\ last <= MaxWaypoints /\ i \in 1..last /\ DOMAIN waypoints = 1..last
      BY TypedParts DEF Typed, Indices, NumWaypoints
  <2>3. DOMAIN waypoints' = 1..last - 1
      BY <2>1, TypedParts
  <2>4. last \in 1..MaxWaypoints
      BY <2>2, NavAssumption
  <2>5. \A k \in 1..last - 1 :
           /\ waypoints'[k].place = waypoints[MovedFrom(k, i, last)].place
           /\ waypoints'[k].neighbors = Renumbered(waypoints[MovedFrom(k, i, last)].neighbors, i, last)
      BY DeleteStep
  <2> QED
      BY <2>2, <2>3, <2>4, <2>5
<1>2. \A k \in 1..last : next(k) \subseteq (1..last) \ {k} /\ next(k) \in Numbers
    BY <1>1, WholeParts, TypedParts DEF Sound
<1>3. \A j, k \in 1..last : j # k => place(j) # place(k)
    BY <1>1, WholeParts DEF Distinct
<1>4. /\ \A k \in 1..last - 1 : B(k) \in 1..last /\ B(k) # i
      /\ \A m \in 1..last : m # i => A(m) \in 1..last - 1 /\ B(A(m)) = m
  <2>1. last \in Nat /\ i \in 1..last
      BY <1>1, NavAssumption
  <2> HIDE DEF last
  <2> QED
      BY <2>1, BeforeAndAfter
<1>5. \A k \in 1..last - 1 : \A j : j \in Renumbered(next(B(k)), i, last)
                                       <=> \E m \in next(B(k)) : m # i /\ j = A(m)
  <2> SUFFICES ASSUME NEW k \in 1..last - 1
               PROVE  \A j : j \in Renumbered(next(B(k)), i, last)
                                <=> \E m \in next(B(k)) : m # i /\ j = A(m)
      OBVIOUS
  <2> DEFINE n == next(B(k))
  <2>1. n \in Numbers
      BY <1>2, <1>4
  <2> HIDE DEF n
  <2>2. \A j : j \in Renumbered(n, i, last) <=> \E m \in n : m # i /\ j = IF m = last THEN i ELSE m
      BY <1>1, <2>1, RenumberedFit
  <2> QED
      BY <2>2 DEF n, After
<1>6. place(i) = p
    OBVIOUS
<1> HIDE DEF last, B, A, place, next
<1>7. ASSUME NEW l, Joins(waypoints', l)
      PROVE  Joins(waypoints, l) /\ l[1] # p /\ l[2] # p
  <2>1. PICK k \in 1..last - 1, j \in 1..last - 1 :
           j \in waypoints'[k].neighbors /\ l = <<waypoints'[k].place, waypoints'[j].place>>
      BY <1>1, <1>7 DEF Joins
  <2>2. PICK m \in next(B(k)) : m # i /\ j = A(m)
      BY <1>1, <1>5, <2>1
  <2>3. B(k) \in 1..last /\ B(k) # i /\ m \in 1..last /\ B(j) = m
      BY <1>2, <1>4, <2>2
  <2>4. l = <<place(B(k)), place(m)>>
      BY <1>1, <2>1, <2>3
  <2>5. place(B(k)) # p /\ place(m) # p
      BY <1>1, <1>3, <1>6, <2>2, <2>3
  <2>6. Joins(waypoints, l)
      BY <1>1, <2>2, <2>3, <2>4 DEF Joins, place, next
  <2> QED
      BY <2>4, <2>5, <2>6
<1>8. ASSUME NEW l, Joins(waypoints, l), l[1] # p, l[2] # p
      PROVE  Joins(waypoints', l)
  <2>1. PICK a \in 1..last, m \in 1..last : m \in next(a) /\ l = <<place(a), place(m)>>
      BY <1>1, <1>8 DEF Joins, place, next
  <2>2. a # i /\ m # i
      BY <1>6, <1>8, <2>1
  <2>3. /\ A(a) \in 1..last - 1 /\ B(A(a)) = a
        /\ A(m) \in 1..last - 1 /\ B(A(m)) = m
      BY <1>4, <2>1, <2>2
  <2>4. A(m) \in waypoints'[A(a)].neighbors
      BY <1>1, <1>5, <2>1, <2>2, <2>3
  <2>5. l = <<waypoints'[A(a)].place, waypoints'[A(m)].place>>
      BY <1>1, <2>1, <2>3
  <2> QED
      BY <1>1, <2>3, <2>4, <2>5 DEF Joins
<1>9. GraphOf(waypoints').nodes = GraphOf(waypoints).nodes \ {p}
  <2>1. {waypoints'[k].place : k \in 1..last - 1} = {place(k) : k \in 1..last} \ {p}
    <3>1. ASSUME NEW k \in 1..last - 1
          PROVE  waypoints'[k].place \in {place(m) : m \in 1..last} \ {p}
        BY <1>1, <1>3, <1>4, <1>6
    <3>2. ASSUME NEW m \in 1..last, place(m) # p
          PROVE  place(m) \in {waypoints'[k].place : k \in 1..last - 1}
      <4>1. A(m) \in 1..last - 1 /\ B(A(m)) = m
          BY <1>4, <1>6, <3>2
      <4>2. waypoints'[A(m)].place = place(m)
          BY <1>1, <4>1
      <4> QED
          BY <4>1, <4>2
    <3> QED
        BY <3>1, <3>2
  <2> QED
      BY <1>1, <2>1, GraphFields DEF place
<1>10. GraphOf(waypoints').links = {l \in GraphOf(waypoints).links : l[1] # p /\ l[2] # p}
  <2> DEFINE a == GraphOf(waypoints').links
             b == {l \in GraphOf(waypoints).links : l[1] # p /\ l[2] # p}
  <2>1. \A l : l \in a <=> Joins(waypoints', l)
      BY GraphFields
  <2>2. \A l : l \in b <=> Joins(waypoints, l) /\ l[1] # p /\ l[2] # p
      BY GraphFields
  <2> HIDE DEF a, b
  <2>3. a = b
      BY <1>7, <1>8, <2>1, <2>2
  <2> QED
      BY <2>3 DEF a, b
<1>11. p \in GraphOf(waypoints).nodes
    BY <1>1, <1>6, GraphFields DEF place
<1> QED
    BY <1>9, <1>10, <1>11, GraphFields

(* Every step is one of WaypointGraph, once a file that did not fit was    *)
(* read any step.                                                          *)
LEMMA StepRefines ==
  ASSUME GraphInv, GraphInv', [GraphNext]_navVars
  PROVE  [Abstract!AGNext]_<<GraphOf(waypoints), GraphOf(wptFile.nodes), wptFile.there,
                             cut \/ wptFile.cut>>
<1> DEFINE same == UNCHANGED <<GraphOf(waypoints), GraphOf(wptFile.nodes), wptFile.there,
                               cut \/ wptFile.cut>>
           g == GraphOf(waypoints)
           h == GraphOf(waypoints')
<1> SUFFICES Abstract!AGNext \/ same
    OBVIOUS
<1>1. CASE cut \/ wptFile.cut
    BY <1>1 DEF Abstract!AGNext
<1>2. CASE cut' \/ wptFile'.cut
    BY <1>2, InvParts DEF Abstract!AGNext, Abstract!Break
<1>3. CASE ~(cut \/ wptFile.cut) /\ ~(cut' \/ wptFile'.cut)
  <2>1. /\ Typed(waypoints) /\ Typed(waypoints') /\ Whole(waypoints) /\ Whole(waypoints')
        /\ Typed(wptFile.nodes) /\ wptFile.cut \in BOOLEAN /\ cut = FALSE /\ wptFile.cut = FALSE
        /\ cut' = FALSE /\ wptFile'.cut = FALSE
      BY <1>3, InvParts
  <2>2. ASSUME NEW p \in Places, NAV_AddWaypoint(p)
        PROVE  Abstract!Add
    <3>1. h = [g EXCEPT !.nodes = @ \cup {p}] /\ p \notin g.nodes
        BY <2>1, <2>2, AddsPlace
    <3>2. wptFile' = wptFile /\ cut' = cut
        BY <2>2 DEF NAV_AddWaypoint
    <3> QED
        BY <3>1, <3>2 DEF Abstract!Add
  <2>3. ASSUME NEW i \in Indices, NAV_DeleteWaypoint(i)
        PROVE  Abstract!Delete
    <3> DEFINE p == waypoints[i].place
    <3>1. p \in g.nodes /\ h = [nodes |-> g.nodes \ {p},
                                links |-> {l \in g.links : l[1] # p /\ l[2] # p}]
        BY <2>1, <2>3, DeletesPlace
    <3>2. wptFile' = wptFile /\ cut' = cut
        BY <2>3 DEF NAV_DeleteWaypoint
    <3> HIDE DEF p, g, h
    <3> QED
        BY <3>1, <3>2 DEF Abstract!Delete, g, h
  <2>4. ASSUME Richer(waypoints, waypoints'), wptFile' = wptFile, cut' = cut
        PROVE  Abstract!Link
    <3>1. h.nodes = g.nodes /\ g.links \subseteq h.links
        BY <2>1, <2>4, RicherGraph
    <3>2. Abstract!IsGraph(h)
        BY <2>1, WholeIsGraph DEF Abstract!IsGraph
    <3> QED
        BY <2>4, <3>1, <3>2 DEF Abstract!Link, Abstract!IsGraph
  <2>5. ASSUME NEW a \in Indices, NEW b \in Indices, NAV_LinkWaypoints(a, b)
        PROVE  Abstract!Link
      BY <2>1, <2>4, <2>5, LinkStep DEF NAV_LinkWaypoints
  <2>6. CASE NAV_AutoLink
      BY <2>1, <2>4, <2>6, AutoLinkStep DEF NAV_AutoLink, Abstract!AGNext
  <2>7. CASE NAV_SaveToFile
    <3>1. wptFile'.nodes = waypoints /\ wptFile'.there = TRUE /\ waypoints' = waypoints
        BY <2>7 DEF NAV_SaveToFile
    <3> QED
        BY <2>1, <3>1 DEF Abstract!AGNext, Abstract!Save
  <2>8. ASSUME wptFile.there, FromFile, wptFile' = wptFile
        PROVE  Abstract!Load
    <3>1. waypoints' = wptFile.nodes
        BY <2>1, <2>8, LoadStep
    <3> QED
        BY <2>1, <2>8, <3>1 DEF Abstract!Load
  <2>9. CASE NAV_LoadFromFile
      BY <2>8, <2>9 DEF NAV_LoadFromFile, Abstract!AGNext
  <2>10. CASE NAV_InitForMap
    <3>1. CASE wptFile.there
        BY <2>8, <2>10, <3>1 DEF NAV_InitForMap, Abstract!AGNext
    <3>2. CASE ~wptFile.there
      <4>1. wptFile' = wptFile
          BY <2>10, <3>2, GenerateStep DEF NAV_InitForMap
      <4>2. Abstract!IsGraph(h)
          BY <2>1, WholeIsGraph DEF Abstract!IsGraph
      <4> QED
          BY <2>1, <3>2, <4>1, <4>2 DEF Abstract!AGNext, Abstract!Generate, Abstract!IsGraph
    <3> QED
        BY <3>1, <3>2
  <2>11. CASE UNCHANGED navVars
      BY <2>11 DEF navVars
  <2> QED
      BY <2>2, <2>3, <2>5, <2>6, <2>7, <2>9, <2>10, <2>11 DEF GraphNext, Abstract!AGNext
<1> QED
    BY <1>1, <1>2, <1>3

(* The array with its indices is a graph of places: an edit changes what   *)
(* it names and nothing else (NAV_DeleteWaypoint, which moves a waypoint   *)
(* to another index, included), and what is loaded is what was saved.      *)
THEOREM GraphImplemented == GraphSpec => ImplementsGraph
<1>1. GraphInit => Abstract!AGInit
  <2> SUFFICES ASSUME GraphInit PROVE Abstract!AGInit
      OBVIOUS
  <2>1. waypoints = <<>> /\ wptFile.nodes = <<>> /\ wptFile.there = FALSE
        /\ wptFile.cut = FALSE /\ cut = FALSE
      BY DEF GraphInit
  <2>2. GraphOf(<<>>) = [nodes |-> {}, links |-> {}]
    <3>1. DOMAIN <<>> = {}
        OBVIOUS
    <3> QED
        BY <3>1 DEF GraphOf, PlacesOf
  <2> QED
      BY <2>1, <2>2 DEF Abstract!AGInit, Abstract!NoGraph
<1>2. GraphInv /\ GraphInv' /\ [GraphNext]_navVars =>
         [Abstract!AGNext]_<<GraphOf(waypoints), GraphOf(wptFile.nodes), wptFile.there,
                             cut \/ wptFile.cut>>
    BY StepRefines
<1> QED
    BY <1>1, <1>2, GraphStaysWhole, PTL DEF GraphSpec, ImplementsGraph, Abstract!AGSpec

-----------------------------------------------------------------------------
(* The search for a path. *)

(* Seven times the distance by which the search is guided is no more than  *)
(* this many times the cost that is left.                                  *)
Slack == IF query.team = "aliens" THEN 10 ELSE 7

LEMMA Distances ==
  ASSUME IsQuery(query), NEW a \in Nodes, NEW b \in Nodes
  PROVE  Dist(a, b) \in Nat /\ EdgeCost(a, b) \in Nat
<1>1. query.dist \in [Nodes -> [Nodes -> Nat]]
    BY DEF IsQuery, IsMetric, Nodes
<1>2. Dist(a, b) \in Nat
    BY <1>1 DEF Dist
<1>3. Multiplier(b) \in Nat
    BY DEF Multiplier
<1> QED
    BY <1>2, <1>3 DEF EdgeCost

LEMMA NodesOfQuery ==
  /\ NoQuery.count = 0 /\ NoQuery.start = 0 /\ NoQuery.goal = 0
  /\ query = NoQuery => Nodes = {}
  /\ IsQuery(query) => Nodes \subseteq Nat /\ query.start \in Nodes /\ query.goal \in Nodes
<1>1. NoQuery.count = 0 /\ NoQuery.start = 0 /\ NoQuery.goal = 0
    BY DEF NoQuery
<1>2. query = NoQuery => Nodes = {}
    BY <1>1 DEF Nodes
<1>3. ASSUME IsQuery(query)
      PROVE  Nodes \subseteq Nat /\ query.start \in Nodes /\ query.goal \in Nodes
  <2>1. query.count \in Nat /\ query.start \in 1..query.count /\ query.goal \in 1..query.count
      BY <1>3 DEF IsQuery
  <2>2. Nodes = 1..query.count
      BY <2>1 DEF Nodes
  <2> QED
      BY <2>1, <2>2
<1> QED
    BY <1>1, <1>2, <1>3

(* The waypoint to be looked at next is one that is open.                  *)
LEMMA CurrentIsOpen ==
  ASSUME PathTypeOK, Tree, open # {}
  PROVE  Current \in open /\ IsQuery(query) /\ \A m \in open : FScore(Current) <= FScore(m)
<1>1. IsQuery(query)
    BY NodesOfQuery DEF PathTypeOK
<1>2. ASSUME NEW n \in open PROVE FScore(n) \in Nat
  <2>1. gScore[n] \in Nat
      BY DEF PathTypeOK, Tree
  <2>2. Dist(n, query.goal) \in Nat
      BY <1>1, NodesOfQuery, Distances DEF PathTypeOK
  <2> QED
      BY <2>1, <2>2 DEF FScore
<1> DEFINE S == {FScore(n) : n \in open}
<1>3. PICK f \in S : \A y \in S : f <= y
    BY <1>2, LeastNumber
<1> DEFINE T == {n \in open : FScore(n) = f}
<1>4. T \in SUBSET Nat /\ T # {}
    BY <1>1, <1>3, NodesOfQuery DEF PathTypeOK
<1>5. PICK n \in T : \A m \in T : n <= m
    BY <1>4, LeastNumber
<1>6. \A m \in open : FScore(n) < FScore(m) \/ (FScore(n) = FScore(m) /\ n <= m)
    BY <1>2, <1>3, <1>5
<1>7. /\ Current \in open
      /\ \A m \in open : FScore(Current) < FScore(m) \/ (FScore(Current) = FScore(m) /\ Current <= m)
    BY <1>5, <1>6 DEF Current
<1>8. \A m \in open : FScore(Current) <= FScore(m)
    BY <1>2, <1>7
<1> QED
    BY <1>1, <1>7, <1>8

LEMMA InitSearchInv == PathInit => SearchInv
<1> SUFFICES ASSUME PathInit PROVE SearchInv
    OBVIOUS
<1>1. PathTypeOK
    BY PathAssumption DEF PathInit, PathTypeOK, Phases
<1>2. Tree
    BY DEF PathInit, Tree
<1>3. Chain
    BY DEF PathInit, Chain
<1> QED
    BY <1>1, <1>2, <1>3 DEF SearchInv

LEMMA SearchCallStep ==
  ASSUME SearchInv, phase = "called", NEW q \in Queries, NAV_FindPath(q)
  PROVE  SearchInv'
<1>1. IsQuery(q) /\ IsQuery(query)' /\ query' = q
    BY PathAssumption DEF NAV_FindPath
<1>2. /\ open = {} /\ closed = {} /\ DOMAIN gScore = {} /\ DOMAIN cameFrom = {}
      /\ outPath = <<>>
    BY DEF SearchInv, Tree, Chain
<1>3. q.start \in Nodes' /\ q.goal \in Nodes' /\ q.start \in Nat
  <2>1. q.count \in Nat /\ q.start \in 1..q.count /\ q.goal \in 1..q.count
      BY <1>1 DEF IsQuery
  <2> QED
      BY <1>1, <2>1 DEF Nodes
<1>4. closed' = {} /\ DOMAIN cameFrom' = {}
    BY <1>2 DEF NAV_FindPath
<1>5. CASE q.start = q.goal
  <2>1. /\ open' = {} /\ DOMAIN gScore' = {} /\ phase' = "done" /\ outPath' = <<q.goal>>
      BY <1>2, <1>5 DEF NAV_FindPath
  <2>2. outPath' \in Seq(Nodes') /\ Len(outPath') = 1 /\ outPath'[1] = q.goal
      BY <1>3, <2>1
  <2>3. PathTypeOK'
      BY <1>1, <1>4, <2>1, <2>2, PathAssumption DEF PathTypeOK, Phases
  <2>4. Tree'
      BY <1>1, <1>4, <1>5, <2>1 DEF Tree
  <2>5. Chain'
      BY <1>1, <1>5, <2>1, <2>2 DEF Chain
  <2> QED
      BY <2>3, <2>4, <2>5 DEF SearchInv
<1>6. CASE q.start # q.goal
  <2>1. /\ open' = {q.start} /\ gScore' = [n \in {q.start} |-> 0] /\ phase' = "search"
        /\ outPath' = <<>>
      BY <1>2, <1>6 DEF NAV_FindPath
  <2>2. PathTypeOK'
      BY <1>1, <1>3, <1>4, <2>1, PathAssumption DEF PathTypeOK, Phases
  <2>3. Tree'
      BY <1>1, <1>4, <1>6, <2>1 DEF Tree
  <2>4. Chain'
      BY <1>1, <1>6, <2>1 DEF Chain
  <2> QED
      BY <2>2, <2>3, <2>4 DEF SearchInv
<1> QED
    BY <1>5, <1>6

-----------------------------------------------------------------------------
(* One round: what is reached better hangs on the waypoint looked at.      *)
LEMMA ExpandStep ==
  ASSUME SearchInv, Expand
  PROVE  SearchInv'
<1> DEFINE n == Current
           better == Improved(n)
<1>1. /\ phase = "search" /\ open # {}
      /\ open' = (open \ {n}) \cup better
      /\ closed' = closed \cup {n}
      /\ gScore' = [m \in DOMAIN gScore \cup better |->
                       IF m \in better THEN gScore[n] + EdgeCost(n, m) ELSE gScore[m]]
      /\ cameFrom' = [m \in DOMAIN cameFrom \cup better |->
                         IF m \in better THEN n ELSE cameFrom[m]]
      /\ query' = query /\ phase' = phase /\ outPath' = outPath
    BY DEF Expand, Updated
<1>2. n \in open /\ IsQuery(query)
    BY <1>1, CurrentIsOpen DEF SearchInv
<1>3. /\ PathTypeOK /\ Tree /\ Chain /\ Nodes' = Nodes
      /\ \A a, b : CanGo(a, b)' = CanGo(a, b)
      /\ \A a, b : EdgeCost(a, b)' = EdgeCost(a, b)
    BY <1>1 DEF SearchInv, Nodes, CanGo, Passable, EdgeCost, Multiplier, Dist
<1>4. better = {m \in Nodes \ (closed \cup {n}) :
                   CanGo(n, m) /\ (m \in DOMAIN gScore => gScore[n] + EdgeCost(n, m) < gScore[m])}
    BY DEF Improved, CanGo
<1> HIDE DEF n, better
<1>5. n \in Nodes /\ n \notin closed /\ n \in DOMAIN gScore /\ gScore[n] \in Nat
    BY <1>2, <1>3 DEF PathTypeOK, Tree
<1>6. \A m \in Nodes : EdgeCost(n, m) \in Nat
    BY <1>2, <1>5, Distances
<1>7. query.start # query.goal /\ query.start \in DOMAIN gScore /\ gScore[query.start] = 0
    BY <1>1, <1>3 DEF Tree, Chain
<1>8. query.start \notin better
    BY <1>4, <1>5, <1>6, <1>7
<1>9. DOMAIN gScore = open \cup closed /\ DOMAIN cameFrom = DOMAIN gScore \ {query.start}
    BY <1>3 DEF Tree
<1>10. PathTypeOK'
  <2>1. better \subseteq Nodes
      BY <1>4
  <2>2. open' \subseteq Nodes /\ closed' \subseteq Nodes
      BY <1>1, <1>3, <1>5, <2>1 DEF PathTypeOK
  <2>3. DOMAIN gScore' \subseteq Nodes /\ \A m \in DOMAIN gScore' : gScore'[m] \in Nat
      BY <1>1, <1>3, <1>5, <1>6, <2>1 DEF PathTypeOK
  <2>4. DOMAIN cameFrom' \subseteq Nodes /\ \A m \in DOMAIN cameFrom' : cameFrom'[m] \in Nodes
      BY <1>1, <1>3, <1>5, <2>1 DEF PathTypeOK
  <2> QED
      BY <1>1, <1>2, <1>3, <2>2, <2>3, <2>4 DEF PathTypeOK, IsQuery
<1>11. Tree'
  <2>1. (open \cap closed = {})'
      BY <1>1, <1>3, <1>4 DEF Tree
  <2>2. /\ query.start \notin DOMAIN cameFrom'
        /\ DOMAIN gScore' = open' \cup closed'
        /\ DOMAIN cameFrom' = DOMAIN gScore' \ {query.start}
      BY <1>1, <1>2, <1>8, <1>9
  <2>3. ASSUME NEW m \in DOMAIN cameFrom'
        PROVE  /\ cameFrom'[m] \in closed'
               /\ CanGo(cameFrom'[m], m)
               /\ gScore'[m] = gScore'[cameFrom'[m]] + EdgeCost(cameFrom'[m], m)
    <3>1. CASE m \in better
      <4>1. n \notin better /\ CanGo(n, m)
          BY <1>4, <3>1
      <4> QED
          BY <1>1, <1>5, <3>1, <4>1
    <3>2. CASE m \notin better
      <4>1. /\ m \in DOMAIN cameFrom /\ cameFrom'[m] = cameFrom[m]
            /\ m \in DOMAIN gScore /\ gScore'[m] = gScore[m]
          BY <1>1, <1>9, <2>3, <3>2
      <4>2. /\ cameFrom[m] \in closed /\ CanGo(cameFrom[m], m)
            /\ gScore[m] = gScore[cameFrom[m]] + EdgeCost(cameFrom[m], m)
          BY <1>3, <4>1 DEF Tree
      <4>3. cameFrom[m] \notin better /\ gScore'[cameFrom[m]] = gScore[cameFrom[m]]
          BY <1>1, <1>4, <1>9, <4>2
      <4> QED
          BY <1>1, <4>1, <4>2, <4>3
    <3> QED
        BY <3>1, <3>2
  <2>4. query.start \in DOMAIN gScore' /\ gScore'[query.start] = 0
      BY <1>1, <1>7, <1>8
  <2>5. ASSUME NEW a \in closed', NEW b \in Nodes, CanGo(a, b)
        PROVE  b \in open' \cup closed'
    <3>1. CASE a \in closed
      <4>1. b \in open \cup closed
          BY <1>3, <2>5, <3>1 DEF Tree
      <4> QED
          BY <1>1, <4>1
    <3>2. CASE a = n
        BY <1>1, <1>4, <1>9, <2>5, <3>2
    <3> QED
        BY <1>1, <2>5, <3>1, <3>2
  <2> QED
      BY <1>1, <1>3, <2>1, <2>2, <2>3, <2>4, <2>5 DEF Tree
<1>12. Chain'
    BY <1>1, <1>3 DEF Chain
<1> QED
    BY <1>10, <1>11, <1>12 DEF SearchInv

-----------------------------------------------------------------------------
(* The path is made.                                                       *)
LEMMA SameTree ==
  ASSUME PathTypeOK, Tree, phase # "called", phase' # "called",
         UNCHANGED <<query, open, closed, gScore, cameFrom>>
  PROVE  /\ Tree' /\ Nodes' = Nodes /\ \A a, b : CanGo(a, b)' = CanGo(a, b)
         /\ (query = NoQuery \/ IsQuery(query))'
<1>1. \A a, b : CanGo(a, b)' = CanGo(a, b) /\ EdgeCost(a, b)' = EdgeCost(a, b)
    BY DEF CanGo, Passable, EdgeCost, Multiplier, Dist
<1>2. Nodes' = Nodes
    BY DEF Nodes
<1>3. Tree'
    BY <1>1, <1>2 DEF Tree
<1> QED
    BY <1>1, <1>2, <1>3 DEF PathTypeOK, IsQuery

LEMMA StopStep ==
  ASSUME SearchInv, StopSearch
  PROVE  SearchInv'
<1>1. /\ PathTypeOK /\ Tree /\ Chain /\ phase = "search" /\ outPath = <<>>
      /\ query.start # query.goal
      /\ UNCHANGED <<query, open, closed, gScore, cameFrom>>
    BY DEF SearchInv, StopSearch, Chain
<1>2. phase' \in {"back", "done"}
    BY DEF StopSearch
<1>3. /\ Tree' /\ Nodes' = Nodes /\ \A a, b : CanGo(a, b)' = CanGo(a, b)
      /\ (query = NoQuery \/ IsQuery(query))'
    BY <1>1, <1>2, SameTree
<1>4. CASE query.goal \in DOMAIN cameFrom
  <2>1. outPath' = <<query.goal>> /\ phase' = "back" /\ query.goal \in Nodes
      BY <1>1, <1>4 DEF StopSearch, PathTypeOK
  <2>2. /\ outPath' \in Seq(Nodes) /\ Len(outPath') = 1 /\ outPath'[1] = query.goal
        /\ Head(outPath') = query.goal /\ outPath' # <<>>
      BY <2>1
  <2>3. PathTypeOK'
      BY <1>1, <1>3, <2>1, <2>2, PathAssumption DEF PathTypeOK, Phases
  <2>4. Chain'
      BY <1>1, <1>4, <2>1, <2>2 DEF Chain, Tree
  <2> QED
      BY <1>3, <2>3, <2>4 DEF SearchInv
<1>5. CASE query.goal \notin DOMAIN cameFrom
  <2>1. outPath' = outPath /\ phase' = "done"
      BY <1>5 DEF StopSearch
  <2>2. query.goal \notin open \cup closed
      BY <1>1, <1>5 DEF Tree
  <2>3. open = {}
    <3> SUFFICES ASSUME open # {} PROVE FALSE
        OBVIOUS
    <3>1. Current \in open
        BY <1>1, CurrentIsOpen
    <3> QED
        BY <2>2, <3>1 DEF StopSearch
  <2>4. PathTypeOK'
      BY <1>1, <1>3, <2>1 DEF PathTypeOK, Phases
  <2>5. Chain'
      BY <1>1, <2>1, <2>2, <2>3 DEF Chain
  <2> QED
      BY <1>3, <2>4, <2>5 DEF SearchInv
<1> QED
    BY <1>4, <1>5

LEMMA Prepended ==
  ASSUME NEW S, NEW c \in S, NEW s \in Seq(S), s # <<>>
  PROVE  /\ <<c>> \o s \in Seq(S) /\ Len(<<c>> \o s) = Len(s) + 1
         /\ (<<c>> \o s)[1] = c /\ Head(<<c>> \o s) = c
         /\ \A k \in 1..Len(s) : (<<c>> \o s)[k + 1] = s[k]
         /\ Len(s) \in Nat \ {0} /\ Head(s) = s[1]
OBVIOUS

LEMMA BackStep ==
  ASSUME SearchInv, StepBack
  PROVE  SearchInv'
<1>1. /\ PathTypeOK /\ Tree /\ Chain /\ phase = "back" /\ outPath # <<>>
      /\ Head(outPath) \in open \cup closed
      /\ UNCHANGED <<query, open, closed, gScore, cameFrom>>
    BY DEF SearchInv, StepBack, Chain
<1>2. phase' \in {"back", "done"}
    BY <1>1 DEF StepBack
<1>3. /\ Tree' /\ Nodes' = Nodes /\ \A a, b : CanGo(a, b)' = CanGo(a, b)
      /\ (query = NoQuery \/ IsQuery(query))'
    BY <1>1, <1>2, SameTree
<1>4. /\ outPath \in Seq(Nodes) /\ Len(outPath) \in Nat \ {0} /\ Head(outPath) = outPath[1]
      /\ MaxNodes \in Nat
    BY <1>1, PathAssumption DEF PathTypeOK
<1>5. CASE GoesBack
  <2> DEFINE h == Head(outPath)
             c == cameFrom[h]
             p == <<c>> \o outPath
  <2>1. outPath' = p /\ phase' = "back" /\ h \in DOMAIN cameFrom /\ Len(outPath) < MaxNodes
      BY <1>1, <1>5 DEF StepBack, GoesBack, Room
  <2>2. c \in closed /\ CanGo(c, h) /\ c \in Nodes
      BY <1>1, <2>1 DEF Tree, PathTypeOK
  <2> HIDE DEF c
  <2>3. /\ p \in Seq(Nodes) /\ Len(p) = Len(outPath) + 1 /\ p[1] = c /\ Head(p) = c
        /\ \A k \in 1..Len(outPath) : p[k + 1] = outPath[k]
      BY <1>1, <1>4, <2>2, Prepended
  <2> HIDE DEF p
  <2>4. PathTypeOK'
    <3>1. Len(p) <= MaxNodes
        BY <1>4, <2>1, <2>3
    <3> QED
        BY <1>1, <1>3, <2>1, <2>3, <3>1 DEF PathTypeOK, Phases
  <2>5. p[Len(p)] = query.goal
    <3>1. outPath[Len(outPath)] = query.goal
        BY <1>1 DEF Chain
    <3> QED
        BY <1>4, <2>3, <3>1
  <2>6. ASSUME NEW k \in 1..Len(p) - 1 PROVE CanGo(p[k], p[k + 1])
    <3>1. CASE k = 1
        BY <1>4, <2>2, <2>3, <3>1
    <3>2. CASE k # 1
      <4>1. k - 1 \in 1..Len(outPath) - 1
          BY <1>4, <2>3, <3>2
      <4>2. CanGo(outPath[k - 1], outPath[(k - 1) + 1])
          BY <1>1, <4>1 DEF Chain
      <4>3. p[k] = outPath[k - 1] /\ p[k + 1] = outPath[(k - 1) + 1]
          BY <1>4, <2>3, <4>1
      <4> QED
          BY <4>2, <4>3
    <3> QED
        BY <3>1, <3>2
  <2>7. p # <<>>
      BY <1>4, <2>3
  <2>8. Chain'
      BY <1>1, <1>3, <2>1, <2>2, <2>3, <2>5, <2>6, <2>7 DEF Chain
  <2> QED
      BY <1>3, <2>4, <2>8 DEF SearchInv
<1>6. CASE ~GoesBack
  <2>1. outPath' = outPath /\ phase' = "done"
      BY <1>6 DEF StepBack
  <2>2. PathTypeOK'
      BY <1>1, <1>3, <2>1 DEF PathTypeOK, Phases
  <2>3. Len(outPath) < MaxNodes => outPath[1] = query.start
      BY <1>1, <1>4, <1>6 DEF GoesBack, Room, Tree
  <2>4. Chain'
      BY <1>1, <1>3, <2>1, <2>3 DEF Chain
  <2> QED
      BY <1>3, <2>2, <2>4 DEF SearchInv
<1> QED
    BY <1>5, <1>6

LEMMA SearchUnchanged ==
  ASSUME UNCHANGED query
  PROVE  /\ Nodes' = Nodes /\ IsQuery(query)' = IsQuery(query) /\ Slack' = Slack
         /\ \A a, b : CanGo(a, b)' = CanGo(a, b) /\ EdgeCost(a, b)' = EdgeCost(a, b)
BY DEF Nodes, IsQuery, IsMetric, Slack, CanGo, Passable, EdgeCost, Multiplier, Dist

LEMMA SearchStep ==
  ASSUME SearchInv, [PathNext]_pathVars
  PROVE  SearchInv'
<1>1. CASE UNCHANGED pathVars
  <2>1. \A a, b : CanGo(a, b)' = CanGo(a, b) /\ EdgeCost(a, b)' = EdgeCost(a, b)
      BY <1>1, SearchUnchanged DEF pathVars
  <2>2. Nodes' = Nodes
      BY <1>1, SearchUnchanged DEF pathVars
  <2>3. PathTypeOK'
      BY <1>1, <2>2 DEF pathVars, SearchInv, PathTypeOK, IsQuery
  <2>4. Tree' /\ Chain'
      BY <1>1, <2>1, <2>2 DEF pathVars, SearchInv, Tree, Chain
  <2> QED
      BY <2>3, <2>4 DEF SearchInv
<1> QED
    BY <1>1, SearchCallStep, ExpandStep, StopStep, BackStep DEF PathNext

(* Whatever the graph, a search that ends in vain has closed all that can  *)
(* be reached from the start and not the goal, and one that ends with a    *)
(* path gives a chain of links the team can use, whole unless it does not  *)
(* fit (NAV_FindPath).                                                     *)
THEOREM SearchIsRight == PathSpec => []SearchInv
<1>1. SearchInv /\ [PathNext]_pathVars => SearchInv'
    BY SearchStep
<1> QED
    BY <1>1, InitSearchInv, PTL DEF PathSpec

-----------------------------------------------------------------------------
(* What the path costs. *)

(* What a round of BestCosts makes of costs: none is lost but for a lesser *)
(* one, each is carried on along each link, and no other comes in.         *)
CostPairs == Nodes \X Nat

LEMMA RelaxedIs ==
  ASSUME IsQuery(query), NEW C \in SUBSET CostPairs
  PROVE  /\ Relaxed(C) \in SUBSET CostPairs
         /\ \A n, x, y : <<n, x>> \in Relaxed(C) /\ <<n, y>> \in Relaxed(C) => x = y
         /\ \A n, x : <<n, x>> \in Relaxed(C) =>
               \/ <<n, x>> \in C
               \/ \E a, z : <<a, z>> \in C /\ CanGo(a, n) /\ x = z + EdgeCost(a, n)
         /\ \A n, x : <<n, x>> \in C => \E y \in Nat : y <= x /\ <<n, y>> \in Relaxed(C)
         /\ \A a, b, z : <<a, z>> \in C /\ CanGo(a, b) =>
               \E y \in Nat : y <= z + EdgeCost(a, b) /\ <<b, y>> \in Relaxed(C)
<1> DEFINE carried == {<<lc[1][2], lc[2][2] + EdgeCost(lc[1][1], lc[1][2])>> :
                          lc \in {lc \in Usable \X C : lc[1][1] = lc[2][1]}}
           U == C \cup carried
<1>1. Relaxed(C) = Cheapest(U)
    BY DEF Relaxed
<1>2. \A a, b : CanGo(a, b) => a \in Nodes /\ b \in Nodes /\ <<a, b>> \in query.links
  <2>1. query.links \subseteq Nodes \X Nodes
      BY DEF IsQuery, Nodes
  <2> QED
      BY <2>1 DEF CanGo
<1>3. \A l : l \in Usable <=> \E a, b : l = <<a, b>> /\ CanGo(a, b)
  <2>1. \A l \in query.links : l = <<l[1], l[2]>>
      BY DEF IsQuery
  <2> QED
      BY <1>2, <2>1 DEF Usable
<1>4. \A a, b, z : <<a, z>> \in C /\ CanGo(a, b) => <<b, z + EdgeCost(a, b)>> \in U
  <2> SUFFICES ASSUME NEW a, NEW b, NEW z, <<a, z>> \in C, CanGo(a, b)
               PROVE  <<b, z + EdgeCost(a, b)>> \in carried
      OBVIOUS
  <2>1. <<a, b>> \in Usable
      BY <1>3
  <2>2. <<<<a, b>>, <<a, z>>>> \in {lc \in Usable \X C : lc[1][1] = lc[2][1]}
      BY <2>1
  <2> QED
      BY <2>2
<1>5. \A c \in carried : \E a, b, z : <<a, z>> \in C /\ CanGo(a, b) /\ c = <<b, z + EdgeCost(a, b)>>
  <2> SUFFICES ASSUME NEW l \in Usable, NEW d \in C, l[1] = d[1]
               PROVE  \E a, b, z : /\ <<a, z>> \in C /\ CanGo(a, b)
                                   /\ <<l[2], d[2] + EdgeCost(l[1], l[2])>> = <<b, z + EdgeCost(a, b)>>
      OBVIOUS
  <2>1. PICK a, b : l = <<a, b>> /\ CanGo(a, b)
      BY <1>3
  <2>2. d = <<a, d[2]>>
      BY <2>1 DEF CostPairs
  <2> QED
      BY <2>1, <2>2
<1> HIDE DEF carried
<1>6. U \in SUBSET CostPairs
  <2>1. \A a \in Nodes, b \in Nodes : EdgeCost(a, b) \in Nat
      BY Distances
  <2>2. ASSUME NEW c \in carried PROVE c \in CostPairs
    <3>1. PICK a, b, z : <<a, z>> \in C /\ CanGo(a, b) /\ c = <<b, z + EdgeCost(a, b)>>
        BY <1>5
    <3>2. z \in Nat /\ EdgeCost(a, b) \in Nat /\ b \in Nodes
        BY <1>2, <2>1, <3>1 DEF CostPairs
    <3>3. z + EdgeCost(a, b) \in Nat
        BY <3>2
    <3> QED
        BY <3>1, <3>2, <3>3 DEF CostPairs
  <2> QED
      BY <2>2
<1>7. \A n, x : <<n, x>> \in U => \E y \in Nat : y <= x /\ <<n, y>> \in Cheapest(U)
  <2> SUFFICES ASSUME NEW n, NEW x, <<n, x>> \in U
               PROVE  \E y \in Nat : y <= x /\ <<n, y>> \in Cheapest(U)
      OBVIOUS
  <2> DEFINE S == {y \in Nat : <<n, y>> \in U}
  <2>1. S \in SUBSET Nat /\ x \in S
      BY <1>6 DEF CostPairs
  <2>2. PICK y \in S : \A z \in S : y <= z
      BY <2>1, LeastNumber
  <2>3. \A d \in U : d[1] = n => d[2] \in S
      BY <1>6 DEF CostPairs
  <2>4. <<n, y>> \in Cheapest(U)
      BY <2>2, <2>3 DEF Cheapest
  <2> QED
      BY <2>1, <2>2, <2>4
<1>8. \A n, x : <<n, x>> \in Cheapest(U) => <<n, x>> \in U /\ \A y : <<n, y>> \in U => x <= y
    BY DEF Cheapest
<1>9. Cheapest(U) \subseteq U
    BY DEF Cheapest
<1>10. \A n, x, y : <<n, x>> \in Cheapest(U) /\ <<n, y>> \in Cheapest(U) => x = y
    BY <1>6, <1>8 DEF CostPairs
<1>11. \A n, x : <<n, x>> \in Cheapest(U) =>
          <<n, x>> \in C \/ \E a, z : <<a, z>> \in C /\ CanGo(a, n) /\ x = z + EdgeCost(a, n)
    BY <1>5, <1>9
<1>12. \A n, x : <<n, x>> \in C => <<n, x>> \in U
    OBVIOUS
<1> HIDE DEF U
<1>13. Relaxed(C) \in SUBSET CostPairs
    BY <1>1, <1>6, <1>9
<1>14. /\ \A n, x : <<n, x>> \in C => \E y \in Nat : y <= x /\ <<n, y>> \in Relaxed(C)
       /\ \A a, b, z : <<a, z>> \in C /\ CanGo(a, b) =>
             \E y \in Nat : y <= z + EdgeCost(a, b) /\ <<b, y>> \in Relaxed(C)
    BY <1>1, <1>4, <1>7, <1>12
<1>15. /\ \A n, x, y : <<n, x>> \in Relaxed(C) /\ <<n, y>> \in Relaxed(C) => x = y
       /\ \A n, x : <<n, x>> \in Relaxed(C) =>
             <<n, x>> \in C \/ \E a, z : <<a, z>> \in C /\ CanGo(a, n) /\ x = z + EdgeCost(a, n)
    BY <1>1, <1>10, <1>11
<1> QED
    BY ONLY <1>13, <1>14, <1>15

(* The rounds of BestCosts. *)
IsRounds(r) ==
    /\ r \in [Nat -> SUBSET CostPairs] /\ r[0] = {<<query.start, 0>>}
    /\ \A k \in Nat : r[k + 1] = Relaxed(r[k])

LEMMA NodesAreFinite ==
  ASSUME IsQuery(query)
  PROVE  IsFiniteSet(Nodes) /\ Cardinality(Nodes) \in Nat
<1>1. PICK size : size = query.count /\ size \in Int
    BY DEF IsQuery
<1>2. IsFiniteSet(1..size)
    BY <1>1, FS_Interval
<1>3. IsFiniteSet(Nodes)
    BY <1>1, <1>2 DEF Nodes
<1> QED
    BY <1>3, FS_CardinalityType

LEMMA RoundsOfCosts ==
  ASSUME IsQuery(query)
  PROVE  \E r : IsRounds(r) /\ BestCosts = r[Cardinality(Nodes)]
<1>0. IsFiniteSet(Nodes) /\ Cardinality(Nodes) \in Nat
    BY NodesAreFinite
<1> DEFINE Costs(r) == [k \in Nat |-> IF k = 0 THEN {<<query.start, 0>>} ELSE Relaxed(r[k - 1])]
           round == CHOOSE r : r = Costs(r)
<1>1. \E r : r = Costs(r)
  <2>1. PICK E : E = SUBSET CostPairs
      OBVIOUS
  <2>2. PICK first : first = {<<query.start, 0>>}
      OBVIOUS
  <2>3. first \in E
      BY <2>1, <2>2, NodesOfQuery DEF CostPairs
  <2>4. PICK step : step = [C \in E |-> Relaxed(C)]
      OBVIOUS
  <2>5. step \in [E -> E]
      BY <2>1, <2>4, RelaxedIs
  <2>6. PICK r \in [Nat -> E] : r[0] = first /\ \A k \in Nat : r[k + 1] = step[r[k]]
      BY ONLY <2>3, <2>5, Iterates
  <2>7. ASSUME NEW k \in Nat PROVE r[k] = Costs(r)[k]
    <3>1. CASE k = 0
        BY <2>2, <2>6, <3>1
    <3>2. CASE k # 0
      <4>1. k - 1 \in Nat /\ (k - 1) + 1 = k
          BY <3>2
      <4>2. r[k] = step[r[k - 1]] /\ r[k - 1] \in E
          BY <2>6, <4>1
      <4> QED
          BY <2>4, <3>2, <4>2
    <3> QED
        BY <3>1, <3>2
  <2>8. DOMAIN Costs(r) = Nat /\ r = [k \in Nat |-> r[k]]
      BY <2>6
  <2>9. r = [k \in Nat |-> Costs(r)[k]]
      BY <2>7, <2>8
  <2> QED
      BY <2>9
<1>2. round = Costs(round)
    BY <1>1
<1>3. BestCosts = round[Cardinality(Nodes)]
    BY DEF BestCosts
<1> HIDE DEF round
<1>4. \A k \in Nat : Costs(round)[k] = IF k = 0 THEN {<<query.start, 0>>} ELSE Relaxed(round[k - 1])
    OBVIOUS
<1>5. DOMAIN Costs(round) = Nat
    OBVIOUS
<1> HIDE DEF Costs
<1>6. \A k \in Nat : round[k] = IF k = 0 THEN {<<query.start, 0>>} ELSE Relaxed(round[k - 1])
    BY <1>2, <1>4
<1>7. \A k \in Nat : round[k + 1] = Relaxed(round[k])
  <2> SUFFICES ASSUME NEW k \in Nat PROVE round[k + 1] = Relaxed(round[k])
      OBVIOUS
  <2>1. k + 1 \in Nat /\ k + 1 # 0 /\ (k + 1) - 1 = k
      OBVIOUS
  <2> QED
      BY <1>6, <2>1
<1>8. \A k \in Nat : round[k] \in SUBSET CostPairs
  <2> DEFINE S == {k \in Nat : round[k] \in SUBSET CostPairs}
  <2>1. 0 \in S
      BY <1>6, NodesOfQuery DEF CostPairs
  <2>2. \A k \in S : k + 1 \in S
      BY <1>7, RelaxedIs
  <2>3. S = Nat
    <3> HIDE DEF S
    <3>1. S \in SUBSET Nat
        BY DEF S
    <3> QED
        BY <2>1, <2>2, <3>1, AllNumbers
  <2> QED
      BY <2>3
<1>9. round \in [Nat -> SUBSET CostPairs]
  <2> DEFINE f == [k \in Nat |-> round[k]]
  <2>1. \E f1 : round = [k \in Nat |-> f1[k]]
      BY <1>2 DEF Costs
  <2>2. round = [k \in Nat |-> round[k]]
      BY <2>1
  <2> QED
      BY <1>8, <2>2
<1> QED
    BY <1>3, <1>6, <1>7, <1>9 DEF IsRounds

LEMMA RoundsUnchanged ==
  ASSUME UNCHANGED query, NEW r, IsRounds(r)'
  PROVE  IsRounds(r)
<1>1. Usable' = Usable
    BY SearchUnchanged DEF Usable
<1>2. CostPairs' = CostPairs
    BY SearchUnchanged DEF CostPairs
<1>3. ASSUME NEW C PROVE Relaxed(C)' = Relaxed(C)
  <2> DEFINE reached(E(_, _)) == {<<lc[1][2], lc[2][2] + E(lc[1][1], lc[1][2])>> :
                                      lc \in {lc \in Usable \X C : lc[1][1] = lc[2][1]}}
             now == {<<lc[1][2], lc[2][2] + EdgeCost(lc[1][1], lc[1][2])>> :
                        lc \in {lc \in Usable \X C : lc[1][1] = lc[2][1]}}
             next == {<<lc[1][2], lc[2][2] + EdgeCost(lc[1][1], lc[1][2])'>> :
                        lc \in {lc \in Usable' \X C : lc[1][1] = lc[2][1]}}
  <2>1. now = next
      BY <1>1, SearchUnchanged
  <2>2. Relaxed(C) = Cheapest(C \cup now)
      BY DEF Relaxed
  <2>3. Relaxed(C)' = Cheapest(C \cup next)
      BY DEF Relaxed, Cheapest
  <2> QED
      BY <2>1, <2>2, <2>3
<1> QED
    BY <1>2, <1>3 DEF IsRounds

-----------------------------------------------------------------------------
(* That no waypoint was missed for a dearer one: of each waypoint reached  *)
(* the score is no less than the best cost, and of a closed one no more    *)
(* than Slack to seven of it; and from a closed one each that is open has  *)
(* been looked at. *)
ScoresBounded ==
    \A r : IsRounds(r) =>
        /\ \A n \in DOMAIN gScore : \E x \in Nat : x <= gScore[n] /\ <<n, x>> \in r[Cardinality(closed)]
        /\ \A n \in closed, k \in Nat, x \in Nat : <<n, x>> \in r[k] => 7 * gScore[n] <= Slack * x
        /\ phase \in {"back", "done"} /\ query.start # query.goal =>
              \A k \in Nat, x \in Nat : <<query.goal, x>> \in r[k] =>
                  query.goal \in DOMAIN gScore /\ 7 * gScore[query.goal] <= Slack * x
LookedAt == \A a \in closed, b \in open : CanGo(a, b) => gScore[b] <= gScore[a] + EdgeCost(a, b)

LEMMA Estimates ==
  ASSUME IsQuery(query), NEW a \in Nodes, NEW b \in Nodes, NEW c \in Nodes
  PROVE  /\ Dist(a, c) <= Dist(a, b) + Dist(b, c) /\ Dist(a, a) = 0
         /\ 70 * Dist(a, b) <= Slack * EdgeCost(a, b) /\ 7 <= Slack /\ Slack \in Nat
<1>1. Dist(a, b) \in Nat
    BY Distances
<1>2. Dist(a, c) <= Dist(a, b) + Dist(b, c) /\ Dist(a, a) = 0 /\ Dist(a, b) \in Nat
    BY <1>1 DEF IsQuery, IsMetric, Nodes, Dist
<1>3. /\ query.team = "aliens" => Slack = 10 /\ Multiplier(b) \in {7, 8, 10}
      /\ query.team # "aliens" => Slack = 7 /\ Multiplier(b) \in {10, 11}
    BY DEF Slack, Multiplier
<1> DEFINE d == Dist(a, b)
<1>4. EdgeCost(a, b) = Multiplier(b) * d
    BY DEF EdgeCost
<1> HIDE DEF d
<1>5. d \in Nat
    BY <1>2 DEF d
<1>6. EdgeCost(a, b) \in {7 * d, 8 * d, 10 * d, 11 * d} /\ (query.team # "aliens" => EdgeCost(a, b) \in {10 * d, 11 * d})
    BY <1>3, <1>4
<1>7. 70 * d <= Slack * EdgeCost(a, b)
    BY <1>3, <1>5, <1>6
<1> QED
    BY <1>2, <1>3, <1>7 DEF d

(* Where the best way to a waypoint is not of closed ones only, an open    *)
(* one lies on it. *)
LEMMA OpenOnTheWay ==
  ASSUME SearchInv, LookedAt, phase = "search",
         NEW r, IsRounds(r),
         \A n \in closed, k \in Nat, x \in Nat : <<n, x>> \in r[k] => 7 * gScore[n] <= Slack * x
  PROVE  \A k \in Nat, n \in Nodes, x \in Nat : <<n, x>> \in r[k] =>
            n \in closed \/ \E m \in open : 7 * gScore[m] + 70 * Dist(m, n) <= Slack * x
<1> DEFINE P(n, x) == n \in closed \/ \E m \in open : 7 * gScore[m] + 70 * Dist(m, n) <= Slack * x
           S == {k \in Nat : \A n \in Nodes, x \in Nat : <<n, x>> \in r[k] => P(n, x)}
<1>1. /\ IsQuery(query) /\ query.start # query.goal /\ query.start \in DOMAIN gScore /\ gScore[query.start] = 0
      /\ DOMAIN gScore = open \cup closed /\ open \subseteq Nodes /\ closed \subseteq Nodes
      /\ \A n \in DOMAIN gScore : gScore[n] \in Nat
      /\ \A a \in closed, b \in Nodes : CanGo(a, b) => b \in open \cup closed
    BY NodesOfQuery DEF SearchInv, PathTypeOK, Tree, Chain
<1>2. r[0] = {<<query.start, 0>>} /\ \A k \in Nat : r[k] \in SUBSET CostPairs /\ r[k + 1] = Relaxed(r[k])
    BY DEF IsRounds
<1>3. 0 \in S
  <2> SUFFICES ASSUME NEW n \in Nodes, NEW x \in Nat, <<n, x>> \in r[0], n \notin closed
               PROVE  \E m \in open : 7 * gScore[m] + 70 * Dist(m, n) <= Slack * x
      OBVIOUS
  <2>1. n = query.start /\ x = 0 /\ n \in open
      BY <1>1, <1>2
  <2>2. Dist(n, n) = 0 /\ Slack \in Nat
      BY <1>1, Estimates
  <2>3. 7 * gScore[n] + 70 * Dist(n, n) <= Slack * x
      BY <1>1, <2>1, <2>2
  <2> QED
      BY <2>1, <2>3
<1>4. \A k \in S : k + 1 \in S
  <2> SUFFICES ASSUME NEW k \in S, NEW n \in Nodes, NEW x \in Nat, <<n, x>> \in r[k + 1], n \notin closed
               PROVE  \E m \in open : 7 * gScore[m] + 70 * Dist(m, n) <= Slack * x
      OBVIOUS
  <2>1. <<n, x>> \in r[k] \/ \E a, z : <<a, z>> \in r[k] /\ CanGo(a, n) /\ x = z + EdgeCost(a, n)
    <3>1. PICK C : C = r[k]
        OBVIOUS
    <3>2. C \in SUBSET CostPairs /\ <<n, x>> \in Relaxed(C)
        BY <1>2, <3>1
    <3>3. <<n, x>> \in C \/ \E a, z : <<a, z>> \in C /\ CanGo(a, n) /\ x = z + EdgeCost(a, n)
        BY <1>1, <3>2, RelaxedIs
    <3> QED
        BY <3>1, <3>3
  <2>2. CASE <<n, x>> \in r[k]
      BY <2>2
  <2>3. ASSUME NEW a, NEW z, <<a, z>> \in r[k], CanGo(a, n), x = z + EdgeCost(a, n)
        PROVE  \E m \in open : 7 * gScore[m] + 70 * Dist(m, n) <= Slack * x
    <3>1. a \in Nodes /\ z \in Nat
        BY <1>2, <2>3 DEF CostPairs
    <3>2. EdgeCost(a, n) \in Nat /\ 70 * Dist(a, n) <= Slack * EdgeCost(a, n) /\ Slack \in Nat /\ 7 <= Slack
          /\ Dist(a, n) \in Nat
        BY <1>1, <3>1, Estimates, Distances
    <3> DEFINE e == EdgeCost(a, n)
    <3>3. PICK Sz, Se : Sz = Slack * z /\ Se = Slack * e /\ Sz \in Nat /\ Se \in Nat /\ Slack * x = Sz + Se /\ 7 * e <= Se
      <4> HIDE DEF e
      <4>1. e \in Nat /\ x = z + e
          BY <2>3, <3>2 DEF e
      <4>2. Slack \in {7, 10}
          BY DEF Slack
      <4>3. Slack * z \in Nat /\ Slack * e \in Nat /\ Slack * x = Slack * z + Slack * e /\ 7 * e <= Slack * e
          BY <3>1, <4>1, <4>2
      <4> QED
          BY <4>3
    <3>4. CASE a \in closed
      <4>1. n \in open
          BY <1>1, <2>3, <3>4
      <4>2. gScore[n] <= gScore[a] + e /\ gScore[n] \in Nat /\ gScore[a] \in Nat
          BY <1>1, <2>3, <3>4, <4>1 DEF LookedAt
      <4>3. 7 * gScore[a] <= Sz
          BY <2>3, <3>1, <3>3, <3>4
      <4>4. Dist(n, n) = 0
          BY <1>1, Estimates
      <4> HIDE DEF e
      <4>5. e \in Nat
          BY <3>2 DEF e
      <4>6. 7 * gScore[n] + 70 * Dist(n, n) <= Slack * x
          BY <3>3, <4>2, <4>3, <4>4, <4>5
      <4> QED
          BY <4>1, <4>6
    <3>5. CASE a \notin closed
      <4>1. PICK m \in open : 7 * gScore[m] + 70 * Dist(m, a) <= Slack * z
          BY <2>3, <3>1, <3>5
      <4>2. /\ Dist(m, n) <= Dist(m, a) + Dist(a, n)
            /\ Dist(m, n) \in Nat /\ Dist(m, a) \in Nat /\ gScore[m] \in Nat
          BY <1>1, <3>1, <4>1, Estimates, Distances
      <4>3. 70 * Dist(a, n) <= Se
          BY <3>2, <3>3
      <4>4. 7 * gScore[m] + 70 * Dist(m, n) <= Slack * x
          BY <3>2, <3>3, <4>1, <4>2, <4>3
      <4> QED
          BY <4>1, <4>4
    <3> QED
        BY <3>4, <3>5
  <2> QED
      BY <2>1, <2>2, <2>3
<1>5. S = Nat
  <2> HIDE DEF S
  <2>1. S \in SUBSET Nat
      BY DEF S
  <2> QED
      BY <1>3, <1>4, <2>1, AllNumbers
<1> QED
    BY <1>5

(* So the waypoint that is looked at next is reached well enough. *)
LEMMA CurrentBounded ==
  ASSUME SearchInv, LookedAt, phase = "search", open # {},
         NEW r, IsRounds(r),
         \A n \in closed, k \in Nat, x \in Nat : <<n, x>> \in r[k] => 7 * gScore[n] <= Slack * x
  PROVE  \A k \in Nat, x \in Nat : <<Current, x>> \in r[k] => 7 * gScore[Current] <= Slack * x
<1> SUFFICES ASSUME NEW k \in Nat, NEW x \in Nat, <<Current, x>> \in r[k]
             PROVE  7 * gScore[Current] <= Slack * x
    OBVIOUS
<1>1. Current \in open /\ IsQuery(query) /\ \A m \in open : FScore(Current) <= FScore(m)
    BY CurrentIsOpen DEF SearchInv
<1>2. /\ open \subseteq Nodes /\ open \cap closed = {} /\ (\A n \in open : gScore[n] \in Nat)
      /\ query.goal \in Nodes
    BY <1>1, NodesOfQuery DEF SearchInv, PathTypeOK, Tree
<1>3. PICK n : n = Current
    OBVIOUS
<1>4. PICK m \in open : 7 * gScore[m] + 70 * Dist(m, n) <= Slack * x
    BY <1>1, <1>2, <1>3, OpenOnTheWay
<1>5. FScore(n) <= FScore(m)
    BY <1>1, <1>3
<1>6. /\ Dist(m, query.goal) <= Dist(m, n) + Dist(n, query.goal)
      /\ Dist(m, query.goal) \in Nat /\ Dist(m, n) \in Nat /\ Dist(n, query.goal) \in Nat
      /\ gScore[n] \in Nat /\ gScore[m] \in Nat /\ Slack \in Nat
    BY <1>1, <1>2, <1>3, Estimates, Distances
<1>7. gScore[n] + 10 * Dist(n, query.goal) <= gScore[m] + 10 * Dist(m, query.goal)
    BY <1>5 DEF FScore
<1>8. Slack * x \in Nat
    BY <1>6
<1>9. PICK Sx \in Nat : Sx = Slack * x
    BY <1>8
<1>10. 7 * gScore[n] <= Sx
    BY <1>4, <1>6, <1>7, <1>9
<1> QED
    BY <1>3, <1>9, <1>10

-----------------------------------------------------------------------------
(* What the path costs, from its end, is what its first waypoint's score   *)
(* falls short of the goal's. *)
IsCost(p, s) ==
    /\ s \in [0..Len(p) - 1 -> Nat] /\ s[0] = 0
    /\ \A k \in 1..Len(p) - 1 : s[k] = EdgeCost(p[Len(p) - k], p[Len(p) - k + 1]) + s[k - 1]
CostOfPath ==
    outPath # <<>> /\ query.start # query.goal =>
        /\ query.goal \in DOMAIN gScore /\ Head(outPath) \in DOMAIN gScore
        /\ \A s : IsCost(outPath, s) => s[Len(outPath) - 1] + gScore[Head(outPath)] = gScore[query.goal]

SearchBest == SearchInv /\ ScoresBounded /\ LookedAt /\ CostOfPath

LEMMA InitSearchBest == PathInit => SearchBest
<1> SUFFICES ASSUME PathInit PROVE SearchBest
    OBVIOUS
<1>1. SearchInv
    BY InitSearchInv
<1>2. DOMAIN gScore = {} /\ closed = {} /\ outPath = <<>> /\ phase = "called"
    BY DEF PathInit
<1> QED
    BY <1>1, <1>2 DEF SearchBest, ScoresBounded, LookedAt, CostOfPath

LEMMA CallBest ==
  ASSUME SearchBest, phase = "called", NEW q \in Queries, NAV_FindPath(q)
  PROVE  SearchBest'
<1>1. SearchInv'
    BY SearchCallStep DEF SearchBest
<1>2. /\ query' = q /\ open = {} /\ closed = {} /\ DOMAIN gScore = {} /\ outPath = <<>>
    BY DEF SearchBest, SearchInv, Tree, Chain, NAV_FindPath
<1>3. CASE q.start = q.goal
  <2>1. open' = {} /\ closed' = {} /\ DOMAIN gScore' = {} /\ query.start' = query.goal'
      BY <1>2, <1>3 DEF NAV_FindPath
  <2> QED
      BY <1>1, <2>1 DEF SearchBest, ScoresBounded, LookedAt, CostOfPath
<1>4. CASE q.start # q.goal
  <2>1. /\ closed' = {} /\ gScore' = [n \in {q.start} |-> 0] /\ outPath' = <<>> /\ phase' = "search"
      BY <1>2, <1>4 DEF NAV_FindPath
  <2>2. ASSUME NEW r, IsRounds(r)'
        PROVE  \A n \in DOMAIN gScore' : \E x \in Nat : x <= gScore'[n] /\ <<n, x>> \in r[Cardinality(closed')]
    <3>1. r[0] = {<<q.start, 0>>}
        BY <1>2, <2>2 DEF IsRounds
    <3>2. Cardinality(closed') = 0
        BY <2>1, FS_EmptySet
    <3> QED
        BY <2>1, <3>1, <3>2
  <2>3. ScoresBounded'
      BY <2>1, <2>2 DEF ScoresBounded
  <2> QED
      BY <1>1, <2>1, <2>3 DEF SearchBest, LookedAt, CostOfPath
<1> QED
    BY <1>3, <1>4

LEMMA ExpandBest ==
  ASSUME SearchBest, Expand
  PROVE  SearchBest'
<1> DEFINE n == Current
           better == Improved(n)
<1>1. /\ phase = "search" /\ open # {}
      /\ open' = (open \ {n}) \cup better
      /\ closed' = closed \cup {n}
      /\ gScore' = [m \in DOMAIN gScore \cup better |->
                       IF m \in better THEN gScore[n] + EdgeCost(n, m) ELSE gScore[m]]
      /\ query' = query /\ phase' = phase /\ outPath' = outPath
    BY DEF Expand, Updated
<1>2. n \in open /\ IsQuery(query)
    BY <1>1, CurrentIsOpen DEF SearchBest, SearchInv
<1>3. /\ SearchInv /\ PathTypeOK /\ Tree /\ Chain /\ LookedAt /\ ScoresBounded /\ Nodes' = Nodes /\ Slack' = Slack
      /\ \A a, b : CanGo(a, b)' = CanGo(a, b)
      /\ \A a, b : EdgeCost(a, b)' = EdgeCost(a, b)
    BY <1>1, SearchUnchanged DEF SearchBest, SearchInv
<1>4. better = {m \in Nodes \ (closed \cup {n}) :
                   CanGo(n, m) /\ (m \in DOMAIN gScore => gScore[n] + EdgeCost(n, m) < gScore[m])}
    BY DEF Improved, CanGo
<1>5. ASSUME NEW r, IsRounds(r),
             \A a \in closed, k \in Nat, x \in Nat : <<a, x>> \in r[k] => 7 * gScore[a] <= Slack * x
      PROVE  \A k \in Nat, x \in Nat : <<n, x>> \in r[k] => 7 * gScore[n] <= Slack * x
    BY <1>1, <1>3, <1>5, CurrentBounded
<1> HIDE DEF n, better
<1>6. /\ n \in Nodes /\ n \notin closed /\ n \in DOMAIN gScore
      /\ (\A m \in DOMAIN gScore : gScore[m] \in Nat) /\ DOMAIN gScore = open \cup closed /\ closed \subseteq Nodes
    BY <1>2, <1>3 DEF PathTypeOK, Tree
<1>7. \A a \in Nodes, b \in Nodes : EdgeCost(a, b) \in Nat
    BY <1>2, Distances
<1>8. SearchInv'
    BY ExpandStep DEF SearchBest
<1>9. LookedAt'
  <2> SUFFICES ASSUME NEW a \in closed', NEW b \in open', CanGo(a, b)
               PROVE  gScore'[b] <= gScore'[a] + EdgeCost(a, b)
      BY <1>3 DEF LookedAt
  <2>1. a \notin better /\ a \in DOMAIN gScore /\ gScore'[a] = gScore[a] /\ a \in Nodes
      BY <1>1, <1>4, <1>6
  <2>2. CASE a = n
    <3>1. CASE b \in better
        BY <1>1, <1>6, <1>7, <1>4, <2>1, <2>2, <3>1
    <3>2. CASE b \notin better
      <4>1. b \in open /\ b # n /\ b \in DOMAIN gScore /\ gScore'[b] = gScore[b] /\ b \in Nodes /\ b \notin closed
          BY <1>1, <1>3, <1>6, <3>2 DEF Tree, PathTypeOK
      <4>2. ~(gScore[n] + EdgeCost(n, b) < gScore[b])
          BY <1>4, <2>2, <3>2, <4>1
      <4>3. gScore[n] \in Nat /\ gScore[b] \in Nat /\ EdgeCost(n, b) \in Nat
          BY <1>6, <1>7, <4>1
      <4> QED
          BY <2>1, <2>2, <4>1, <4>2, <4>3
    <3> QED
        BY <3>1, <3>2
  <2>3. CASE a \in closed
    <3>1. b \in Nodes /\ b # n /\ b \in open
      <4>1. b \in Nodes /\ (b \in open \/ b \in better)
          BY <1>1, <1>3, <1>4 DEF PathTypeOK
      <4>2. b \in open \cup closed
          BY <1>3, <2>3, <4>1 DEF Tree
      <4>3. b \notin closed /\ b # n
          BY <1>1, <1>3, <1>4 DEF Tree
      <4> QED
          BY <4>1, <4>2, <4>3
    <3>2. gScore[b] <= gScore[a] + EdgeCost(a, b)
        BY <1>3, <2>3, <3>1 DEF LookedAt
    <3>3. gScore'[b] <= gScore[b]
      <4>1. b \in DOMAIN gScore /\ gScore[b] \in Nat /\ gScore[n] \in Nat /\ EdgeCost(n, b) \in Nat
          BY <1>6, <1>7, <3>1
      <4>2. CASE b \in better
          BY <1>1, <1>4, <4>1, <4>2
      <4>3. CASE b \notin better
          BY <1>1, <4>1, <4>3
      <4> QED
          BY <4>2, <4>3
    <3>4. gScore[b] \in Nat /\ gScore[a] \in Nat /\ EdgeCost(a, b) \in Nat /\ gScore'[b] \in Int
        BY <1>1, <1>6, <1>7, <2>1, <3>1
    <3> QED
        BY <2>1, <3>2, <3>3, <3>4
  <2> QED
      BY <1>1, <2>2, <2>3
<1>10. ScoresBounded'
  <2> SUFFICES ASSUME NEW r, IsRounds(r)'
               PROVE  /\ \A m \in DOMAIN gScore' : \E x \in Nat : x <= gScore'[m] /\ <<m, x>> \in r[Cardinality(closed')]
                      /\ \A m \in closed', k \in Nat, x \in Nat : <<m, x>> \in r[k] => 7 * gScore'[m] <= Slack * x
      BY <1>1, <1>3 DEF ScoresBounded
  <2>1. IsRounds(r)
      BY <1>1, RoundsUnchanged
  <2>2. /\ \A m \in DOMAIN gScore : \E x \in Nat : x <= gScore[m] /\ <<m, x>> \in r[Cardinality(closed)]
        /\ \A m \in closed, k \in Nat, x \in Nat : <<m, x>> \in r[k] => 7 * gScore[m] <= Slack * x
      BY <1>3, <2>1 DEF ScoresBounded
  <2>3. \A k \in Nat, x \in Nat : <<n, x>> \in r[k] => 7 * gScore[n] <= Slack * x
      BY <1>5, <2>1, <2>2
  <2>4. ASSUME NEW m \in closed', NEW k \in Nat, NEW x \in Nat, <<m, x>> \in r[k]
        PROVE  7 * gScore'[m] <= Slack * x
    <3>1. gScore'[m] = gScore[m]
        BY <1>1, <1>4, <1>6
    <3> QED
        BY <1>1, <2>2, <2>3, <2>4, <3>1
  <2>5. IsFiniteSet(closed) /\ Cardinality(closed) \in Nat /\ Cardinality(closed') = Cardinality(closed) + 1
    <3>1. IsFiniteSet(closed)
        BY <1>2, <1>6, NodesAreFinite, FS_Subset
    <3>2. Cardinality(closed) \in Nat
        BY <3>1, FS_CardinalityType
    <3>3. Cardinality(closed \cup {n}) = Cardinality(closed) + 1
        BY <1>6, <3>1, FS_AddElement
    <3> QED
        BY <1>1, <3>1, <3>2, <3>3
  <2>6. PICK C, D : C = r[Cardinality(closed)] /\ D = r[Cardinality(closed')]
      OBVIOUS
  <2>7. C \in SUBSET CostPairs /\ D = Relaxed(C)
      BY <2>1, <2>5, <2>6 DEF IsRounds
  <2>8. /\ \A m, x : <<m, x>> \in C => \E y \in Nat : y <= x /\ <<m, y>> \in D
        /\ \A a, b, z : <<a, z>> \in C /\ CanGo(a, b) => \E y \in Nat : y <= z + EdgeCost(a, b) /\ <<b, y>> \in D
    <3>1. /\ \A m, x : <<m, x>> \in C => \E y \in Nat : y <= x /\ <<m, y>> \in Relaxed(C)
          /\ \A a, b, z : <<a, z>> \in C /\ CanGo(a, b) =>
                \E y \in Nat : y <= z + EdgeCost(a, b) /\ <<b, y>> \in Relaxed(C)
        BY ONLY <1>2, <2>7, RelaxedIs
    <3> QED
        BY ONLY <2>7, <3>1
  <2>9. ASSUME NEW m \in DOMAIN gScore' PROVE \E x \in Nat : x <= gScore'[m] /\ <<m, x>> \in D
    <3>1. CASE m \in better
      <4>1. PICK x \in Nat : x <= gScore[n] /\ <<n, x>> \in C
          BY <1>6, <2>2, <2>6
      <4>2. CanGo(n, m) /\ m \in Nodes /\ gScore'[m] = gScore[n] + EdgeCost(n, m)
          BY <1>1, <1>4, <3>1
      <4>3. PICK y \in Nat : y <= x + EdgeCost(n, m) /\ <<m, y>> \in D
          BY <2>8, <4>1, <4>2
      <4>4. EdgeCost(n, m) \in Nat /\ gScore[n] \in Nat
          BY <1>6, <1>7, <4>2
      <4>5. y <= gScore'[m]
          BY <4>1, <4>2, <4>3, <4>4
      <4> QED
          BY <4>3, <4>5
    <3>2. CASE m \notin better
      <4>1. m \in DOMAIN gScore /\ gScore'[m] = gScore[m] /\ gScore[m] \in Nat
          BY <1>1, <1>6, <3>2
      <4>2. PICK x \in Nat : x <= gScore[m] /\ <<m, x>> \in C
          BY <2>2, <2>6, <4>1
      <4>3. PICK y \in Nat : y <= x /\ <<m, y>> \in D
          BY <2>8, <4>2
      <4> QED
          BY <4>1, <4>2, <4>3
    <3> QED
        BY <3>1, <3>2
  <2> QED
      BY <2>4, <2>6, <2>9
<1>11. CostOfPath'
    BY <1>1, <1>3 DEF CostOfPath, Chain
<1> QED
    BY <1>8, <1>9, <1>10, <1>11 DEF SearchBest

LEMMA StopBest ==
  ASSUME SearchBest, StopSearch
  PROVE  SearchBest'
<1>1. /\ SearchInv /\ PathTypeOK /\ Tree /\ Chain /\ LookedAt /\ ScoresBounded /\ phase = "search" /\ outPath = <<>>
      /\ query.start # query.goal
      /\ UNCHANGED <<query, open, closed, gScore, cameFrom>>
    BY DEF SearchBest, SearchInv, StopSearch, Chain
<1>2. SearchInv'
    BY StopStep DEF SearchBest
<1>3. /\ IsQuery(query) /\ query.goal \in Nodes /\ DOMAIN gScore = open \cup closed
      /\ DOMAIN cameFrom \subseteq DOMAIN gScore
    BY <1>1, NodesOfQuery DEF PathTypeOK, Tree
<1>4. LookedAt'
    BY <1>1, SearchUnchanged DEF LookedAt
<1>5. ScoresBounded'
  <2> SUFFICES ASSUME NEW r, IsRounds(r)'
               PROVE  /\ \A n \in DOMAIN gScore : \E x \in Nat : x <= gScore[n] /\ <<n, x>> \in r[Cardinality(closed)]
                      /\ \A n \in closed, k \in Nat, x \in Nat : <<n, x>> \in r[k] => 7 * gScore[n] <= Slack * x
                      /\ \A k \in Nat, x \in Nat : <<query.goal, x>> \in r[k] =>
                            query.goal \in DOMAIN gScore /\ 7 * gScore[query.goal] <= Slack * x
      BY <1>1, SearchUnchanged DEF ScoresBounded
  <2>1. IsRounds(r)
      BY <1>1, RoundsUnchanged
  <2>2. /\ \A n \in DOMAIN gScore : \E x \in Nat : x <= gScore[n] /\ <<n, x>> \in r[Cardinality(closed)]
        /\ \A n \in closed, k \in Nat, x \in Nat : <<n, x>> \in r[k] => 7 * gScore[n] <= Slack * x
      BY <1>1, <2>1 DEF ScoresBounded
  <2>3. ASSUME NEW k \in Nat, NEW x \in Nat, <<query.goal, x>> \in r[k]
        PROVE  query.goal \in DOMAIN gScore /\ 7 * gScore[query.goal] <= Slack * x
    <3>1. CASE query.goal \in closed
        BY <1>3, <2>2, <2>3, <3>1
    <3>2. CASE query.goal \notin closed
      <4>1. open # {}
          BY <1>1, <1>3, <2>1, <2>2, <2>3, <3>2, OpenOnTheWay
      <4>2. Current = query.goal /\ Current \in open
          BY <1>1, <4>1, CurrentIsOpen DEF StopSearch
      <4>3. 7 * gScore[Current] <= Slack * x
          BY <1>1, <2>1, <2>2, <2>3, <4>1, <4>2, CurrentBounded
      <4> QED
          BY <1>3, <4>2, <4>3
    <3> QED
        BY <3>1, <3>2
  <2> QED
      BY <2>2, <2>3
<1>6. CostOfPath'
  <2> SUFFICES ASSUME outPath' # <<>>
               PROVE  /\ query.goal \in DOMAIN gScore /\ Head(outPath') \in DOMAIN gScore
                      /\ \A s : IsCost(outPath, s)' =>
                            s[Len(outPath') - 1] + gScore[Head(outPath')] = gScore[query.goal]
      BY <1>1 DEF CostOfPath
  <2>1. outPath' = <<query.goal>> /\ query.goal \in DOMAIN gScore
      BY <1>1, <1>3 DEF StopSearch
  <2>2. Len(outPath') = 1 /\ Head(outPath') = query.goal
      BY <2>1
  <2>3. gScore[query.goal] \in Nat
      BY <1>1, <2>1 DEF PathTypeOK
  <2> QED
      BY <2>1, <2>2, <2>3 DEF IsCost
<1> QED
    BY <1>2, <1>4, <1>5, <1>6 DEF SearchBest

LEMMA BackBest ==
  ASSUME SearchBest, StepBack
  PROVE  SearchBest'
<1>1. /\ SearchInv /\ PathTypeOK /\ Tree /\ Chain /\ LookedAt /\ ScoresBounded /\ CostOfPath
      /\ phase = "back" /\ outPath # <<>> /\ Head(outPath) \in open \cup closed
      /\ UNCHANGED <<query, open, closed, gScore, cameFrom>>
    BY DEF SearchBest, SearchInv, StepBack, Chain
<1>2. SearchInv'
    BY BackStep DEF SearchBest
<1>3. LookedAt'
    BY <1>1, SearchUnchanged DEF LookedAt
<1>4. ScoresBounded'
  <2>1. \A r : IsRounds(r)' => IsRounds(r)
      BY <1>1, RoundsUnchanged
  <2> QED
      BY <1>1, <2>1, SearchUnchanged DEF ScoresBounded
<1>5. CASE ~GoesBack
  <2>1. outPath' = outPath
      BY <1>5 DEF StepBack
  <2>2. \A s : IsCost(outPath, s)' => IsCost(outPath, s)
      BY <1>1, <2>1, SearchUnchanged DEF IsCost
  <2>3. CostOfPath'
      BY <1>1, <2>1, <2>2 DEF CostOfPath
  <2> QED
      BY <1>2, <1>3, <1>4, <2>3 DEF SearchBest
<1>6. CASE GoesBack
  <2>1. CASE query.start = query.goal
    <3>1. CostOfPath'
        BY <1>1, <2>1 DEF CostOfPath
    <3> QED
        BY <1>2, <1>3, <1>4, <3>1 DEF SearchBest
  <2>2. CASE query.start # query.goal
    <3> DEFINE h == Head(outPath)
               c == cameFrom[h]
               p == <<c>> \o outPath
               L == Len(outPath)
    <3>1. outPath' = p /\ h \in DOMAIN cameFrom
        BY <1>1, <1>6 DEF StepBack, GoesBack
    <3>2. /\ query.goal \in DOMAIN gScore /\ h \in DOMAIN gScore
          /\ \A s : IsCost(outPath, s) => s[L - 1] + gScore[h] = gScore[query.goal]
        BY <1>1, <2>2 DEF CostOfPath
    <3>3. c \in closed /\ c \in Nodes /\ c \in DOMAIN gScore /\ gScore[h] = gScore[c] + EdgeCost(c, h)
        BY <1>1, <3>1 DEF Tree, PathTypeOK
    <3>4. gScore[c] \in Nat /\ gScore[h] \in Nat /\ gScore[query.goal] \in Nat
        BY <1>1, <3>2, <3>3 DEF PathTypeOK
    <3>5. EdgeCost(c, h) \in Nat
      <4>1. IsQuery(query) /\ h \in Nodes
          BY <1>1, <3>3, NodesOfQuery DEF PathTypeOK
      <4> QED
          BY <3>3, <4>1, Distances
    <3>6. outPath \in Seq(Nodes)
        BY <1>1 DEF PathTypeOK
    <3> HIDE DEF c
    <3>7. /\ Len(p) = L + 1 /\ p[1] = c /\ Head(p) = c /\ (\A k \in 1..L : p[k + 1] = outPath[k])
          /\ L \in Nat \ {0} /\ h = outPath[1]
        BY <1>1, <3>3, <3>6, Prepended
    <3> HIDE DEF p, h, L
    <3>8. ASSUME NEW s, IsCost(outPath, s)' PROVE s[Len(p) - 1] + gScore[Head(p)] = gScore[query.goal]
      <4>1. /\ s \in [0..L -> Nat] /\ s[0] = 0
            /\ \A k \in 1..L : s[k] = EdgeCost(p[L + 1 - k], p[L + 1 - k + 1]) + s[k - 1]
        <5>1. /\ s \in [0..Len(p) - 1 -> Nat] /\ s[0] = 0
              /\ \A k \in 1..Len(p) - 1 : s[k] = EdgeCost(p[Len(p) - k], p[Len(p) - k + 1]) + s[k - 1]
            BY <1>1, <3>1, <3>8, SearchUnchanged DEF IsCost
        <5>2. PICK N : N = Len(p)
            OBVIOUS
        <5>3. N = L + 1 /\ N - 1 = L
            BY <3>7, <5>2
        <5>4. /\ s \in [0..N - 1 -> Nat] /\ s[0] = 0
              /\ \A k \in 1..N - 1 : s[k] = EdgeCost(p[N - k], p[N - k + 1]) + s[k - 1]
            BY <5>1, <5>2
        <5> QED
            BY ONLY <5>3, <5>4
      <4> DEFINE z == [k \in 0..L - 1 |-> s[k]]
      <4>2. z \in [0..L - 1 -> Nat] /\ z[0] = 0 /\ z[L - 1] = s[L - 1] /\ s[L - 1] \in Nat
          BY <3>7, <4>1
      <4>3. ASSUME NEW k \in 1..L - 1
            PROVE  z[k] = EdgeCost(outPath[L - k], outPath[L - k + 1]) + z[k - 1]
        <5>1. k \in 1..L /\ L - k \in 1..L /\ L - k + 1 \in 1..L /\ k \in 0..L - 1 /\ k - 1 \in 0..L - 1
              /\ (L - k) + 1 = L + 1 - k /\ (L - k + 1) + 1 = L + 1 - k + 1
            BY <3>7
        <5>2. p[L + 1 - k] = outPath[L - k] /\ p[L + 1 - k + 1] = outPath[L - k + 1]
            BY <3>7, <5>1
        <5>3. s[k] = EdgeCost(outPath[L - k], outPath[L - k + 1]) + s[k - 1]
            BY <4>1, <5>1, <5>2
        <5> QED
            BY <5>1, <5>3
      <4> HIDE DEF z
      <4>4. IsCost(outPath, z)
          BY <4>2, <4>3 DEF IsCost, L
      <4>5. s[L - 1] + gScore[h] = gScore[query.goal]
          BY <3>2, <4>2, <4>4
      <4>6. s[L] = EdgeCost(c, h) + s[L - 1]
        <5>1. L \in 1..L /\ 1 \in 1..L /\ L + 1 - L = 1
            BY <3>7
        <5>2. p[L + 1 - L] = c /\ p[L + 1 - L + 1] = h
            BY <3>7, <5>1
        <5> QED
            BY <4>1, <5>1, <5>2
      <4>7. Len(p) - 1 = L /\ Head(p) = c
          BY <3>7
      <4>8. s[L] + gScore[c] = gScore[query.goal]
          BY <3>3, <3>4, <3>5, <4>2, <4>5, <4>6
      <4> QED
          BY <4>7, <4>8
    <3>9. Head(p) \in DOMAIN gScore
        BY <3>3, <3>7
    <3>10. CostOfPath'
        BY <1>1, <3>1, <3>2, <3>8, <3>9 DEF CostOfPath
    <3> QED
        BY <1>2, <1>3, <1>4, <3>10 DEF SearchBest
  <2> QED
      BY <2>1, <2>2
<1> QED
    BY <1>5, <1>6

LEMMA BestStep ==
  ASSUME SearchBest, [PathNext]_pathVars
  PROVE  SearchBest'
<1>1. CASE UNCHANGED pathVars
  <2>1. SearchInv'
      BY SearchStep DEF SearchBest
  <2>2. UNCHANGED <<query, open, closed, gScore, phase, outPath>>
      BY <1>1 DEF pathVars
  <2>3. \A r : IsRounds(r)' => IsRounds(r)
      BY <2>2, RoundsUnchanged
  <2>4. \A s : IsCost(outPath, s)' => IsCost(outPath, s)
      BY <2>2, SearchUnchanged DEF IsCost
  <2>5. ScoresBounded' /\ LookedAt'
      BY <2>2, <2>3, SearchUnchanged DEF SearchBest, ScoresBounded, LookedAt
  <2>6. CostOfPath'
      BY <2>2, <2>4 DEF SearchBest, CostOfPath
  <2> QED
      BY <2>1, <2>5, <2>6 DEF SearchBest
<1> QED
    BY <1>1, CallBest, ExpandBest, StopBest, BackBest DEF PathNext

-----------------------------------------------------------------------------
LEMMA PathCostIs ==
  ASSUME IsQuery(query), NEW p, p \in Seq(Nodes), p # <<>>
  PROVE  \E s : IsCost(p, s) /\ PathCost(p) = s[Len(p) - 1]
<1>1. PICK L : L = Len(p) /\ L \in Nat \ {0}
    OBVIOUS
<1> DEFINE e == [k \in Nat |-> IF k \in 1..L - 1 THEN EdgeCost(p[L - k], p[L - k + 1]) ELSE 0]
           Counted == Nat \X Nat
           step == [d \in Counted |-> <<d[1] + 1, e[d[1] + 1] + d[2]>>]
           Costs(s) == [k \in 0..L - 1 |-> IF k = 0 THEN 0 ELSE EdgeCost(p[L - k], p[L - k + 1]) + s[k - 1]]
<1>2. e \in [Nat -> Nat]
  <2>1. ASSUME NEW k \in 1..L - 1 PROVE EdgeCost(p[L - k], p[L - k + 1]) \in Nat
    <3>1. L - k \in 1..L /\ L - k + 1 \in 1..L
        BY <1>1
    <3>2. p[L - k] \in Nodes /\ p[L - k + 1] \in Nodes
        BY <1>1, <3>1
    <3> QED
        BY <3>2, Distances
  <2> QED
      BY <2>1
<1>3. \A k \in 1..L - 1 : e[k] = EdgeCost(p[L - k], p[L - k + 1])
    BY <1>1
<1> HIDE DEF e
<1>4. step \in [Counted -> Counted] /\ <<0, 0>> \in Counted
  <2>1. ASSUME NEW i \in Nat, NEW z \in Nat PROVE i + 1 \in Nat /\ e[i + 1] + z \in Nat
      BY <1>2
  <2>2. \A d \in Counted : <<d[1] + 1, e[d[1] + 1] + d[2]>> \in Counted
      BY <2>1
  <2> QED
      BY <2>2
<1>5. PICK f \in [Nat -> Counted] : f[0] = <<0, 0>> /\ \A k \in Nat : f[k + 1] = step[f[k]]
  <2>1. PICK E : E = Counted
      OBVIOUS
  <2>2. PICK next : next = step
      OBVIOUS
  <2>3. PICK first : first = <<0, 0>>
      OBVIOUS
  <2>4. first \in E
      BY <1>4, <2>1, <2>3
  <2>5. next \in [E -> E]
      BY <1>4, <2>1, <2>2
  <2>6. PICK g \in [Nat -> E] : g[0] = first /\ \A k \in Nat : g[k + 1] = next[g[k]]
      BY ONLY <2>4, <2>5, Iterates
  <2> QED
      BY <2>1, <2>2, <2>3, <2>6
<1>6. \A k \in Nat : /\ f[k] \in Counted /\ f[k + 1][1] = f[k][1] + 1
                     /\ f[k + 1][2] = e[f[k][1] + 1] + f[k][2]
  <2> SUFFICES ASSUME NEW k \in Nat
               PROVE  /\ f[k] \in Counted /\ f[k + 1][1] = f[k][1] + 1
                      /\ f[k + 1][2] = e[f[k][1] + 1] + f[k][2]
      OBVIOUS
  <2>1. f[k] \in Counted /\ f[k + 1] = step[f[k]]
      BY <1>5
  <2>2. step[f[k]] = <<f[k][1] + 1, e[f[k][1] + 1] + f[k][2]>>
      BY <2>1
  <2> HIDE DEF step
  <2> QED
      BY <2>1, <2>2
<1>7. \A k \in Nat : f[k][1] = k
  <2> DEFINE S == {k \in Nat : f[k][1] = k}
  <2>1. 0 \in S
      BY <1>5
  <2>2. ASSUME NEW k \in S PROVE k + 1 \in S
    <3>1. k \in Nat /\ f[k][1] = k
        OBVIOUS
    <3>2. f[k + 1][1] = k + 1
        BY <1>6, <3>1
    <3> QED
        BY <3>1, <3>2
  <2>3. S = Nat
    <3> HIDE DEF S
    <3>1. S \in SUBSET Nat
        BY DEF S
    <3> QED
        BY <2>1, <2>2, <3>1, AllNumbers
  <2> QED
      BY <2>3
<1>8. PICK s : s = [k \in 0..L - 1 |-> f[k][2]]
    OBVIOUS
<1>9. s \in [0..L - 1 -> Nat] /\ s[0] = 0
  <2>1. \A k \in 0..L - 1 : f[k][2] \in Nat
      BY <1>1, <1>6
  <2>2. 0 \in 0..L - 1 /\ f[0][2] = 0
      BY <1>1, <1>5
  <2>3. s[0] = 0
      BY <1>8, <2>2
  <2> QED
      BY <1>8, <2>1, <2>3
<1>10. ASSUME NEW k \in 1..L - 1 PROVE s[k] = EdgeCost(p[L - k], p[L - k + 1]) + s[k - 1]
  <2>1. k - 1 \in Nat /\ (k - 1) + 1 = k /\ k - 1 \in 0..L - 1 /\ k \in 0..L - 1
      BY <1>1
  <2>2. f[k][2] = e[k] + f[k - 1][2]
      BY <1>6, <1>7, <2>1
  <2> QED
      BY <1>3, <1>8, <2>1, <2>2
<1>11. s = Costs(s)
  <2>1. ASSUME NEW k \in 0..L - 1 PROVE s[k] = Costs(s)[k]
    <3>1. CASE k = 0
        BY <1>9, <3>1
    <3>2. CASE k # 0
      <4>1. k \in 1..L - 1
          BY <1>1, <3>2
      <4> QED
          BY <1>10, <3>2, <4>1
    <3> QED
        BY <3>1, <3>2
  <2>2. DOMAIN Costs(s) = 0..L - 1 /\ s = [k \in 0..L - 1 |-> s[k]]
      BY <1>9
  <2>3. s = [k \in 0..L - 1 |-> Costs(s)[k]]
      BY <2>1, <2>2
  <2> QED
      BY <2>3
<1> DEFINE last == CHOOSE g : g = Costs(g)
<1>12. last = Costs(last)
    BY <1>11
<1>13. PathCost(p) = last[L - 1]
    BY <1>1 DEF PathCost
<1> HIDE DEF last
<1>14. \A k \in 0..L - 1 : last[k] = IF k = 0 THEN 0 ELSE EdgeCost(p[L - k], p[L - k + 1]) + last[k - 1]
    BY <1>12
<1>15. \A k \in 0..L - 1 : last[k] = s[k]
  <2> DEFINE S == {k \in Nat : k \in 0..L - 1 => last[k] = s[k]}
  <2>1. 0 \in S
      BY <1>9, <1>14
  <2>2. ASSUME NEW k \in S PROVE k + 1 \in S
    <3>1. CASE k + 1 \in 0..L - 1
      <4>1. k + 1 \in 1..L - 1 /\ k \in 0..L - 1 /\ (k + 1) - 1 = k /\ k + 1 # 0
          BY <1>1, <3>1
      <4>2. last[k] = s[k]
          BY <4>1
      <4>3. last[k + 1] = EdgeCost(p[L - (k + 1)], p[L - (k + 1) + 1]) + last[k]
          BY <1>14, <3>1, <4>1
      <4>4. s[k + 1] = EdgeCost(p[L - (k + 1)], p[L - (k + 1) + 1]) + s[k]
          BY <1>10, <4>1
      <4> QED
          BY <4>2, <4>3, <4>4
    <3>2. CASE k + 1 \notin 0..L - 1
        BY <3>2
    <3> QED
        BY <3>1, <3>2
  <2>3. S = Nat
    <3> HIDE DEF S
    <3>1. S \in SUBSET Nat
        BY DEF S
    <3> QED
        BY <2>1, <2>2, <3>1, AllNumbers
  <2>4. \A k \in S : k \in 0..L - 1 => last[k] = s[k]
      OBVIOUS
  <2>5. \A k \in 0..L - 1 : k \in Nat
      BY <1>1
  <2> HIDE DEF S
  <2> QED
      BY <2>3, <2>4, <2>5
<1>16. IsCost(p, s)
    BY <1>1, <1>9, <1>10 DEF IsCost
<1>17. PathCost(p) = s[L - 1]
    BY <1>1, <1>13, <1>15
<1> QED
    BY <1>1, <1>16, <1>17

(* Costs only get better from round to round. *)
LEMMA RoundsGetBetter ==
  ASSUME IsQuery(query), NEW r, IsRounds(r), NEW j \in Nat, NEW k \in Nat, j <= k,
         NEW n, NEW x \in Nat, <<n, x>> \in r[j]
  PROVE  \E y \in Nat : y <= x /\ <<n, y>> \in r[k]
<1> DEFINE S == {i \in Nat : \E y \in Nat : y <= x /\ <<n, y>> \in r[j + i]}
<1>1. 0 \in S
  <2>1. j + 0 = j
      OBVIOUS
  <2>2. \E y \in Nat : y <= x /\ <<n, y>> \in r[j + 0]
      BY <2>1
  <2> QED
      BY <2>2
<1>2. ASSUME NEW i \in S PROVE i + 1 \in S
  <2>1. PICK y \in Nat : y <= x /\ <<n, y>> \in r[j + i]
      OBVIOUS
  <2>2. PICK C : C = r[j + i]
      OBVIOUS
  <2>3. j + i \in Nat /\ (j + i) + 1 = j + (i + 1)
      OBVIOUS
  <2>4. C \in SUBSET CostPairs /\ r[j + (i + 1)] = Relaxed(C)
      BY <2>2, <2>3 DEF IsRounds
  <2>5. \A m, z : <<m, z>> \in C => \E w \in Nat : w <= z /\ <<m, w>> \in Relaxed(C)
      BY ONLY <2>4, IsQuery(query), RelaxedIs
  <2>6. PICK w \in Nat : w <= y /\ <<n, w>> \in r[j + (i + 1)]
      BY <2>1, <2>2, <2>4, <2>5
  <2>7. w <= x
      BY <2>1, <2>6
  <2> QED
      BY <2>6, <2>7
<1>3. S = Nat
  <2> HIDE DEF S
  <2>1. S \in SUBSET Nat
      BY DEF S
  <2> QED
      BY <1>1, <1>2, <2>1, AllNumbers
<1>4. k - j \in Nat /\ j + (k - j) = k
    OBVIOUS
<1>5. \E y \in Nat : y <= x /\ <<n, y>> \in r[j + (k - j)]
  <2>1. \A i \in S : \E y \in Nat : y <= x /\ <<n, y>> \in r[j + i]
      OBVIOUS
  <2> HIDE DEF S
  <2> QED
      BY <1>3, <1>4, <2>1
<1> QED
    BY <1>4, <1>5

LEMMA BestFound == SearchBest => FindsPath
<1> SUFFICES ASSUME SearchBest, Done PROVE /\ (outPath # <<>>) = (query.goal \in Reachable)
                                           /\ outPath # <<>> =>
                                                 /\ Len(outPath) < MaxNodes => outPath[1] = query.start
                                                 /\ ShortEnough
    BY DEF FindsPath
<1>1. /\ SearchInv /\ PathTypeOK /\ Tree /\ Chain /\ ScoresBounded /\ CostOfPath
      /\ phase = "done" /\ query.start # query.goal
    BY DEF Done, SearchBest, SearchInv
<1>2. IsQuery(query) /\ query.goal \in Nodes /\ query.start \in Nodes
    BY <1>1, NodesOfQuery DEF PathTypeOK
<1>3. PICK r : IsRounds(r) /\ BestCosts = r[Cardinality(Nodes)]
    BY <1>2, RoundsOfCosts
<1>4. PICK N \in Nat : N = Cardinality(Nodes)
    BY <1>2, NodesAreFinite
<1>5. BestCosts \in SUBSET CostPairs /\ \A n, x, y : <<n, x>> \in BestCosts /\ <<n, y>> \in BestCosts => x = y
  <2>1. BestCosts = r[N] /\ r[N] \in SUBSET CostPairs
      BY <1>3, <1>4 DEF IsRounds
  <2>2. CASE N = 0
      BY <1>3, <2>1, <2>2 DEF IsRounds
  <2>3. CASE N # 0
    <3>1. PICK C : C = r[N - 1]
        OBVIOUS
    <3>2. N - 1 \in Nat /\ (N - 1) + 1 = N
        BY <2>3
    <3>3. C \in SUBSET CostPairs /\ BestCosts = Relaxed(C)
        BY <1>3, <2>1, <3>1, <3>2 DEF IsRounds
    <3>4. \A n, x, y : <<n, x>> \in Relaxed(C) /\ <<n, y>> \in Relaxed(C) => x = y
        BY ONLY <1>2, <3>3, RelaxedIs
    <3> QED
        BY <2>1, <3>3, <3>4
  <2> QED
      BY <2>2, <2>3
<1>6. query.goal \in DOMAIN gScore => \E x \in Nat : x <= gScore[query.goal] /\ <<query.goal, x>> \in BestCosts
  <2> SUFFICES ASSUME query.goal \in DOMAIN gScore
               PROVE  \E x \in Nat : x <= gScore[query.goal] /\ <<query.goal, x>> \in BestCosts
      OBVIOUS
  <2>1. IsFiniteSet(Nodes) /\ closed \in SUBSET Nodes
      BY <1>1, <1>2, NodesAreFinite DEF PathTypeOK
  <2>2. IsFiniteSet(closed) /\ Cardinality(closed) <= N
      BY <1>4, <2>1, FS_Subset
  <2>3. PICK c \in Nat : c = Cardinality(closed)
      BY <2>2, FS_CardinalityType
  <2>4. PICK x \in Nat : x <= gScore[query.goal] /\ <<query.goal, x>> \in r[c]
      BY <1>1, <1>3, <2>3 DEF ScoresBounded
  <2>5. PICK y \in Nat : y <= x /\ <<query.goal, y>> \in r[N]
      BY <1>2, <1>3, <2>2, <2>3, <2>4, RoundsGetBetter
  <2>6. gScore[query.goal] \in Nat
      BY <1>1 DEF PathTypeOK
  <2> QED
      BY <1>3, <1>4, <2>4, <2>5, <2>6
<1>7. \A x \in Nat : <<query.goal, x>> \in BestCosts =>
         query.goal \in DOMAIN gScore /\ 7 * gScore[query.goal] <= Slack * x
    BY <1>1, <1>3, <1>4 DEF ScoresBounded
<1>8. query.goal \in Reachable <=> \E x \in Nat : <<query.goal, x>> \in BestCosts
  <2>1. \A c \in BestCosts : c = <<c[1], c[2]>> /\ c[2] \in Nat
      BY <1>5 DEF CostPairs
  <2> QED
      BY <2>1 DEF Reachable
<1>9. outPath # <<>> <=> query.goal \in DOMAIN gScore
  <2>1. DOMAIN gScore = open \cup closed
      BY <1>1 DEF Tree
  <2>2. outPath = <<>> => open = {} /\ query.goal \notin closed
      BY <1>1 DEF Chain
  <2> QED
      BY <1>1, <2>1, <2>2 DEF CostOfPath
<1>10. (outPath # <<>>) = (query.goal \in Reachable)
  <2>1. outPath # <<>> <=> query.goal \in Reachable
      BY <1>6, <1>7, <1>8, <1>9
  <2> QED
      BY <2>1
<1>11. Len(outPath) < MaxNodes /\ outPath # <<>> => outPath[1] = query.start
    BY <1>1 DEF Chain
<1>12. ASSUME outPath # <<>> PROVE ShortEnough
  <2> SUFFICES ASSUME outPath[1] = query.start
               PROVE  IF query.team = "aliens" THEN 7 * PathCost(outPath) <= 10 * BestCost
                      ELSE PathCost(outPath) = BestCost
      BY DEF ShortEnough
  <2>1. PICK x \in Nat : x <= gScore[query.goal] /\ <<query.goal, x>> \in BestCosts
      BY <1>6, <1>9, <1>12
  <2>2. BestCost = x
    <3>1. x \in {c[2] : c \in BestCosts}
        BY <2>1
    <3>2. \A y \in {c[2] : c \in BestCosts} : <<query.goal, y>> \in BestCosts => y = x
        BY <1>5, <2>1
    <3> QED
        BY <2>1, <3>1, <3>2 DEF BestCost
  <2>3. 7 * gScore[query.goal] <= Slack * x
      BY <1>7, <2>1
  <2>4. outPath \in Seq(Nodes)
      BY <1>1 DEF PathTypeOK
  <2>5. PICK s : IsCost(outPath, s) /\ PathCost(outPath) = s[Len(outPath) - 1]
      BY <1>2, <1>12, <2>4, PathCostIs
  <2>6. Head(outPath) = query.start /\ gScore[query.start] = 0
      BY <1>1, <1>12, <2>4 DEF Tree
  <2>7. PathCost(outPath) \in Nat
    <3>1. PICK L : L = Len(outPath) /\ L \in Nat \ {0}
        BY <1>12, <2>4
    <3>2. s \in [0..L - 1 -> Nat] /\ PathCost(outPath) = s[L - 1]
        BY <2>5, <3>1 DEF IsCost
    <3>3. L - 1 \in 0..L - 1
        BY <3>1
    <3> QED
        BY <3>2, <3>3
  <2>8. PathCost(outPath) + 0 = gScore[query.goal]
      BY <1>1, <1>12, <2>5, <2>6 DEF CostOfPath
  <2>9. PathCost(outPath) = gScore[query.goal]
      BY <2>7, <2>8
  <2>10. CASE query.team = "aliens"
    <3>1. Slack = 10
        BY <2>10 DEF Slack
    <3> QED
        BY <2>2, <2>3, <2>9, <2>10, <3>1
  <2>11. CASE query.team # "aliens"
    <3>1. Slack = 7
        BY <2>11 DEF Slack
    <3>2. PICK g \in Nat : g = gScore[query.goal]
        BY <2>7, <2>9
    <3>3. 7 * g <= 7 * x /\ x <= g
        BY <2>1, <2>3, <3>1, <3>2
    <3>4. g = x
        BY <3>3
    <3> QED
        BY <2>2, <2>9, <2>11, <3>2, <3>4
  <2> QED
      BY <2>10, <2>11
<1> QED
    BY <1>10, <1>11, <1>12

(* Whatever the graph, a path is found if and only if there is one, and,   *)
(* unless it is too long to be put together, it is a cheapest one for      *)
(* humans and spectators, and costs an alien no more than 10/7 of the      *)
(* least (NAV_FindPath, g_nav.c:516), though a closed waypoint is never opened *)
(* again. *)
THEOREM PathIsShort == PathSpec => []FindsPath
<1>1. SearchBest /\ [PathNext]_pathVars => SearchBest'
    BY BestStep
<1> QED
    BY <1>1, InitSearchBest, BestFound, PTL DEF PathSpec

-----------------------------------------------------------------------------
(* Votes. *)

Those(a) == {p \in Players : playerTeam[p] # "gone" /\ answer[p] = a}

(* VoteInv by its parts.                                                   *)
Tallied ==
    /\ counted = Those("yes") \cup Those("no")
    /\ ballot.yes = Cardinality(Those("yes"))
    /\ ballot.no = Cardinality(Those("no"))

CountedVoted == InProgress => \A p \in counted : Member(p, ballot.kind) /\ answer[p] # "open"
NoneLeft == ~InProgress => \A p \in Players : answer[p] = "open"
TalliedIfAll == (InProgress /\ ballot.kind = "everyone") => Tallied

LEMMA VoteInvParts ==
  /\ VoteInv <=> VoteTypeOK /\ NoneLeft /\ CountedVoted /\ TalliedIfAll
  /\ VoteInv' <=> VoteTypeOK' /\ NoneLeft' /\ CountedVoted' /\ TalliedIfAll'
BY DEF VoteInv, NoneLeft, CountedVoted, TalliedIfAll, Tallied, Those

(* Sets of players are finite, and grow and shrink by one.                 *)
LEMMA CountOfPlayers ==
  ASSUME NEW S \in SUBSET Players
  PROVE  /\ Cardinality(S) \in Nat
         /\ \A p \in Players \ S : Cardinality(S \cup {p}) = Cardinality(S) + 1
         /\ \A p \in S : Cardinality(S \ {p}) = Cardinality(S) - 1
<1>1. IsFiniteSet(S)
    BY VoteAssumption, FS_Subset
<1> QED
    BY <1>1, FS_CardinalityType, FS_AddElement, FS_RemoveElement

LEMMA VotersCount == Voters \in Nat /\ Voters' \in Nat
BY CountOfPlayers DEF Voters

LEMMA CountsFields ==
  ASSUME NEW b \in Ballots, NEW a \in {"yes", "no"}, NEW n \in Int, NEW c, c = Counts(b, a, n)
  PROVE  /\ c \in Ballots /\ c.kind = b.kind /\ c.age = b.age /\ c.text = b.text
         /\ a = "yes" => c.yes = b.yes + n /\ c.no = b.no
         /\ a = "no" => c.yes = b.yes /\ c.no = b.no + n
BY DEF Counts, Ballots

LEMMA VoteInit_Inv == VoteInit => VoteInv /\ ExecutesWhatPassed
<1> SUFFICES ASSUME VoteInit PROVE VoteInv /\ ExecutesWhatPassed
    OBVIOUS
<1>1. ballot \in Ballots /\ ballot.age = -1
    BY VoteAssumption DEF VoteInit, Ballots, Kinds
<1>2. VoteTypeOK
    BY <1>1 DEF VoteInit, VoteTypeOK
<1> QED
    BY <1>1, <1>2 DEF VoteInit, VoteInv, InProgress, ExecutesWhatPassed

-----------------------------------------------------------------------------
(* A vote that is checked is over, with no answer left, or goes on.        *)
LEMMA CheckStep ==
  ASSUME VoteInv, ExecutesWhatPassed,
         NEW b \in Ballots, NEW wait \in Nat,
         (b.age = -1) <=> (ballot.age = -1),
         b.kind = ballot.kind, b.text = ballot.text,
         (b.yes = ballot.yes /\ b.no = ballot.no) \/ b.yes + b.no = Voters,
         wait > 0 => executeIn > 0,
         G_CheckVote(b, wait)
  PROVE  VoteInv' /\ ExecutesWhatPassed'
<1> DEFINE outcome == IF b.age = -1 THEN "open" ELSE Outcome(b, Voters)
           over == [kind |-> b.kind, age |-> -1, yes |-> 0, no |-> 0, text |-> b.text]
<1>1. /\ ballot' = IF outcome = "open" THEN b ELSE over
      /\ answer' = IF outcome = "open" THEN answer ELSE [p \in Players |-> "open"]
      /\ executeIn' = IF outcome = "pass" THEN DelayOf[b.text] + 1 ELSE wait
      /\ counted' = IF outcome = "open" THEN counted ELSE {}
      /\ passed' = IF outcome = "pass" THEN b.text ELSE IF wait > 0 THEN passed ELSE NoText
      /\ playerTeam' = playerTeam
    BY DEF G_CheckVote
<1>2. outcome = "pass" => b.age # -1
    OBVIOUS
<1>3. (b.age # -1 /\ b.yes + b.no = Voters) => outcome # "open"
    BY DEF Outcome
<1> HIDE DEF outcome
<1>4. VoteTypeOK /\ (b.age # -1 => b.text \in Texts)
    BY DEF VoteInv, VoteTypeOK
<1>5. /\ ballot' \in Ballots /\ ballot'.text = b.text /\ ballot'.kind = b.kind
      /\ outcome = "open" => ballot' = b
      /\ outcome # "open" => ballot'.age = -1
  <2>1. -1 \in -1..VoteTime
      BY VoteAssumption
  <2>2. CASE outcome = "open"
      BY <1>1, <2>2
  <2>3. CASE outcome # "open"
    <3> DEFINE c == over
    <3>1. c \in Ballots /\ c.text = b.text /\ c.kind = b.kind /\ c.age = -1
        BY <2>1 DEF Ballots
    <3>2. ballot' = c
        BY <1>1, <2>3
    <3> HIDE DEF c
    <3> QED
        BY <2>3, <3>1, <3>2
  <2> QED
      BY <2>2, <2>3
<1>6. executeIn' \in Nat
  <2>1. CASE outcome = "pass"
    <3>1. DelayOf[b.text] \in Nat
        BY <1>2, <1>4, <2>1, VoteAssumption
    <3> QED
        BY <1>1, <2>1, <3>1
  <2>2. CASE outcome # "pass"
      BY <1>1, <2>2
  <2> QED
      BY <2>1, <2>2
<1>7. passed' \in Texts \cup {NoText}
    BY <1>1, <1>2, <1>4 DEF VoteTypeOK
<1>8. VoteTypeOK'
  <2>1. answer' \in [Players -> {"open", "yes", "no"}] /\ counted' \subseteq Players
      BY <1>1, <1>4 DEF VoteTypeOK
  <2>2. ballot'.age # -1 => ballot'.text \in Texts
      BY <1>4, <1>5
  <2> QED
      BY <1>1, <1>4, <1>5, <1>6, <1>7, <2>1, <2>2 DEF VoteTypeOK
<1>9. ExecutesWhatPassed'
    BY <1>1, <1>5 DEF ExecutesWhatPassed
<1>10. CASE outcome = "open"
  <2>1. /\ ballot'.kind = ballot.kind /\ answer' = answer /\ counted' = counted
        /\ ballot'.age = -1 <=> ballot.age = -1
        /\ playerTeam' = playerTeam
      BY <1>1, <1>10
  <2>2. InProgress' <=> InProgress
      BY <2>1 DEF InProgress
  <2>3. InProgress => ballot'.yes = ballot.yes /\ ballot'.no = ballot.no
      BY <1>1, <1>3, <1>10 DEF InProgress
  <2>4. Those("yes")' = Those("yes") /\ Those("no")' = Those("no")
      BY <2>1 DEF Those
  <2>5. NoneLeft' /\ CountedVoted'
      BY <2>1, <2>2, VoteInvParts DEF NoneLeft, CountedVoted, Member
  <2>6. TalliedIfAll'
      BY <2>1, <2>2, <2>3, <2>4, VoteInvParts DEF TalliedIfAll, Tallied
  <2> QED
      BY <1>8, <1>9, <2>5, <2>6, VoteInvParts
<1>11. CASE outcome # "open"
  <2>1. ~InProgress' /\ \A p \in Players : answer'[p] = "open"
      BY <1>1, <1>5, <1>11 DEF InProgress
  <2> QED
      BY <1>8, <1>9, <2>1, VoteInvParts DEF NoneLeft, CountedVoted, TalliedIfAll
<1> QED
    BY <1>10, <1>11

LEMMA FrameStep ==
  ASSUME VoteInv, ExecutesWhatPassed, G_RunFrame
  PROVE  VoteInv' /\ ExecutesWhatPassed'
<1> DEFINE b == IF ballot.age \in 0..VoteTime - 1 THEN [ballot EXCEPT !.age = @ + 1] ELSE ballot
           wait == IF executeIn > 0 THEN executeIn - 1 ELSE 0
<1>1. ballot \in Ballots /\ executeIn \in Nat /\ VoteTime \in Nat
    BY VoteAssumption DEF VoteInv, VoteTypeOK
<1>2. /\ b \in Ballots /\ (b.age = -1 <=> ballot.age = -1)
      /\ b.kind = ballot.kind /\ b.text = ballot.text
      /\ b.yes = ballot.yes /\ b.no = ballot.no
  <2>1. CASE ballot.age \in 0..VoteTime - 1
    <3>1. ballot.age + 1 \in -1..VoteTime /\ ballot.age + 1 # -1 /\ ballot.age # -1
        BY <1>1, <2>1
    <3> QED
        BY <1>1, <2>1, <3>1 DEF Ballots
  <2>2. CASE ballot.age \notin 0..VoteTime - 1
      BY <1>1, <2>2
  <2> QED
      BY <2>1, <2>2
<1>3. wait \in Nat /\ (wait > 0 => executeIn > 0)
    BY <1>1
<1>4. G_CheckVote(b, wait)
    BY DEF G_RunFrame
<1> HIDE DEF b, wait
<1> QED
    BY <1>2, <1>3, <1>4, CheckStep

LEMMA AdminStep ==
  ASSUME VoteInv, ExecutesWhatPassed, NEW yes \in BOOLEAN, AdminEndsVote(yes)
  PROVE  VoteInv' /\ ExecutesWhatPassed'
<1> DEFINE y == IF yes THEN Voters ELSE 0
           n == IF yes THEN 0 ELSE Voters
           b == [ballot EXCEPT !.yes = y, !.no = n]
<1>1. ballot \in Ballots /\ executeIn \in Nat
    BY DEF VoteInv, VoteTypeOK
<1>2. y \in Int /\ n \in Int /\ y + n = Voters
    BY VotersCount
<1>3. G_CheckVote(b, executeIn)
    BY DEF AdminEndsVote
<1> HIDE DEF y, n
<1>4. /\ b \in Ballots /\ b.age = ballot.age
      /\ b.kind = ballot.kind /\ b.text = ballot.text
      /\ b.yes + b.no = Voters
    BY <1>1, <1>2 DEF Ballots
<1> HIDE DEF b
<1> QED
    BY <1>1, <1>3, <1>4, CheckStep

-----------------------------------------------------------------------------
(* The caller's answer is the only one.                                    *)
LEMMA VoteCallStep ==
  ASSUME VoteInv, ExecutesWhatPassed,
         NEW p \in Players, NEW k \in Kinds, Cmd_CallVote_f(p, k)
  PROVE  VoteInv' /\ ExecutesWhatPassed'
<1>1. VoteTypeOK /\ ~InProgress /\ playerTeam' = playerTeam
    BY DEF VoteInv, Cmd_CallVote_f
<1>2. executeIn' = 0 /\ passed' = NoText
    BY <1>1 DEF Cmd_CallVote_f, ExecutesFirst, VoteTypeOK
<1>3. ExecutesWhatPassed'
    BY <1>2 DEF ExecutesWhatPassed
<1>4. CASE UNCHANGED <<ballot, answer, counted>>
  <2>1. VoteTypeOK' /\ InProgress' = InProgress
      BY <1>1, <1>2, <1>4 DEF VoteTypeOK, InProgress
  <2> QED
      BY <1>1, <1>3, <1>4, <2>1, VoteInvParts DEF NoneLeft, CountedVoted, TalliedIfAll
<1>5. ASSUME NEW text \in Texts,
             ballot' = [kind |-> k, age |-> 0, yes |-> 1, no |-> 0, text |-> text],
             answer' = [answer EXCEPT ![p] = "yes"], counted' = {p}
      PROVE  VoteInv'
  <2>1. ballot' \in Ballots
      BY <1>5, VoteAssumption DEF Ballots
  <2>2. VoteTypeOK'
      BY <1>1, <1>2, <1>5, <2>1 DEF VoteTypeOK
  <2>3. InProgress'
      BY <1>5 DEF InProgress
  <2>4. Member(p, k)
      BY DEF Cmd_CallVote_f
  <2>5. answer'[p] = "yes" /\ \A q \in Players \ {p} : answer'[q] = "open"
      BY <1>1, <1>5, VoteInvParts DEF NoneLeft, VoteTypeOK
  <2>6. CountedVoted'
      BY <1>1, <1>5, <2>4, <2>5 DEF CountedVoted, Member
  <2>7. ASSUME k = "everyone" PROVE Tallied'
    <3>1. playerTeam[p] # "gone"
        BY <2>4, <2>7 DEF Member
    <3>2. Those("yes")' = {p} /\ Those("no")' = {}
        BY <1>1, <2>5, <3>1 DEF Those
    <3> QED
        BY <1>5, <3>2, FS_EmptySet, FS_Singleton DEF Tallied
  <2> QED
      BY <1>5, <2>2, <2>3, <2>6, <2>7, VoteInvParts DEF NoneLeft, TalliedIfAll
<1> QED
    BY <1>3, <1>4, <1>5 DEF Cmd_CallVote_f

LEMMA AnswerStep ==
  ASSUME VoteInv, ExecutesWhatPassed,
         NEW p \in Players, NEW a \in {"yes", "no"}, Cmd_Vote_f(p, a)
  PROVE  VoteInv' /\ ExecutesWhatPassed'
<1>1. /\ VoteTypeOK /\ InProgress /\ answer[p] = "open" /\ Member(p, ballot.kind)
      /\ answer' = [answer EXCEPT ![p] = a]
      /\ ballot' = Counts(ballot, a, 1)
      /\ counted' = counted \cup {p}
      /\ UNCHANGED <<playerTeam, executeIn, passed>>
    BY DEF VoteInv, Cmd_Vote_f
<1>2. /\ ballot \in Ballots /\ ballot' \in Ballots
      /\ ballot'.kind = ballot.kind /\ ballot'.age = ballot.age /\ ballot'.text = ballot.text
      /\ a = "yes" => ballot'.yes = ballot.yes + 1 /\ ballot'.no = ballot.no
      /\ a = "no" => ballot'.yes = ballot.yes /\ ballot'.no = ballot.no + 1
  <2>1. ballot \in Ballots /\ ballot' = Counts(ballot, a, 1) /\ 1 \in Int
      BY <1>1 DEF VoteTypeOK
  <2> QED
      BY <2>1, CountsFields
<1>3. VoteTypeOK' /\ InProgress' /\ ExecutesWhatPassed'
    BY <1>1, <1>2 DEF VoteTypeOK, InProgress, ExecutesWhatPassed
<1>4. answer'[p] = a /\ \A q \in Players \ {p} : answer'[q] = answer[q]
    BY <1>1 DEF VoteTypeOK
<1>5. CountedVoted'
    BY <1>1, <1>2, <1>4, VoteInvParts DEF CountedVoted, VoteTypeOK, Member
<1>6. ASSUME ballot.kind = "everyone" PROVE Tallied'
  <2>1. Tallied /\ playerTeam[p] # "gone"
      BY <1>1, <1>6, VoteInvParts DEF TalliedIfAll, Member
  <2>2. /\ Those(a)' = Those(a) \cup {p} /\ p \notin Those(a)
        /\ \A b \in {"yes", "no"} \ {a} : Those(b)' = Those(b)
      BY <1>1, <1>4, <2>1 DEF Those
  <2>3. Cardinality(Those(a)') = Cardinality(Those(a)) + 1
    <3>1. Those(a) \in SUBSET Players
        BY DEF Those
    <3> QED
        BY <2>2, <3>1, CountOfPlayers
  <2> QED
      BY <1>1, <1>2, <2>1, <2>2, <2>3 DEF Tallied
<1> QED
    BY <1>2, <1>3, <1>5, <1>6, VoteInvParts DEF NoneLeft, TalliedIfAll

-----------------------------------------------------------------------------
(* Players change teams, leave and come.                                   *)
LEMMA LeaveStep ==
  ASSUME VoteInv, ExecutesWhatPassed,
         NEW p \in Players, NEW t \in {"gone", "none", "aliens"},
         NEW kinds, kinds = {playerTeam[p]} \/ kinds = {playerTeam[p], "everyone"},
         playerTeam[p] # "gone", t # playerTeam[p],
         t = "gone" <=> "everyone" \in kinds,
         LeavesVote(p, kinds),
         playerTeam' = [playerTeam EXCEPT ![p] = t],
         UNCHANGED <<answer, executeIn, passed>>
  PROVE  VoteInv' /\ ExecutesWhatPassed'
<1>1. VoteTypeOK /\ playerTeam[p] \in {"none", "aliens"} /\ answer[p] \in {"open", "yes", "no"}
    BY DEF VoteInv, VoteTypeOK
<1>2. /\ playerTeam'[p] = t /\ \A q \in Players \ {p} : playerTeam'[q] = playerTeam[q]
    BY <1>1 DEF VoteTypeOK
<1>3. CASE Withdraws(p, kinds)
  <2>1. /\ InProgress /\ answer[p] \in {"yes", "no"} /\ ballot.kind \in kinds
        /\ ballot' = Counts(ballot, answer[p], -1) /\ counted' = counted \ {p}
      BY <1>1, <1>3 DEF Withdraws, LeavesVote
  <2>2. /\ ballot \in Ballots /\ ballot' \in Ballots
        /\ ballot'.kind = ballot.kind /\ ballot'.age = ballot.age
        /\ ballot'.text = ballot.text
        /\ answer[p] = "yes" => ballot'.yes = ballot.yes - 1 /\ ballot'.no = ballot.no
        /\ answer[p] = "no" => ballot'.yes = ballot.yes /\ ballot'.no = ballot.no - 1
    <3>1. ballot \in Ballots /\ ballot.yes \in Int /\ ballot.no \in Int
        BY <1>1 DEF VoteTypeOK, Ballots
    <3>2. CASE answer[p] = "yes"
      <4>1. ballot' = [ballot EXCEPT !.yes = @ + (-1)]
          BY <2>1, <3>2 DEF Counts
      <4> QED
          BY <3>1, <3>2, <4>1 DEF Ballots
    <3>3. CASE answer[p] = "no"
      <4>1. ballot' = [ballot EXCEPT !.no = @ + (-1)]
          BY <2>1, <3>3 DEF Counts
      <4> QED
          BY <3>1, <3>3, <4>1 DEF Ballots
    <3> QED
        BY <2>1, <3>2, <3>3
  <2>3. VoteTypeOK' /\ InProgress' /\ ExecutesWhatPassed'
      BY <1>1, <2>1, <2>2 DEF VoteTypeOK, InProgress, ExecutesWhatPassed
  <2>4. CountedVoted'
      BY <1>1, <1>2, <2>1, <2>2, VoteInvParts DEF CountedVoted, VoteTypeOK, Member
  <2>5. ASSUME ballot.kind = "everyone" PROVE Tallied'
    <3>1. Tallied /\ t = "gone"
        BY <1>1, <2>1, <2>5, VoteInvParts DEF TalliedIfAll
    <3>2. /\ p \in Those(answer[p]) /\ Those(answer[p])' = Those(answer[p]) \ {p}
          /\ \A b \in {"yes", "no"} \ {answer[p]} : Those(b)' = Those(b) /\ p \notin Those(b)
        BY <1>2, <3>1 DEF Those
    <3>3. Cardinality(Those(answer[p])') = Cardinality(Those(answer[p])) - 1
      <4>1. Those(answer[p]) \in SUBSET Players
          BY DEF Those
      <4> QED
          BY <3>2, <4>1, CountOfPlayers
    <3> QED
        BY <2>1, <2>2, <3>1, <3>2, <3>3 DEF Tallied
  <2> QED
      BY <2>2, <2>3, <2>4, <2>5, VoteInvParts DEF NoneLeft, TalliedIfAll
<1>4. CASE ~Withdraws(p, kinds)
  <2>1. ballot' = ballot /\ counted' = counted
      BY <1>4 DEF LeavesVote
  <2>2. /\ VoteTypeOK' /\ (InProgress' <=> InProgress) /\ ExecutesWhatPassed'
      BY <1>1, <2>1 DEF VoteTypeOK, InProgress, ExecutesWhatPassed
  <2>3. NoneLeft'
      BY <2>2, VoteInvParts DEF NoneLeft
  <2>4. CountedVoted'
    <3> SUFFICES ASSUME InProgress, NEW q \in counted
                 PROVE  Member(q, ballot.kind)' /\ answer[q] # "open"
        BY <2>1, <2>2 DEF CountedVoted
    <3>1. Member(q, ballot.kind) /\ answer[q] # "open" /\ q \in Players
        BY <1>1, VoteInvParts DEF CountedVoted, VoteTypeOK
    <3>2. CASE q # p
        BY <1>2, <2>1, <3>1, <3>2 DEF Member
    <3>3. CASE q = p
      <4>1. ballot.kind \notin kinds /\ ballot.kind \in Kinds
          BY <1>1, <1>4, <3>1, <3>3 DEF Withdraws, VoteTypeOK, Ballots
      <4>2. ballot.kind = "everyone" /\ t # "gone"
          BY <1>1, <3>1, <3>3, <4>1 DEF Member, Kinds
      <4> QED
          BY <1>2, <2>1, <3>1, <3>3, <4>2 DEF Member
    <3> QED
        BY <3>2, <3>3
  <2>5. ASSUME InProgress, ballot.kind = "everyone" PROVE Tallied'
    <3>1. Tallied
        BY <2>5, VoteInvParts DEF TalliedIfAll
    <3>2. t = "gone" => answer[p] = "open"
        BY <1>4, <2>5 DEF Withdraws
    <3>3. Those("yes")' = Those("yes") /\ Those("no")' = Those("no")
        BY <1>2, <3>2 DEF Those
    <3> QED
        BY <2>1, <3>1, <3>3 DEF Tallied
  <2> QED
      BY <2>1, <2>2, <2>3, <2>4, <2>5, VoteInvParts DEF TalliedIfAll
<1> QED
    BY <1>3, <1>4

LEMMA ConnectStep ==
  ASSUME VoteInv, ExecutesWhatPassed, NEW p \in Players, VoterConnects(p)
  PROVE  VoteInv' /\ ExecutesWhatPassed'
<1>1. /\ VoteTypeOK /\ playerTeam[p] = "gone"
      /\ playerTeam' = [playerTeam EXCEPT ![p] = "none"]
      /\ answer' = [answer EXCEPT ![p] = "open"]
      /\ UNCHANGED <<ballot, executeIn, counted, passed>>
    BY DEF VoteInv, VoterConnects
<1>2. /\ playerTeam'[p] = "none" /\ answer'[p] = "open"
      /\ \A q \in Players \ {p} : playerTeam'[q] = playerTeam[q] /\ answer'[q] = answer[q]
    BY <1>1 DEF VoteTypeOK
<1>3. /\ VoteTypeOK' /\ (InProgress' <=> InProgress) /\ ExecutesWhatPassed'
    BY <1>1 DEF VoteTypeOK, InProgress, ExecutesWhatPassed
<1>4. NoneLeft'
    BY <1>2, <1>3, VoteInvParts DEF NoneLeft
<1>5. CountedVoted'
  <2> SUFFICES ASSUME InProgress, NEW q \in counted
               PROVE  Member(q, ballot.kind)' /\ answer'[q] # "open"
      BY <1>1, <1>3 DEF CountedVoted
  <2>1. Member(q, ballot.kind) /\ answer[q] # "open" /\ q \in Players /\ ballot.kind \in Kinds
      BY <1>1, VoteInvParts DEF CountedVoted, VoteTypeOK, Ballots
  <2>2. q # p
      BY <1>1, <2>1 DEF Member, Kinds
  <2> QED
      BY <1>1, <1>2, <2>1, <2>2 DEF Member
<1>6. Those("yes")' = Those("yes") /\ Those("no")' = Those("no")
    BY <1>1, <1>2 DEF Those
<1>7. TalliedIfAll'
    BY <1>1, <1>3, <1>6, VoteInvParts DEF TalliedIfAll, Tallied
<1> QED
    BY <1>3, <1>4, <1>5, <1>7, VoteInvParts

-----------------------------------------------------------------------------
LEMMA VoteNext_Inv ==
  VoteInv /\ ExecutesWhatPassed /\ [VoteNext]_voteVars => VoteInv' /\ ExecutesWhatPassed'
<1> SUFFICES ASSUME VoteInv, ExecutesWhatPassed, [VoteNext]_voteVars
             PROVE  VoteInv' /\ ExecutesWhatPassed'
    OBVIOUS
<1>1. ASSUME NEW p \in Players, NEW k \in Kinds, Cmd_CallVote_f(p, k)
      PROVE  VoteInv' /\ ExecutesWhatPassed'
    BY <1>1, VoteCallStep
<1>2. ASSUME NEW p \in Players, NEW a \in {"yes", "no"}, Cmd_Vote_f(p, a)
      PROVE  VoteInv' /\ ExecutesWhatPassed'
    BY <1>2, AnswerStep
<1>3. ASSUME NEW p \in Players, NEW t \in {"none", "aliens"}, G_ChangeTeam(p, t)
      PROVE  VoteInv' /\ ExecutesWhatPassed'
  <2>1. playerTeam[p] \in {"gone", "none", "aliens"}
      BY DEF VoteInv, VoteTypeOK
  <2> DEFINE kinds == {playerTeam[p]}
  <2>2. "everyone" \notin kinds /\ kinds = {playerTeam[p]}
      BY <2>1
  <2>3. /\ playerTeam[p] # "gone" /\ t # playerTeam[p] /\ LeavesVote(p, kinds)
        /\ playerTeam' = [playerTeam EXCEPT ![p] = t]
        /\ UNCHANGED <<answer, executeIn, passed>>
      BY <1>3 DEF G_ChangeTeam
  <2> HIDE DEF kinds
  <2> QED
      BY <2>2, <2>3, LeaveStep
<1>4. ASSUME NEW p \in Players, VoterDisconnects(p)
      PROVE  VoteInv' /\ ExecutesWhatPassed'
  <2> DEFINE kinds == {playerTeam[p], "everyone"}
  <2>1. "everyone" \in kinds /\ kinds = {playerTeam[p], "everyone"}
      OBVIOUS
  <2>2. /\ playerTeam[p] # "gone" /\ LeavesVote(p, kinds)
        /\ playerTeam' = [playerTeam EXCEPT ![p] = "gone"]
        /\ UNCHANGED <<answer, executeIn, passed>>
      BY <1>4 DEF VoterDisconnects
  <2> HIDE DEF kinds
  <2> QED
      BY <2>1, <2>2, LeaveStep
<1>5. CASE UNCHANGED voteVars
    BY <1>5 DEF voteVars, VoteInv, VoteTypeOK, InProgress, Member, ExecutesWhatPassed
<1> QED
    BY <1>1, <1>2, <1>3, <1>4, <1>5, ConnectStep, AdminStep, FrameStep DEF VoteNext

-----------------------------------------------------------------------------
(* While there is a vote nothing waits to be carried out.                  *)
NoneWaits == InProgress => executeIn = 0

LEMMA NoneWaitsStep ==
  ASSUME VoteTypeOK, VoteTypeOK', NoneWaits, [VoteNext]_voteVars
  PROVE  NoneWaits'
<1>1. ASSUME NEW b \in Ballots, NEW wait \in Nat, (b.age = -1) <=> (ballot.age = -1),
             executeIn = 0 => wait = 0, G_CheckVote(b, wait)
      PROVE  NoneWaits'
  <2> DEFINE outcome == IF b.age = -1 THEN "open" ELSE Outcome(b, Voters)
  <2>1. CASE outcome = "open"
    <3>1. ballot' = b /\ executeIn' = wait
        BY <1>1, <2>1 DEF G_CheckVote
    <3> QED
        BY <1>1, <3>1 DEF NoneWaits, InProgress
  <2>2. CASE outcome # "open"
    <3>1. ballot' = [kind |-> b.kind, age |-> -1, yes |-> 0, no |-> 0, text |-> b.text]
        BY <1>1, <2>2 DEF G_CheckVote
    <3> QED
        BY <3>1 DEF NoneWaits, InProgress
  <2> QED
      BY <2>1, <2>2
<1>2. CASE G_RunFrame
  <2> DEFINE b == IF ballot.age \in 0..VoteTime - 1 THEN [ballot EXCEPT !.age = @ + 1] ELSE ballot
             wait == IF executeIn > 0 THEN executeIn - 1 ELSE 0
  <2>1. ballot \in Ballots /\ executeIn \in Nat /\ VoteTime \in Nat
      BY VoteAssumption DEF VoteTypeOK
  <2>2. b \in Ballots /\ (b.age = -1 <=> ballot.age = -1)
      BY <2>1 DEF Ballots
  <2>3. wait \in Nat /\ (executeIn = 0 => wait = 0)
      BY <2>1
  <2>4. G_CheckVote(b, wait)
      BY <1>2 DEF G_RunFrame
  <2> HIDE DEF b, wait
  <2> QED
      BY <1>1, <2>2, <2>3, <2>4
<1>3. ASSUME NEW yes \in BOOLEAN, AdminEndsVote(yes) PROVE NoneWaits'
  <2> DEFINE y == IF yes THEN Voters ELSE 0
             n == IF yes THEN 0 ELSE Voters
             b == [ballot EXCEPT !.yes = y, !.no = n]
  <2>1. ballot \in Ballots /\ executeIn \in Nat
      BY DEF VoteTypeOK
  <2>2. y \in Int /\ n \in Int
      BY VotersCount
  <2>3. G_CheckVote(b, executeIn)
      BY <1>3 DEF AdminEndsVote
  <2> HIDE DEF y, n
  <2>4. b \in Ballots /\ b.age = ballot.age
      BY <2>1, <2>2 DEF Ballots
  <2> HIDE DEF b
  <2> QED
      BY <1>1, <2>1, <2>3, <2>4
<1>4. ASSUME NEW p \in Players, NEW k \in Kinds, Cmd_CallVote_f(p, k) PROVE NoneWaits'
    BY <1>4 DEF Cmd_CallVote_f, ExecutesFirst, NoneWaits, VoteTypeOK
<1>5. ASSUME executeIn' = executeIn, ballot'.age = ballot.age PROVE NoneWaits'
    BY <1>5 DEF NoneWaits, InProgress
<1>6. ASSUME NEW a \in {"yes", "no"}, NEW n \in Int, ballot' = Counts(ballot, a, n)
      PROVE  ballot'.age = ballot.age
  <2>1. ballot \in Ballots
      BY DEF VoteTypeOK
  <2> QED
      BY <1>6, <2>1, CountsFields
<1>7. ASSUME NEW p \in Players, NEW kinds, LeavesVote(p, kinds) PROVE ballot'.age = ballot.age
  <2>1. CASE Withdraws(p, kinds)
    <3> DEFINE a == answer[p]
               n == -1
    <3>1. a \in {"yes", "no"} /\ n \in Int /\ ballot' = Counts(ballot, a, n)
        BY <1>7, <2>1 DEF LeavesVote, Withdraws, VoteTypeOK
    <3> HIDE DEF a, n
    <3> QED
        BY <1>6, <3>1
  <2>2. CASE ~Withdraws(p, kinds)
      BY <1>7, <2>2 DEF LeavesVote
  <2> QED
      BY <2>1, <2>2
<1>8. ASSUME NEW p \in Players, NEW a \in {"yes", "no"}, Cmd_Vote_f(p, a) PROVE NoneWaits'
  <2>1. ballot' = Counts(ballot, a, 1) /\ 1 \in Int /\ executeIn' = executeIn
      BY <1>8 DEF Cmd_Vote_f
  <2> QED
      BY <1>5, <1>6, <2>1
<1>9. ASSUME NEW p \in Players, NEW t \in {"none", "aliens"}, G_ChangeTeam(p, t) PROVE NoneWaits'
  <2>1. LeavesVote(p, {playerTeam[p]}) /\ executeIn' = executeIn
      BY <1>9 DEF G_ChangeTeam
  <2> QED
      BY <1>5, <1>7, <2>1
<1>10. ASSUME NEW p \in Players, VoterDisconnects(p) \/ VoterConnects(p) PROVE NoneWaits'
  <2>1. CASE VoterDisconnects(p)
    <3>1. LeavesVote(p, {playerTeam[p], "everyone"}) /\ executeIn' = executeIn
        BY <2>1 DEF VoterDisconnects
    <3> QED
        BY <1>5, <1>7, <3>1
  <2>2. CASE VoterConnects(p)
      BY <1>5, <2>2 DEF VoterConnects
  <2> QED
      BY <1>10, <2>1, <2>2
<1>11. CASE UNCHANGED voteVars
    BY <1>5, <1>11 DEF voteVars
<1> QED
    BY <1>2, <1>3, <1>4, <1>8, <1>9, <1>10, <1>11 DEF VoteNext

(* Who is ahead by enough stays ahead.                                     *)
LEMMA MajorityStays ==
  ASSUME NEW n \in Nat, NEW t \in 1..99, NEW yes \in Nat, NEW no \in Nat, yes + no < n,
         NEW more \in 0..(n - yes - no)
  PROVE  /\ 100 * yes > n * t => yes + more # 0 /\ 100 * (yes + more) > t * n
         /\ 100 * no > n * (100 - t) => ~(100 * (yes + more) > t * n)
<1> DEFINE m == n * t
<1>1. m \in Int /\ m >= 0 /\ t * n = m /\ n * (100 - t) = 100 * n - m
    OBVIOUS
<1> HIDE DEF m
<1>2. 100 * yes > m => yes + more # 0 /\ 100 * (yes + more) > m
    BY <1>1
<1>3. 100 * no > 100 * n - m => ~(100 * (yes + more) > m)
    BY <1>1
<1> QED
    BY <1>1, <1>2, <1>3 DEF m

LEMMA DecisionStep ==
  ASSUME VoteInv, NoneWaits, InProgress, ballot'.age = -1, G_RunFrame
  PROVE  DecidedRight(ballot, Voters, IF executeIn' > 0 THEN "pass" ELSE "fail")
<1> DEFINE n == Voters
           t == PercentOf[ballot.text]
           outcome == IF executeIn' > 0 THEN "pass" ELSE "fail"
<1> SUFFICES ASSUME ballot.yes \in 0..n, ballot.no \in 0..n, ballot.yes + ballot.no < n,
                    ballot.age + 1 < VoteTime,
                    NEW yes \in 0..n - ballot.yes - ballot.no
             PROVE  Outcome([ballot EXCEPT !.yes = @ + yes, !.no = n - ballot.yes - yes], n) = outcome
    BY DEF DecidedRight
<1>1. /\ ballot \in Ballots /\ ballot.age \in 0..VoteTime /\ ballot.text \in Texts
      /\ VoteTime \in Nat /\ executeIn = 0 /\ t \in 1..99 /\ DelayOf[ballot.text] \in Nat
      /\ n \in Nat
    BY VoteAssumption, VotersCount DEF VoteInv, VoteTypeOK, NoneWaits, InProgress, Ballots
<1> DEFINE b == [ballot EXCEPT !.age = @ + 1]
<1>2. /\ b.age = ballot.age + 1 /\ b.yes = ballot.yes /\ b.no = ballot.no
      /\ b.text = ballot.text
    BY <1>1 DEF Ballots
<1>3. G_CheckVote(b, 0)
  <2>1. ballot.age \in 0..VoteTime - 1
      BY <1>1
  <2> QED
      BY <1>1, <2>1 DEF G_RunFrame
<1> HIDE DEF b
<1>4. b.age # -1 /\ Outcome(b, n) # "open"
  <2>1. b.age # -1
      BY <1>1, <1>2
  <2>2. Outcome(b, n) = "open" => ballot' = b
      BY <1>3, <2>1 DEF G_CheckVote
  <2> QED
      BY <2>1, <2>2
<1>5. Outcome(b, n) \in {"pass", "fail"}
    BY <1>4 DEF Outcome
<1>6. outcome = Outcome(b, n)
  <2>1. executeIn' = IF Outcome(b, n) = "pass" THEN DelayOf[b.text] + 1 ELSE 0
      BY <1>3, <1>4 DEF G_CheckVote
  <2> QED
      BY <1>1, <1>2, <1>5, <2>1
<1> DEFINE c == [ballot EXCEPT !.yes = @ + yes, !.no = n - ballot.yes - yes]
<1>7. c.yes = ballot.yes + yes /\ c.no = n - ballot.yes - yes /\ c.text = ballot.text
    BY <1>1 DEF Ballots
<1> HIDE DEF c
<1>8. c.yes + c.no = n /\ ballot.yes \in Nat /\ ballot.no \in Nat
    BY <1>1, <1>7
<1>9. Outcome(c, n) = IF c.yes # 0 /\ 100 * c.yes > t * n THEN "pass" ELSE "fail"
    BY <1>7, <1>8 DEF Outcome
<1>10. ~TimeUp(b) /\ b.yes + b.no # n
    BY <1>1, <1>2 DEF TimeUp
<1>11. \/ Outcome(b, n) = "pass" /\ 100 * ballot.yes > n * t
       \/ Outcome(b, n) = "fail" /\ 100 * ballot.no > n * (100 - t)
    BY <1>2, <1>4, <1>10 DEF Outcome, Fails
<1>12. /\ 100 * ballot.yes > n * t => c.yes # 0 /\ 100 * c.yes > t * n
       /\ 100 * ballot.no > n * (100 - t) => ~(100 * c.yes > t * n)
  <2> DEFINE y == ballot.yes
             o == ballot.no
  <2>1. y \in Nat /\ o \in Nat /\ y + o < n /\ yes \in 0..(n - y - o) /\ n \in Nat /\ t \in 1..99
      BY <1>1, <1>8
  <2> HIDE DEF y, o, n, t
  <2>2. /\ 100 * y > n * t => y + yes # 0 /\ 100 * (y + yes) > t * n
        /\ 100 * o > n * (100 - t) => ~(100 * (y + yes) > t * n)
      BY <2>1, MajorityStays
  <2> QED
      BY <1>7, <2>2 DEF y, o
<1> HIDE DEF n, t, outcome
<1>13. Outcome(c, n) = outcome
    BY <1>6, <1>9, <1>11, <1>12
<1> QED
    BY <1>13 DEF c

(* The counters of a vote of everyone say how those who are there have     *)
(* voted, and no answer outlives its vote, though players answer, change   *)
(* teams, leave and come back, and admins end votes (G_Vote, G_CheckVote). *)
THEOREM VotesCounted == VoteSpec => []VoteInv
<1>1. VoteInit => VoteInv /\ ExecutesWhatPassed
    BY VoteInit_Inv
<1>2. VoteInv /\ ExecutesWhatPassed /\ [VoteNext]_voteVars => VoteInv' /\ ExecutesWhatPassed'
    BY VoteNext_Inv
<1> QED
    BY <1>1, <1>2, PTL DEF VoteSpec

(* What is carried out when the time has come is what was passed           *)
(* (Cmd_CallVote_f, G_ExecuteVote).                                        *)
THEOREM VoteCarriedOut == VoteSpec => []ExecutesWhatPassed
<1>1. VoteInit => VoteInv /\ ExecutesWhatPassed
    BY VoteInit_Inv
<1>2. VoteInv /\ ExecutesWhatPassed /\ [VoteNext]_voteVars => VoteInv' /\ ExecutesWhatPassed'
    BY VoteNext_Inv
<1> QED
    BY <1>1, <1>2, PTL DEF VoteSpec

(* A vote that is decided before all have voted is decided as it would be  *)
(* when they have, whatever they vote (G_CheckVote).                       *)
THEOREM DecidedAsItWouldBe == VoteSpec => EarlyDecisionRight
<1>1. VoteInit => NoneWaits
    BY DEF VoteInit, NoneWaits
<1>2. VoteInv /\ VoteInv' /\ NoneWaits /\ [VoteNext]_voteVars => NoneWaits'
    BY NoneWaitsStep DEF VoteInv
<1>3. VoteInv /\ NoneWaits /\ [VoteNext]_voteVars =>
         [(InProgress /\ ballot'.age = -1 /\ G_RunFrame)
             => DecidedRight(ballot, Voters, IF executeIn' > 0 THEN "pass" ELSE "fail")]_voteVars
    BY DecisionStep
<1> QED
    BY <1>1, <1>2, <1>3, VotesCounted, PTL DEF VoteSpec, EarlyDecisionRight

-----------------------------------------------------------------------------
(* Spawn queues. *)

(* The ring of a queue as a line: who is k-th from its front. *)
Rings == [front : Slots, back : Slots, clients : [Slots -> Clients \cup {NoClient}]]
Waiting(q, k) == q.clients[SlotAt(q, k)]

(* L of them wait: they are at its first places, each once, and nobody is  *)
(* at the others.  The length of a full ring is 0. *)
IsLine(q, L) ==
    /\ QueueLength(q) = IF L = MaxClients THEN 0 ELSE L
    /\ \A k \in 1..MaxClients : k <= L => Waiting(q, k) \in Clients
    /\ \A k \in 1..MaxClients : k > L => Waiting(q, k) = NoClient
    /\ \A j, k \in 1..MaxClients : j # k /\ j <= L => Waiting(q, j) # Waiting(q, k)
Lined(q) == IsLine(q, LineLength(q))

LEMMA RingSize ==
  /\ MaxClients \in Nat \ {0} /\ MaxClients > 1
  /\ sv_maxclients \in Nat \ {0} /\ sv_maxclients <= MaxClients /\ NoClient \notin Clients
BY SpawnAssumption DEF Clients, NoClient

(* The same steps and distances without remainders. *)
Next(i) == IF i = MaxClients - 1 THEN 0 ELSE i + 1
Previous(i) == IF i = 0 THEN MaxClients - 1 ELSE i - 1
NthWaiting(f, k) == IF f + k - 1 < MaxClients THEN f + k - 1 ELSE f + k - 1 - MaxClients
Span(f, b) == IF b - f + 1 < 0 THEN b - f + 1 + MaxClients
              ELSE IF b - f + 1 = MaxClients THEN 0 ELSE b - f + 1

LEMMA Spans ==
  ASSUME NEW f \in Slots, NEW b \in Slots, NEW L, L = Span(f, b)
  PROVE  /\ L \in 0..MaxClients - 1
         /\ Next(f) \in Slots /\ Previous(b) \in Slots
         /\ NthWaiting(f, L + 1) = Next(b)
         /\ Span(f, Next(b)) = IF L = MaxClients - 1 THEN 0 ELSE L + 1
         /\ L > 0 => Span(Next(f), b) = L - 1 /\ Span(f, Previous(b)) = L - 1
         /\ \A k \in 1..MaxClients : NthWaiting(Next(f), k) = IF k = MaxClients THEN f ELSE NthWaiting(f, k + 1)
BY RingSize DEF Slots, Next, Previous, NthWaiting, Span

LEMMA Steps ==
  ASSUME NEW i \in Slots
  PROVE  Plus1(i) = Next(i) /\ Minus1(i) = Previous(i) /\ Next(i) \in Slots /\ Previous(i) \in Slots
<1> USE RingSize DEF Slots, Next, Previous
<1>1. i % MaxClients = i
  <2>1. (MaxClients * 0 + i) % MaxClients = i
      BY RemainderIs
  <2> QED
      BY <2>1
<1>2. Plus1(i) = IF i = MaxClients - 1 THEN 0 ELSE i + 1
  <2>1. i \in Int
      OBVIOUS
  <2>2. (i + 1) % MaxClients = IF i % MaxClients = MaxClients - 1 THEN 0 ELSE (i % MaxClients) + 1
      BY <2>1, RemainderOfNext, Zenon
  <2> QED
      BY <1>1, <2>2 DEF Plus1
<1>3. Minus1(i) = IF i = 0 THEN MaxClients - 1 ELSE i - 1
  <2>1. CASE i = 0
    <3>1. (MaxClients * (-1) + (MaxClients - 1)) % MaxClients = MaxClients - 1
        BY RemainderIs
    <3> QED
        BY <2>1, <3>1 DEF Minus1
  <2>2. CASE i # 0
    <3>1. (MaxClients * 0 + (i - 1)) % MaxClients = i - 1
        BY <2>2, RemainderIs
    <3> QED
        BY <2>2, <3>1 DEF Minus1
  <2> QED
      BY <2>1, <2>2
<1> QED
    BY <1>2, <1>3

(* The slots from a front, as far as the ring goes. *)
LEMMA SlotsFrom ==
  ASSUME NEW f \in Slots, NEW q, q.front = f
  PROVE  /\ \A k \in 1..MaxClients : SlotAt(q, k) = NthWaiting(f, k)
         /\ SlotAt(q, MaxClients + 1) = f
<1> USE RingSize DEF Slots, NthWaiting
<1>1. ASSUME NEW k \in 1..MaxClients
      PROVE  SlotAt(q, k) = NthWaiting(f, k)
  <2>1. CASE f + k - 1 < MaxClients
    <3>1. (MaxClients * 0 + (f + k - 1)) % MaxClients = f + k - 1
        BY <2>1, RemainderIs
    <3> QED
        BY <2>1, <3>1 DEF SlotAt
  <2>2. CASE f + k - 1 >= MaxClients
    <3>1. (MaxClients * 1 + (f + k - 1 - MaxClients)) % MaxClients = f + k - 1 - MaxClients
        BY <2>2, RemainderIs
    <3>2. MaxClients * 1 + (f + k - 1 - MaxClients) = f + k - 1
        BY <1>1
    <3> QED
        BY <2>2, <3>1, <3>2 DEF SlotAt
  <2> QED
      BY <2>1, <2>2
<1>2. SlotAt(q, MaxClients + 1) = f
  <2>1. (MaxClients * 1 + f) % MaxClients = f
      BY RemainderIs
  <2>2. MaxClients * 1 + f = f + (MaxClients + 1) - 1
      OBVIOUS
  <2> QED
      BY <2>1, <2>2 DEF SlotAt
<1> QED
    BY <1>1, <1>2

LEMMA SlotsOnce ==
  ASSUME NEW q, q.front \in Slots
  PROVE  /\ \A k \in 1..MaxClients : SlotAt(q, k) \in Slots
         /\ \A j, k \in 1..MaxClients : j # k => SlotAt(q, j) # SlotAt(q, k)
         /\ \A i \in Slots : \E k \in 1..MaxClients : SlotAt(q, k) = i
         /\ \A k \in 1..MaxClients : Plus1(SlotAt(q, k)) = SlotAt(q, k + 1)
         /\ SlotAt(q, 1) = q.front /\ SlotAt(q, MaxClients + 1) = q.front
<1> DEFINE f == q.front
<1>1. \A k \in 1..MaxClients : SlotAt(q, k) = NthWaiting(f, k)
    BY SlotsFrom
<1>2. SlotAt(q, MaxClients + 1) = f
    BY SlotsFrom
<1>3. f \in Slots
    OBVIOUS
<1> HIDE DEF f
<1>4. \A k \in 1..MaxClients : SlotAt(q, k) \in Slots
    BY <1>1, <1>3, RingSize DEF Slots, NthWaiting
<1>5. \A j, k \in 1..MaxClients : j # k => SlotAt(q, j) # SlotAt(q, k)
    BY <1>1, <1>3, RingSize DEF Slots, NthWaiting
<1>6. ASSUME NEW i \in Slots
      PROVE  \E k \in 1..MaxClients : SlotAt(q, k) = i
  <2>1. CASE i >= f
    <3>1. i - f + 1 \in 1..MaxClients
        BY <2>1, <1>3, RingSize DEF Slots, NthWaiting
    <3>2. SlotAt(q, i - f + 1) = i
        BY <3>1, <1>1, <1>3, RingSize DEF Slots, NthWaiting
    <3> QED
        BY <3>1, <3>2
  <2>2. CASE i < f
    <3>1. i - f + 1 + MaxClients \in 1..MaxClients
        BY <2>2, <1>3, RingSize DEF Slots, NthWaiting
    <3>2. SlotAt(q, i - f + 1 + MaxClients) = i
        BY <3>1, <1>1, <1>3, RingSize DEF Slots, NthWaiting
    <3> QED
        BY <3>1, <3>2
  <2> QED
      BY <2>1, <2>2, <1>3, RingSize DEF Slots, NthWaiting
<1>7. ASSUME NEW k \in 1..MaxClients
      PROVE  Plus1(SlotAt(q, k)) = SlotAt(q, k + 1)
  <2>1. SlotAt(q, k) \in Slots
      BY <1>4
  <2>2. Plus1(SlotAt(q, k)) = Next(SlotAt(q, k))
      BY <2>1, Steps
  <2>3. CASE k = MaxClients
      BY <2>2, <2>3, <1>1, <1>2, <1>3, RingSize DEF Slots, NthWaiting, Next
  <2>4. CASE k # MaxClients
      BY <2>2, <2>4, <1>1, <1>3, RingSize DEF Slots, NthWaiting, Next
  <2> QED
      BY <2>3, <2>4
<1>8. SlotAt(q, 1) = f
    BY <1>1, <1>3, RingSize DEF Slots, NthWaiting
<1> QED
    BY <1>2, <1>4, <1>5, <1>6, <1>7, <1>8 DEF f

LEMMA Lengths ==
  ASSUME NEW q, q.front \in Slots, q.back \in Slots
  PROVE  /\ QueueLength(q) \in 0..MaxClients - 1
         /\ QueueLength(q) = Span(q.front, q.back)
<1> DEFINE d == q.back - q.front + 1
<1>1. d \in Int /\ d <= MaxClients /\ d + MaxClients > 0
    BY RingSize DEF Slots
<1>2. QueueLength(q) = d % MaxClients
    BY DEF QueueLength
<1> HIDE DEF d
<1>3. CASE d < 0
  <2>1. (MaxClients * (-1) + (d + MaxClients)) % MaxClients = d + MaxClients
      BY <1>1, <1>3, RingSize, RemainderIs
  <2> QED
      BY <2>1, <1>1, <1>2, <1>3, RingSize DEF d, Span
<1>4. CASE d = MaxClients
  <2>1. (MaxClients * 1 + 0) % MaxClients = 0
      BY RingSize, RemainderIs
  <2> QED
      BY <2>1, <1>1, <1>2, <1>4, RingSize DEF d, Span
<1>5. CASE d >= 0 /\ d < MaxClients
  <2>1. (MaxClients * 0 + d) % MaxClients = d
      BY <1>1, <1>5, RingSize, RemainderIs
  <2> QED
      BY <2>1, <1>1, <1>2, <1>5, RingSize DEF d, Span
<1> QED
    BY <1>1, <1>3, <1>4, <1>5, RingSize

LEMMA ARing ==
  ASSUME NEW f \in Slots, NEW b \in Slots, NEW s \in [Slots -> Clients \cup {NoClient}],
         NEW q, q = [front |-> f, back |-> b, clients |-> s]
  PROVE  q \in Rings /\ q.front = f /\ q.back = b /\ q.clients = s
BY DEF Rings

LEMMA RingParts ==
  ASSUME NEW q \in Rings
  PROVE  /\ q.front \in Slots /\ q.back \in Slots
         /\ q.clients \in [Slots -> Clients \cup {NoClient}]
         /\ QueueLength(q) \in 0..MaxClients - 1
         /\ q = [front |-> q.front, back |-> q.back, clients |-> q.clients]
BY Lengths DEF Rings

(* What is a line of some length is one of its length. *)
LEMMA ALine ==
  ASSUME NEW q \in Rings
  PROVE  /\ LineLength(q) \in 0..MaxClients
         /\ \A L \in 0..MaxClients : IsLine(q, L) => LineLength(q) = L /\ Lined(q)
<1>1. /\ \A k \in 1..MaxClients : SlotAt(q, k) \in Slots
      /\ \A i \in Slots : \E k \in 1..MaxClients : SlotAt(q, k) = i
    BY SlotsOnce, RingParts
<1>2. QueueLength(q) \in 0..MaxClients - 1
    BY RingParts
<1>3. LineLength(q) \in 0..MaxClients
    BY <1>2, RingSize DEF LineLength
<1>4. ASSUME NEW L \in 0..MaxClients, IsLine(q, L)
      PROVE  LineLength(q) = L
  <2>1. CASE L = MaxClients
    <3>1. \A k \in 1..MaxClients : Waiting(q, k) # NoClient
        BY <1>4, <2>1, RingSize DEF IsLine
    <3>2. Full(q)
        BY <1>1, <3>1 DEF Full, Waiting
    <3> QED
        BY <2>1, <3>2 DEF LineLength
  <2>2. CASE L # MaxClients
    <3>1. MaxClients \in 1..MaxClients /\ MaxClients > L
        BY <2>2, RingSize
    <3>2. Waiting(q, MaxClients) = NoClient
        BY <1>4, <3>1 DEF IsLine
    <3>3. ~Full(q)
        BY <1>1, <3>1, <3>2 DEF Full, Waiting
    <3> QED
        BY <1>4, <2>2, <3>3 DEF LineLength, IsLine
  <2> QED
      BY <2>1, <2>2
<1> QED
    BY <1>3, <1>4 DEF Lined

(* One who is served or taken out was in a ring that is not full. *)
LEMMA NotFull ==
  ASSUME NEW q \in Rings, Lined(q), QueueLength(q) > 0
  PROVE  LineLength(q) = QueueLength(q) /\ LineLength(q) \in 1..MaxClients - 1
<1>1. QueueLength(q) \in 0..MaxClients - 1
    BY RingParts
<1>2. LineLength(q) # MaxClients
    BY <1>1, RingSize DEF Lined, IsLine
<1> QED
    BY <1>1, <1>2, ALine DEF Lined, IsLine

(* The part of QueueInv that is about one queue. *)
Ordered(q) ==
    /\ \A i, j \in Slots : (i # j /\ q.clients[i] = q.clients[j]) => q.clients[i] = NoClient
    /\ IF Full(q) THEN QueueLength(q) = 0
       ELSE \A k \in 1..MaxClients :
              (k <= QueueLength(q)) = (q.clients[SlotAt(q, k)] # NoClient)

LEMMA OrderedIsLined ==
  ASSUME NEW q \in Rings
  PROVE  Ordered(q) <=> Lined(q)
<1>1. /\ q.front \in Slots /\ q.back \in Slots
      /\ \A i \in Slots : q.clients[i] \in Clients \cup {NoClient}
    BY DEF Rings
<1>2. QueueLength(q) \in 0..MaxClients - 1 /\ LineLength(q) \in 0..MaxClients
    BY <1>1, Lengths, ALine
<1> DEFINE L == LineLength(q)
           N == QueueLength(q)
           s(k) == SlotAt(q, k)
<1>3. /\ \A k \in 1..MaxClients : s(k) \in Slots
      /\ \A j, k \in 1..MaxClients : j # k => s(j) # s(k)
      /\ \A i \in Slots : \E k \in 1..MaxClients : s(k) = i
    BY <1>1, SlotsOnce
<1>4. Ordered(q) <=>
         /\ \A i, j \in Slots : (i # j /\ q.clients[i] = q.clients[j]) => q.clients[i] = NoClient
         /\ Full(q) => N = 0
         /\ ~Full(q) => \A k \in 1..MaxClients : (k <= N) = (q.clients[s(k)] # NoClient)
    BY DEF Ordered
<1>5. Lined(q) <=>
         /\ N = IF L = MaxClients THEN 0 ELSE L
         /\ \A k \in 1..MaxClients : k <= L => q.clients[s(k)] \in Clients
         /\ \A k \in 1..MaxClients : k > L => q.clients[s(k)] = NoClient
         /\ \A j, k \in 1..MaxClients : j # k /\ j <= L => q.clients[s(j)] # q.clients[s(k)]
    BY DEF Lined, IsLine, Waiting
<1>6. Full(q) <=> \A i \in Slots : q.clients[i] # NoClient
    BY DEF Full
<1>7. L = IF Full(q) THEN MaxClients ELSE N
    BY DEF LineLength
<1> HIDE DEF L, N, s
<1>8. N \in 0..MaxClients - 1 /\ L \in 0..MaxClients
    BY <1>2 DEF L, N
<1>9. CASE Full(q)
  <2>1. L = MaxClients /\ \A k \in 1..MaxClients : k <= L /\ ~(k > L)
      BY <1>7, <1>9, RingSize
  <2> QED
      BY <2>1, <1>1, <1>3, <1>4, <1>5, <1>6, <1>9, RingSize
<1>10. CASE ~Full(q)
  <2>1. L = N /\ L # MaxClients /\ \A k \in 1..MaxClients : (k <= L) <=> ~(k > L)
      BY <1>7, <1>8, <1>10, RingSize
  <2> QED
      BY <2>1, <1>1, <1>3, <1>4, <1>5, <1>10, RingSize
<1> QED
    BY <1>9, <1>10

(* Who is in the queue is in its line. *)
LEMMA WhoWaits ==
  ASSUME NEW q \in Rings, Lined(q), NEW c \in Clients
  PROVE  InQueue(q, c) <=> \E k \in 1..LineLength(q) : Waiting(q, k) = c
<1>1. \A k \in 1..MaxClients : k > LineLength(q) => Waiting(q, k) # c
    BY RingSize DEF Lined, IsLine
<1>2. /\ \A k \in 1..MaxClients : SlotAt(q, k) \in Slots
      /\ \A i \in Slots : \E k \in 1..MaxClients : SlotAt(q, k) = i
    BY SlotsOnce, RingParts
<1>3. LineLength(q) \in 0..MaxClients
    BY ALine
<1>4. \A k \in 1..MaxClients : ~(k > LineLength(q)) => k \in 1..LineLength(q)
    BY <1>3, RingSize
<1>5. \A k \in 1..LineLength(q) : k \in 1..MaxClients
    BY <1>3, RingSize
<1> QED
    BY <1>1, <1>2, <1>4, <1>5 DEF InQueue, Waiting

(* There is room for one who does not wait yet. *)
LEMMA RoomForOne ==
  ASSUME NEW q \in Rings, Lined(q), NEW c \in Clients, ~InQueue(q, c)
  PROVE  LineLength(q) < MaxClients
<1> DEFINE L == LineLength(q)
           T == Clients \ {c}
           w == [k \in 1..L |-> Waiting(q, k)]
<1>1. L \in 0..MaxClients
    BY ALine
<1>2. \A k \in 1..L : k \in 1..MaxClients /\ k <= L
    BY <1>1, RingSize
<1>3. \A k \in 1..L : Waiting(q, k) \in T
    BY <1>1, <1>2, WhoWaits DEF Lined, IsLine
<1>4. w \in [1..L -> T] /\ \A j, k \in 1..L : j # k => w[j] # w[k]
    BY <1>1, <1>2, <1>3 DEF Lined, IsLine
<1> HIDE DEF L, w
<1>5. IsFiniteSet(1..L) /\ Cardinality(1..L) = L
    BY <1>1, FS_Interval
<1>6. IsFiniteSet(Clients) /\ Cardinality(Clients) = sv_maxclients
  <2>1. 0 \in Int /\ sv_maxclients - 1 \in Int
      BY RingSize
  <2>2. /\ IsFiniteSet(0..sv_maxclients - 1)
        /\ Cardinality(0..sv_maxclients - 1) = IF 0 > sv_maxclients - 1 THEN 0 ELSE sv_maxclients - 1 - 0 + 1
      BY <2>1, FS_Interval, Zenon
  <2> QED
      BY <2>2, RingSize DEF Clients
<1>7. IsFiniteSet(T) /\ Cardinality(T) = sv_maxclients - 1
    BY <1>6, FS_RemoveElement
<1> HIDE DEF T
<1>8. ~(Cardinality(T) < Cardinality(1..L))
    BY <1>4, <1>5, <1>7, FS_PigeonHole
<1>9. L <= sv_maxclients - 1
    BY <1>1, <1>5, <1>7, <1>8, RingSize
<1> QED
    BY <1>1, <1>9, RingSize DEF L

(* One who is pushed comes behind the others. *)
LEMMA PushedLine ==
  ASSUME NEW q \in Rings, Lined(q), NEW c \in Clients, ~InQueue(q, c),
         NEW L, L = LineLength(q), NEW r, r = Pushed(q, c)
  PROVE  /\ r \in Rings /\ Lined(r)
         /\ LineLength(r) = L + 1
         /\ \A k \in 1..L : Waiting(r, k) = Waiting(q, k)
         /\ Waiting(r, L + 1) = c
<1>1. /\ q.front \in Slots /\ q.back \in Slots /\ L \in 0..MaxClients - 1 /\ L = QueueLength(q)
      /\ q.clients \in [Slots -> Clients \cup {NoClient}]
    BY RingParts, ALine, RoomForOne, RingSize DEF Lined, IsLine
<1> DEFINE b == Plus1(q.back)
           s == [q.clients EXCEPT ![b] = c]
<1>2. b \in Slots /\ b = Next(q.back)
    BY <1>1, Steps
<1>3. s \in [Slots -> Clients \cup {NoClient}]
    BY <1>1
<1>4. r = [front |-> q.front, back |-> b, clients |-> s]
    BY DEF Pushed, Rings
<1>5. \A i \in Slots : s[i] = IF i = b THEN c ELSE q.clients[i]
    BY <1>1
<1> HIDE DEF b, s
<1>6. r \in Rings /\ r.front = q.front /\ r.back = b /\ r.clients = s
    BY <1>1, <1>2, <1>3, <1>4, ARing
<1>7. L = Span(q.front, q.back) /\ QueueLength(r) = Span(q.front, b)
    BY <1>1, <1>2, <1>6, Lengths
<1>8. Span(q.front, b) = (IF L = MaxClients - 1 THEN 0 ELSE L + 1) /\ NthWaiting(q.front, L + 1) = b
    BY <1>1, <1>2, <1>7, Spans
<1>9. QueueLength(r) = IF L + 1 = MaxClients THEN 0 ELSE L + 1
    BY <1>1, <1>7, <1>8, RingSize
<1>10. L + 1 \in 1..MaxClients
    BY <1>1, RingSize
<1>11. SlotAt(q, L + 1) = b
    BY <1>1, <1>8, <1>10, SlotsFrom
<1>12. \A k \in 1..MaxClients : SlotAt(r, k) = SlotAt(q, k)
    BY <1>6 DEF SlotAt
<1>13. \A k \in 1..MaxClients : Waiting(r, k) = IF k = L + 1 THEN c ELSE Waiting(q, k)
  <2>1. /\ \A k \in 1..MaxClients : SlotAt(q, k) \in Slots
        /\ \A j, k \in 1..MaxClients : j # k => SlotAt(q, j) # SlotAt(q, k)
      BY <1>1, SlotsOnce
  <2> QED
      BY <2>1, <1>5, <1>6, <1>10, <1>11, <1>12 DEF Waiting
<1>14. IsLine(r, L + 1)
  <2>1. \A k \in 1..MaxClients : k <= L => Waiting(q, k) # c
    <3>1. \A k \in 1..MaxClients : k <= L => k \in 1..L
        BY <1>1
    <3> QED
        BY <3>1, WhoWaits
  <2>2. \A k \in 1..MaxClients : k > L => Waiting(q, k) # c
      BY RingSize DEF Lined, IsLine
  <2>3. \A k \in 1..MaxClients : (k <= L + 1 <=> k <= L \/ k = L + 1) /\ (k > L + 1 => k > L)
                                    /\ (k # L + 1 => (k <= L + 1 => k <= L))
      BY <1>1
  <2>4. \A k \in 1..MaxClients : k <= L + 1 => Waiting(r, k) \in Clients
      BY <1>13, <2>3 DEF Lined, IsLine
  <2>5. \A k \in 1..MaxClients : k > L + 1 => Waiting(r, k) = NoClient
      BY <1>1, <1>13, <2>3 DEF Lined, IsLine
  <2>6. \A k \in 1..MaxClients : Waiting(q, k) # c
      BY <2>1, <2>2, <1>1
  <2>7. \A j, k \in 1..MaxClients : j # k /\ j <= L + 1 => Waiting(r, j) # Waiting(r, k)
      BY <1>13, <2>3, <2>6 DEF Lined, IsLine
  <2> QED
      BY <1>9, <2>4, <2>5, <2>7 DEF Lined, IsLine
<1>15. \A k \in 1..L : k \in 1..MaxClients /\ k # L + 1
    BY <1>1, RingSize
<1>16. LineLength(r) = L + 1 /\ Lined(r)
    BY <1>6, <1>10, <1>14, ALine
<1> QED
    BY <1>6, <1>10, <1>13, <1>15, <1>16

(* When the first is served the others move up. *)
LEMMA PoppedLine ==
  ASSUME NEW q \in Rings, Lined(q), NEW L, L = LineLength(q), QueueLength(q) > 0,
         NEW r, r = Popped(q)
  PROVE  /\ r \in Rings /\ Lined(r)
         /\ LineLength(r) = L - 1
         /\ \A k \in 1..L - 1 : Waiting(r, k) = Waiting(q, k + 1)
         /\ q.clients[q.front] \in Clients
<1>1. /\ q.front \in Slots /\ q.back \in Slots /\ L \in 1..MaxClients - 1 /\ L = QueueLength(q)
      /\ q.clients \in [Slots -> Clients \cup {NoClient}]
    BY RingParts, NotFull
<1> DEFINE f == Plus1(q.front)
           s == [q.clients EXCEPT ![q.front] = NoClient]
<1>2. f \in Slots /\ f = Next(q.front)
    BY <1>1, Steps
<1>3. s \in [Slots -> Clients \cup {NoClient}]
    BY <1>1
<1>4. r = [front |-> f, back |-> q.back, clients |-> s]
    BY DEF Popped, Rings
<1>5. \A i \in Slots : s[i] = IF i = q.front THEN NoClient ELSE q.clients[i]
    BY <1>1
<1> HIDE DEF f, s
<1>6. r \in Rings /\ r.front = f /\ r.back = q.back /\ r.clients = s
    BY <1>1, <1>2, <1>3, <1>4, ARing
<1>7. L = Span(q.front, q.back) /\ QueueLength(r) = Span(f, q.back)
    BY <1>1, <1>2, <1>6, Lengths
<1>8. /\ Span(f, q.back) = L - 1
      /\ \A k \in 1..MaxClients : NthWaiting(f, k) = IF k = MaxClients THEN q.front ELSE NthWaiting(q.front, k + 1)
    BY <1>1, <1>2, <1>7, Spans
<1>9. QueueLength(r) = L - 1
    BY <1>7, <1>8
<1>10. \A k \in 1..MaxClients : SlotAt(r, k) = IF k = MaxClients THEN q.front ELSE SlotAt(q, k + 1)
  <2>1. \A k \in 1..MaxClients : SlotAt(q, k) = NthWaiting(q.front, k)
      BY <1>1, SlotsFrom
  <2>2. \A k \in 1..MaxClients : SlotAt(r, k) = NthWaiting(f, k)
      BY <1>2, <1>6, SlotsFrom
  <2>3. \A k \in 1..MaxClients : k # MaxClients => k + 1 \in 1..MaxClients
      BY RingSize
  <2> QED
      BY <1>8, <2>1, <2>2, <2>3
<1>11. \A k \in 1..MaxClients : k # MaxClients => k + 1 \in 1..MaxClients /\ k + 1 # 1
    BY RingSize
<1>12. 1 \in 1..MaxClients /\ SlotAt(q, 1) = q.front
    BY <1>1, SlotsOnce, RingSize
<1>13. \A k \in 1..MaxClients : Waiting(r, k) = IF k = MaxClients THEN NoClient ELSE Waiting(q, k + 1)
  <2>1. /\ \A k \in 1..MaxClients : SlotAt(q, k) \in Slots
        /\ \A j, k \in 1..MaxClients : j # k => SlotAt(q, j) # SlotAt(q, k)
      BY <1>1, SlotsOnce
  <2> QED
      BY <2>1, <1>5, <1>6, <1>10, <1>11, <1>12 DEF Waiting
<1>14. \A k \in 1..MaxClients : /\ k <= L - 1 => k # MaxClients /\ k + 1 <= L
                                /\ k # MaxClients /\ k > L - 1 => k + 1 > L
    BY <1>1, RingSize
<1>15. IsLine(r, L - 1)
  <2>1. \A k \in 1..MaxClients : k <= L - 1 => Waiting(r, k) \in Clients
      BY <1>11, <1>13, <1>14 DEF Lined, IsLine
  <2>2. \A k \in 1..MaxClients : k > L - 1 => Waiting(r, k) = NoClient
      BY <1>11, <1>13, <1>14 DEF Lined, IsLine
  <2>3. ASSUME NEW j \in 1..MaxClients, NEW k \in 1..MaxClients, j # k, j <= L - 1
        PROVE  Waiting(r, j) # Waiting(r, k)
    <3>1. Waiting(r, j) = Waiting(q, j + 1) /\ j + 1 \in 1..MaxClients /\ j + 1 <= L
        BY <2>3, <1>11, <1>13, <1>14
    <3>2. CASE k = MaxClients
        BY <3>1, <3>2, <1>13, RingSize DEF Lined, IsLine
    <3>3. CASE k # MaxClients
      <4>1. Waiting(r, k) = Waiting(q, k + 1) /\ k + 1 \in 1..MaxClients /\ j + 1 # k + 1
          BY <2>3, <3>3, <1>11, <1>13
      <4> QED
          BY <3>1, <4>1 DEF Lined, IsLine
    <3> QED
        BY <3>2, <3>3
  <2> QED
      BY <1>1, <1>9, <2>1, <2>2, <2>3, RingSize DEF IsLine
<1>16. \A k \in 1..L - 1 : k \in 1..MaxClients /\ k # MaxClients
    BY <1>1, RingSize
<1>17. q.clients[q.front] \in Clients
  <2>1. 1 <= L
      BY <1>1
  <2> QED
      BY <2>1, <1>12 DEF Lined, IsLine, Waiting
<1>18. LineLength(r) = L - 1 /\ Lined(r)
  <2>1. L - 1 \in 0..MaxClients
      BY <1>1, RingSize
  <2> QED
      BY <2>1, <1>6, <1>15, ALine
<1> QED
    BY <1>6, <1>13, <1>16, <1>17, <1>18

LEMMA EntriesOf ==
  ASSUME NEW q \in Rings
  PROVE  /\ Entries(q) = [k \in 1..QueueLength(q) |-> Waiting(q, k)]
         /\ DOMAIN Entries(q) = 1..QueueLength(q)
         /\ \A k \in 1..QueueLength(q) : Entries(q)[k] = Waiting(q, k)
BY DEF Entries, Waiting

(* Behind one who is removed the others move up. *)
LEMMA RemovedLine ==
  ASSUME NEW q \in Rings, Lined(q), NEW c, NEW L, L = LineLength(q),
         NEW r, r = Removed(q, c), r # q
  PROVE  /\ r \in Rings /\ Lined(r)
         /\ LineLength(r) = L - 1
         /\ \E p \in 1..L : /\ Waiting(q, p) = c
                            /\ \A k \in 1..L - 1 :
                                  Waiting(r, k) = IF k < p THEN Waiting(q, k) ELSE Waiting(q, k + 1)
<1>1. /\ q.front \in Slots /\ q.back \in Slots /\ L \in 1..MaxClients - 1 /\ L = QueueLength(q)
      /\ q.clients \in [Slots -> Clients \cup {NoClient}]
  <2>1. QueueLength(q) > 0
      BY EntriesOf, RingParts DEF Removed
  <2> QED
      BY <2>1, RingParts, NotFull
<1>2. (\E k \in 1..L : Waiting(q, k) = c) /\ r = MovedUp(q, c)
    BY <1>1, EntriesOf DEF Removed
<1>3. Place(q, c) \in 1..L /\ Waiting(q, Place(q, c)) = c
  <2>1. PICK k \in 1..L : Waiting(q, k) = c
      BY <1>2
  <2>2. \A j \in 1..k - 1 : j \in 1..L /\ j \in 1..MaxClients /\ k \in 1..MaxClients /\ j # k /\ j <= L
      BY <1>1, RingSize
  <2>3. \A j \in 1..k - 1 : Waiting(q, j) # c
      BY <2>1, <2>2 DEF Lined, IsLine
  <2>4. k \in DOMAIN Entries(q) /\ Entries(q)[k] = c /\ \A j \in 1..k - 1 : Entries(q)[j] # c
      BY <1>1, <2>1, <2>2, <2>3, EntriesOf
  <2>5. Place(q, c) \in DOMAIN Entries(q) /\ Entries(q)[Place(q, c)] = c
      BY <2>4 DEF Place
  <2> QED
      BY <1>1, <2>5, EntriesOf
<1> DEFINE p == Place(q, c)
           b == Minus1(q.back)
           s == [i \in Slots |-> IF \E k \in p..L : i = SlotAt(q, k) THEN q.clients[Plus1(i)] ELSE q.clients[i]]
<1>4. r = [front |-> q.front, back |-> b, clients |-> s]
  <2>1. r = [q EXCEPT !.clients = s, !.back = Minus1(@)]
      BY <1>1, <1>2 DEF MovedUp
  <2> HIDE DEF b, s
  <2> QED
      BY <2>1 DEF b, Rings
<1>5. b \in Slots /\ b = Previous(q.back)
    BY <1>1, Steps
<1>6. s \in [Slots -> Clients \cup {NoClient}]
  <2>1. \A i \in Slots : Plus1(i) \in Slots
      BY Steps
  <2> QED
      BY <1>1, <2>1
<1>7. \A i \in Slots : s[i] = IF \E k \in p..L : i = SlotAt(q, k) THEN q.clients[Plus1(i)] ELSE q.clients[i]
    OBVIOUS
<1> HIDE DEF p, b, s
<1>8. r \in Rings /\ r.front = q.front /\ r.back = b /\ r.clients = s
    BY <1>1, <1>4, <1>5, <1>6, ARing
<1>9. p \in 1..L /\ L > 0
    BY <1>1, <1>3 DEF p
<1>10. QueueLength(r) = L - 1
  <2>1. L = Span(q.front, q.back) /\ QueueLength(r) = Span(q.front, b)
      BY <1>1, <1>5, <1>8, Lengths
  <2>2. PICK f, e : f = q.front /\ e = q.back
      OBVIOUS
  <2>3. f \in Slots /\ e \in Slots /\ L = Span(f, e)
      BY <1>1, <2>1, <2>2
  <2>4. L > 0 => Span(f, Previous(e)) = L - 1
      BY ONLY <2>3, RingSize DEF Slots, Previous, Span
  <2> QED
      BY <1>5, <1>9, <2>1, <2>2, <2>4
<1>11. \A k \in 1..MaxClients : Waiting(r, k) = IF k \in p..L THEN Waiting(q, k + 1) ELSE Waiting(q, k)
  <2>1. /\ \A k \in 1..MaxClients : SlotAt(q, k) \in Slots
        /\ \A j, k \in 1..MaxClients : j # k => SlotAt(q, j) # SlotAt(q, k)
        /\ \A k \in 1..MaxClients : Plus1(SlotAt(q, k)) = SlotAt(q, k + 1)
      BY <1>1, SlotsOnce
  <2>2. \A k \in p..L : k \in 1..MaxClients
      BY <1>1, <1>9, RingSize
  <2>3. \A k \in 1..MaxClients : (\E m \in p..L : SlotAt(q, k) = SlotAt(q, m)) <=> k \in p..L
      BY <2>1, <2>2
  <2>4. \A k \in 1..MaxClients : SlotAt(r, k) = SlotAt(q, k)
      BY <1>8 DEF SlotAt
  <2> QED
      BY <1>7, <1>8, <2>1, <2>3, <2>4 DEF Waiting
<1>12. \A k \in 1..MaxClients : /\ k \in p..L => k + 1 \in 1..MaxClients
                                /\ k \in p..L /\ k <= L - 1 => k + 1 <= L
                                /\ k \in p..L /\ k > L - 1 => k + 1 > L
                                /\ k \notin p..L /\ k > L - 1 => k > L
                                /\ k <= L - 1 => k <= L
    BY <1>1, <1>9, RingSize
<1>13. \A j, k \in 1..MaxClients : /\ j # k /\ j \in p..L /\ k \in p..L => j + 1 # k + 1
                                   /\ j \in p..L /\ k \notin p..L /\ k <= L - 1 => j + 1 # k
                                   /\ ~(k > L - 1) <=> k <= L - 1
    BY <1>1, <1>9, RingSize
<1>14. IsLine(r, L - 1)
  <2>1. \A k \in 1..MaxClients : k <= L - 1 => Waiting(r, k) \in Clients
      BY <1>11, <1>12 DEF Lined, IsLine
  <2>2. \A k \in 1..MaxClients : k > L - 1 => Waiting(r, k) = NoClient
      BY <1>11, <1>12 DEF Lined, IsLine
  <2>3. ASSUME NEW j \in 1..MaxClients, NEW k \in 1..MaxClients, j # k, j <= L - 1
        PROVE  Waiting(r, j) # Waiting(r, k)
    <3>1. CASE k > L - 1
        BY <2>1, <2>2, <2>3, <3>1, RingSize
    <3>2. CASE k <= L - 1
        BY <2>3, <3>2, <1>11, <1>12, <1>13 DEF Lined, IsLine
    <3> QED
        BY <3>1, <3>2, <1>13
  <2> QED
      BY <1>1, <1>10, <2>1, <2>2, <2>3, RingSize DEF IsLine
<1>15. \A k \in 1..L - 1 : k \in 1..MaxClients /\ (k \in p..L <=> ~(k < p))
    BY <1>1, <1>9, RingSize
<1>16. Waiting(q, p) = c
    BY <1>3 DEF p
<1>17. \A k \in 1..L - 1 : Waiting(r, k) = IF k < p THEN Waiting(q, k) ELSE Waiting(q, k + 1)
    BY <1>11, <1>15
<1>18. LineLength(r) = L - 1 /\ Lined(r)
  <2>1. L - 1 \in 0..MaxClients
      BY <1>1, RingSize
  <2> QED
      BY <2>1, <1>8, <1>14, ALine
<1> QED
    BY <1>8, <1>9, <1>16, <1>17, <1>18
-----------------------------------------------------------------------------
(* What a step may make of a queue. *)
Goes(q, r) ==
    \/ r = q
    \/ \E c \in Clients : ~InQueue(q, c) /\ r = Pushed(q, c)
    \/ QueueLength(q) > 0 /\ r = Popped(q)
    \/ \E c \in Clients : r = Removed(q, c)

PlayersTyped ==
    /\ team \in [Clients -> Teams \cup {"none", "gone"}]
    /\ alive \in [Clients -> BOOLEAN] /\ class \in [Clients -> BOOLEAN] /\ sticky \in [Clients -> BOOLEAN]
    /\ following \in [Clients -> Clients \cup {NoClient}]
    /\ psClient \in [Clients -> Clients]

QueuesLined == queue \in [Teams -> Rings] /\ \A t \in Teams : Lined(queue[t])

LEMMA StaysLined ==
  ASSUME NEW q \in Rings, Lined(q), NEW r, Goes(q, r)
  PROVE  r \in Rings /\ Lined(r)
<1>1. CASE \E c \in Clients : ~InQueue(q, c) /\ r = Pushed(q, c)
    BY <1>1, PushedLine
<1>2. CASE QueueLength(q) > 0 /\ r = Popped(q)
    BY <1>2, PoppedLine
<1>3. CASE \E c \in Clients : r = Removed(q, c)
    BY <1>3, RemovedLine
<1> QED
    BY <1>1, <1>2, <1>3 DEF Goes

(* A step changes the queue of one team, or none. *)
OneQueueGoes ==
    \/ UNCHANGED queue
    \/ \E t \in Teams : \E r : Goes(queue[t], r) /\ queue' = [queue EXCEPT ![t] = r]

LEMMA QueuesGo ==
  ASSUME QueuesLined, OneQueueGoes
  PROVE  QueuesLined' /\ \A t \in Teams : Goes(queue[t], queue'[t])
<1>1. CASE UNCHANGED queue
    BY <1>1 DEF QueuesLined, Goes
<1>2. ASSUME NEW t \in Teams, NEW r, Goes(queue[t], r), queue' = [queue EXCEPT ![t] = r]
      PROVE  QueuesLined' /\ \A u \in Teams : Goes(queue[u], queue'[u])
  <2>1. r \in Rings /\ Lined(r)
      BY <1>2, StaysLined DEF QueuesLined
  <2>2. queue' \in [Teams -> Rings] /\ \A u \in Teams : queue'[u] = IF u = t THEN r ELSE queue[u]
      BY <1>2, <2>1 DEF QueuesLined
  <2>3. \A u \in Teams : Lined(queue'[u])
      BY <2>1, <2>2 DEF QueuesLined
  <2>4. QueuesLined'
      BY <2>2, <2>3 DEF QueuesLined
  <2>5. \A u \in Teams : Goes(queue[u], queue'[u])
      BY <1>2, <2>2 DEF Goes
  <2> QED
      BY <2>4, <2>5
<1> QED
    BY <1>1, <1>2 DEF OneQueueGoes

(* There is a first among those whom one may follow. *)
LEMMA TargetFound ==
  ASSUME PlayersTyped, NEW c \in Clients, Candidates(c) # {}, NEW dir \in {1, -1}
  PROVE  NewTarget(c, dir) \in Candidates(c)
<1> DEFINE S == {Distance(c, d, dir) : d \in Candidates(c)}
<1>1. \A d \in Candidates(c) : d \in Int
    BY RingSize DEF Candidates, Clients
<1>2. ASSUME NEW d \in Candidates(c)
      PROVE  Distance(c, d, dir) \in Nat
  <2> DEFINE original == IF following[c] = NoClient THEN 0 ELSE following[c]
             i == dir * (d - original) - 1
  <2>1. original \in Int
      BY RingSize DEF PlayersTyped, Clients
  <2> HIDE DEF original
  <2>2. i \in Int
      BY <1>1, <2>1
  <2>3. Distance(c, d, dir) = i % sv_maxclients
      BY DEF Distance, original
  <2> HIDE DEF i
  <2>4. i % sv_maxclients \in 0..sv_maxclients - 1
      BY <2>2, RingSize, RemainderInRange
  <2> QED
      BY <2>3, <2>4, RingSize
<1>3. PICK x \in S : \A y \in S : x <= y
  <2>1. S \in SUBSET Nat /\ S # {}
      BY <1>2
  <2> HIDE DEF S
  <2> QED
      BY <2>1, LeastNumber
<1>4. \E d \in Candidates(c) : \A e \in Candidates(c) : Distance(c, d, dir) <= Distance(c, e, dir)
    BY <1>3
<1> HIDE DEF S
<1> QED
    BY <1>4 DEF NewTarget

LEMMA OnwardTyped ==
  ASSUME PlayersTyped, NEW c \in Clients
  PROVE  Onward(c) \in Clients \cup {NoClient} /\ OnwardNumber(c) \in Clients
<1>1. CASE Candidates(c) = {}
    BY <1>1 DEF Onward, OnwardNumber
<1>2. CASE Candidates(c) # {}
  <2>1. NewTarget(c, 1) \in Candidates(c)
      BY <1>2, TargetFound
  <2>2. NewTarget(c, 1) \in Clients
      BY <2>1 DEF Candidates
  <2> QED
      BY <1>2, <2>2 DEF Onward, OnwardNumber, NumberOfTarget, PlayersTyped
<1> QED
    BY <1>1, <1>2

LEMMA LeaveTeamGoes ==
  ASSUME PlayersTyped, NEW c \in Clients, LeaveTeam(c)
  PROVE  /\ OneQueueGoes
         /\ following' \in [Clients -> Clients \cup {NoClient}] /\ psClient' \in [Clients -> Clients]
<1>1. OneQueueGoes
  <2>1. CASE team[c] \in Teams
    <3>1. Goes(queue[team[c]], Removed(queue[team[c]], psClient[c]))
        BY DEF Goes, PlayersTyped
    <3>2. queue' = [queue EXCEPT ![team[c]] = Removed(queue[team[c]], psClient[c])]
        BY <2>1 DEF LeaveTeam
    <3> QED
        BY <2>1, <3>1, <3>2 DEF OneQueueGoes
  <2>2. CASE team[c] \notin Teams
      BY <2>2 DEF LeaveTeam, OneQueueGoes
  <2> QED
      BY <2>1, <2>2
<1>2. PICK left : /\ following' = [d \in Clients |-> IF d = c THEN NoClient
                                                  ELSE IF d \in left THEN Onward(d) ELSE following[d]]
                  /\ psClient' = [d \in Clients |-> IF d = c THEN c
                                                 ELSE IF d \in left THEN OnwardNumber(d) ELSE psClient[d]]
    BY DEF LeaveTeam
<1> QED
    BY <1>1, <1>2, OnwardTyped DEF PlayersTyped

LEMMA SpawnStep ==
  ASSUME QueuesLined, PlayersTyped, SpawnNext
  PROVE  PlayersTyped' /\ OneQueueGoes
<1>1. ASSUME NEW c \in Clients, NEW t \in Teams \cup {"none"}, ChangeTeam(c, t)
      PROVE  PlayersTyped' /\ OneQueueGoes
    BY <1>1, LeaveTeamGoes DEF ChangeTeam, PlayersTyped
<1>2. ASSUME NEW c \in Clients, LeaveServer(c)
      PROVE  PlayersTyped' /\ OneQueueGoes
    BY <1>2, LeaveTeamGoes DEF LeaveServer, PlayersTyped
<1>3. ASSUME NEW c \in Clients, JoinServer(c)
      PROVE  PlayersTyped' /\ OneQueueGoes
    BY <1>3 DEF JoinServer, PlayersTyped, OneQueueGoes
<1>4. ASSUME NEW c \in Clients, ChooseClass(c)
      PROVE  PlayersTyped' /\ OneQueueGoes
  <2>1. PlayersTyped'
      BY <1>4 DEF ChooseClass, StopFollowing, PlayersTyped
  <2>2. CASE InQueue(queue[team[c]], c)
      BY <1>4, <2>1, <2>2 DEF ChooseClass, OneQueueGoes
  <2>3. CASE ~InQueue(queue[team[c]], c)
    <3>1. queue' = [queue EXCEPT ![team[c]] = Pushed(queue[team[c]], c)] /\ team[c] \in Teams
        BY <1>4, <2>3 DEF ChooseClass
    <3>2. Goes(queue[team[c]], Pushed(queue[team[c]], c))
        BY <2>3 DEF Goes
    <3> QED
        BY <2>1, <3>1, <3>2 DEF OneQueueGoes
  <2> QED
      BY <2>1, <2>2, <2>3
<1>5. ASSUME NEW c \in Clients, GiveUpPlace(c)
      PROVE  PlayersTyped' /\ OneQueueGoes
  <2>1. PlayersTyped'
      BY <1>5 DEF GiveUpPlace, StopFollowing, PlayersTyped
  <2>2. queue' = [queue EXCEPT ![team[c]] = Removed(queue[team[c]], c)] /\ team[c] \in Teams
      BY <1>5 DEF GiveUpPlace
  <2>3. Goes(queue[team[c]], Removed(queue[team[c]], c))
      BY DEF Goes
  <2> QED
      BY <2>1, <2>2, <2>3 DEF OneQueueGoes
<1>6. ASSUME NEW c \in Clients, Die(c)
      PROVE  PlayersTyped' /\ OneQueueGoes
  <2>1. PICK left, kept :
           /\ following' = [d \in Clients |-> IF d \in left THEN Onward(d) ELSE following[d]]
           /\ psClient' = [d \in Clients |-> IF d \in left THEN OnwardNumber(d)
                                             ELSE IF d \in kept THEN c ELSE psClient[d]]
      BY <1>6 DEF Die
  <2>2. following' \in [Clients -> Clients \cup {NoClient}] /\ psClient' \in [Clients -> Clients]
      BY <2>1, OnwardTyped DEF PlayersTyped
  <2> QED
      BY <1>6, <2>2 DEF Die, PlayersTyped, OneQueueGoes
<1>7. ASSUME NEW c \in Clients, NEW dir \in {1, -1}, FollowNext(c, dir)
      PROVE  PlayersTyped' /\ OneQueueGoes
  <2>1. NewTarget(c, dir) \in Clients
      BY <1>7, TargetFound DEF FollowNext, Candidates
  <2>2. NumberOfTarget(c, NewTarget(c, dir)) \in Clients
      BY <2>1 DEF NumberOfTarget, PlayersTyped
  <2> QED
      BY <1>7, <2>1, <2>2 DEF FollowNext, PlayersTyped, OneQueueGoes
<1>8. ASSUME NEW c \in Clients, ChangeSticky(c) \/ FollowNoMore(c) \/ EndFrame(c)
      PROVE  PlayersTyped' /\ OneQueueGoes
  <2>1. CASE ChangeSticky(c)
      BY <2>1 DEF ChangeSticky, PlayersTyped, OneQueueGoes
  <2>2. CASE FollowNoMore(c)
      BY <2>2 DEF FollowNoMore, StopFollowing, PlayersTyped, OneQueueGoes
  <2>3. CASE EndFrame(c)
      BY <2>3 DEF EndFrame, PlayersTyped, OneQueueGoes
  <2> QED
      BY <1>8, <2>1, <2>2, <2>3
<1>10. ASSUME NEW c \in Clients, NEW d \in Clients, FollowNamed(c, d)
       PROVE  PlayersTyped' /\ OneQueueGoes
    BY <1>10 DEF FollowNamed, PlayersTyped, OneQueueGoes
<1>9. ASSUME NEW t \in Teams, SpawnFirst(t)
      PROVE  PlayersTyped' /\ OneQueueGoes
  <2> DEFINE c == queue[t].clients[queue[t].front]
  <2>1. /\ QueueLength(queue[t]) > 0 /\ queue' = [queue EXCEPT ![t] = Popped(queue[t])]
        /\ alive' = [alive EXCEPT ![c] = class[c]]
        /\ following' = [following EXCEPT ![c] = NoClient] /\ psClient' = [psClient EXCEPT ![c] = c]
        /\ UNCHANGED <<team, class, sticky>>
      BY <1>9 DEF SpawnFirst, StopFollowing
  <2>2. c \in Clients
      BY <2>1, PoppedLine DEF QueuesLined
  <2> HIDE DEF c
  <2>3. PlayersTyped'
      BY <2>1, <2>2 DEF PlayersTyped
  <2>4. Goes(queue[t], Popped(queue[t]))
      BY <2>1 DEF Goes
  <2> QED
      BY <2>1, <2>3, <2>4 DEF OneQueueGoes
<1> QED
    BY <1>1, <1>2, <1>3, <1>4, <1>5, <1>6, <1>7, <1>8, <1>9, <1>10 DEF SpawnNext

LEMMA EmptyLine == EmptyQueue \in Rings /\ LineLength(EmptyQueue) = 0 /\ Lined(EmptyQueue)
<1>1. 0 \in Slots /\ MaxClients - 1 \in Slots
    BY RingSize DEF Slots
<1> DEFINE s == [i \in Slots |-> NoClient]
<1>2. s \in [Slots -> Clients \cup {NoClient}] /\ \A i \in Slots : s[i] = NoClient
    OBVIOUS
<1>3. EmptyQueue = [front |-> 0, back |-> MaxClients - 1, clients |-> s]
    BY DEF EmptyQueue
<1> HIDE DEF s
<1>4. EmptyQueue \in Rings /\ EmptyQueue.front = 0 /\ EmptyQueue.back = MaxClients - 1 /\ EmptyQueue.clients = s
    BY <1>1, <1>2, <1>3, ARing
<1>5. QueueLength(EmptyQueue) = 0
  <2>1. QueueLength(EmptyQueue) = Span(0, MaxClients - 1)
      BY <1>1, <1>4, Lengths
  <2> QED
      BY <2>1, RingSize DEF Span
<1>6. \A k \in 1..MaxClients : SlotAt(EmptyQueue, k) \in Slots
    BY <1>1, <1>4, SlotsOnce
<1>7. \A k \in 1..MaxClients : Waiting(EmptyQueue, k) = NoClient /\ ~(k <= 0)
    BY <1>2, <1>4, <1>6, RingSize DEF Waiting
<1>8. IsLine(EmptyQueue, 0) /\ 0 \in 0..MaxClients
    BY <1>5, <1>7, RingSize DEF IsLine
<1> QED
    BY <1>4, <1>8, ALine

LEMMA QueueInvParts == QueueInv <=> QueuesLined /\ PlayersTyped
<1>1. QueueInv <=> /\ queue \in [Teams -> Rings] /\ PlayersTyped
                   /\ \A t \in Teams : Ordered(queue[t])
    BY DEF QueueInv, SpawnTypeOK, PlayersTyped, Ordered, Rings
<1> QED
    BY <1>1, OrderedIsLined DEF QueuesLined

(* A ring of MAX_CLIENTS slots never loses one who waits, or holds one     *)
(* twice, and its search and its walks see the same clients (g_main.c:886, *)
(* 926), through whatever series of deaths, changes of team and            *)
(* departures; or all its slots are taken, and the walks see none. *)
THEOREM QueuesHoldThoseWhoWait == SpawnSpec => []QueueInv
<1> DEFINE I == QueuesLined /\ PlayersTyped
<1>1. SpawnInit => I
    BY EmptyLine DEF SpawnInit, QueuesLined, PlayersTyped, Teams
<1>2. I /\ [SpawnNext]_spawnVars => I'
  <2>1. I /\ SpawnNext => I'
      BY SpawnStep, QueuesGo
  <2>2. I /\ UNCHANGED spawnVars => I'
      BY DEF spawnVars, QueuesLined, PlayersTyped
  <2> QED
      BY <2>1, <2>2
<1>3. I => QueueInv
    BY QueueInvParts
<1> HIDE DEF I
<1> QED
    BY <1>1, <1>2, <1>3, PTL DEF SpawnSpec
-----------------------------------------------------------------------------
(* Queues as lines. *)
LEMMA LineOf ==
  ASSUME NEW q \in Rings, Lined(q)
  PROVE  /\ Line(q) \in Seq(Clients) /\ Len(Line(q)) = LineLength(q)
         /\ DOMAIN Line(q) = 1..LineLength(q)
         /\ \A k \in 1..LineLength(q) : Line(q)[k] = Waiting(q, k)
<1>1. LineLength(q) \in 0..MaxClients
    BY ALine
<1>2. \A k \in 1..LineLength(q) : k \in 1..MaxClients /\ k <= LineLength(q)
    BY <1>1, RingSize
<1>3. /\ Line(q) = [k \in 1..LineLength(q) |-> Waiting(q, k)]
      /\ \A k \in 1..LineLength(q) : Waiting(q, k) \in Clients
    BY <1>2 DEF Line, Waiting, Lined, IsLine
<1>4. Line(q) \in [1..LineLength(q) -> Clients]
    BY <1>3
<1>5. Line(q) \in Seq(Clients) /\ Len(Line(q)) = LineLength(q)
    BY <1>1, <1>4
<1> QED
    BY <1>3, <1>5

Enters(s, z) == \E c \in Clients : (\A i \in DOMAIN s : s[i] # c) /\ z = Append(s, c)
Served(s, z) == s # <<>> /\ z = Tail(s)
Leaves(s, z) == \E i \in DOMAIN s : z = SubSeq(s, 1, i - 1) \o SubSeq(s, i + 1, Len(s))

LEMMA PushedJoins ==
  ASSUME NEW q \in Rings, Lined(q),
         NEW c \in Clients, ~InQueue(q, c), NEW r, r = Pushed(q, c)
  PROVE  Enters(Line(q), Line(r))
<1> DEFINE s == Line(q)
           z == Line(r)
           L == LineLength(q)
<1>1. /\ r \in Rings /\ Lined(r) /\ LineLength(r) = L + 1
      /\ \A k \in 1..L : Waiting(r, k) = Waiting(q, k)
      /\ Waiting(r, L + 1) = c
    BY PushedLine
<1>2. \A k \in 1..L : Waiting(q, k) # c
    BY WhoWaits
<1>3. /\ s \in Seq(Clients) /\ Len(s) = L /\ DOMAIN s = 1..L
      /\ \A k \in 1..L : s[k] = Waiting(q, k)
    BY LineOf
<1>4. /\ z \in Seq(Clients) /\ Len(z) = L + 1
      /\ \A k \in 1..L + 1 : z[k] = Waiting(r, k)
    BY <1>1, LineOf
<1>5. L \in Nat
    BY ALine
<1> HIDE DEF s, z, L
<1>6. /\ Append(s, c) \in Seq(Clients) /\ Len(Append(s, c)) = L + 1
      /\ \A k \in 1..L : Append(s, c)[k] = s[k]
      /\ Append(s, c)[L + 1] = c
    BY <1>3, AppendProperties
<1>7. \A k \in 1..L + 1 : k \in 1..L \/ k = L + 1
    BY <1>5
<1>8. \A k \in 1..Len(z) : z[k] = Append(s, c)[k]
    BY <1>1, <1>3, <1>4, <1>6, <1>7
<1>9. z = Append(s, c)
    BY <1>4, <1>6, <1>8, SeqEqual
<1> QED
    BY <1>2, <1>3, <1>9 DEF Enters, s, z

LEMMA PoppedIsServed ==
  ASSUME NEW q \in Rings, Lined(q), QueueLength(q) > 0, NEW r, r = Popped(q)
  PROVE  Served(Line(q), Line(r))
<1> DEFINE s == Line(q)
           z == Line(r)
           L == LineLength(q)
<1>1. /\ r \in Rings /\ Lined(r) /\ LineLength(r) = L - 1
      /\ \A k \in 1..L - 1 : Waiting(r, k) = Waiting(q, k + 1)
    BY PoppedLine
<1>2. L \in Nat /\ L > 0
    BY NotFull, RingSize
<1>3. /\ s \in Seq(Clients) /\ Len(s) = L
      /\ \A k \in 1..L : s[k] = Waiting(q, k)
    BY LineOf
<1>4. /\ z \in Seq(Clients) /\ Len(z) = L - 1
      /\ \A k \in 1..L - 1 : z[k] = Waiting(r, k)
    BY <1>1, LineOf
<1> HIDE DEF s, z, L
<1>5. s # <<>>
    BY <1>2, <1>3
<1>6. /\ Tail(s) \in Seq(Clients) /\ Len(Tail(s)) = L - 1
      /\ \A k \in 1..L - 1 : Tail(s)[k] = s[k + 1]
    BY <1>3, <1>5, HeadTailProperties
<1>7. \A k \in 1..L - 1 : k + 1 \in 1..L
    BY <1>2
<1>8. \A k \in 1..Len(z) : z[k] = Tail(s)[k]
    BY <1>1, <1>3, <1>4, <1>6, <1>7
<1>9. z = Tail(s)
    BY <1>4, <1>6, <1>8, SeqEqual
<1> QED
    BY <1>5, <1>9 DEF Served, s, z

LEMMA WithoutOne ==
  ASSUME NEW S, NEW s \in Seq(S), NEW L, L = Len(s), NEW p \in 1..L
  PROVE  LET t == SubSeq(s, 1, p - 1) \o SubSeq(s, p + 1, L)
         IN  /\ t \in Seq(S) /\ Len(t) = L - 1
             /\ \A k \in 1..L - 1 : t[k] = IF k < p THEN s[k] ELSE s[k + 1]
<1>1. L \in Nat /\ p \in 1..L
    BY LenProperties
<1>2. \A i \in 1..L : s[i] \in S
    BY ElementOfSeq
<1> DEFINE a == SubSeq(s, 1, p - 1)
           b == SubSeq(s, p + 1, L)
<1>3. a \in Seq(S) /\ Len(a) = p - 1 /\ \A i \in 1..p - 1 : a[i] = s[i]
  <2>1. \A i \in 1..p - 1 : s[i] \in S
      BY <1>1, <1>2
  <2>2. /\ a \in Seq(S) /\ Len(a) = IF 1 <= p - 1 THEN (p - 1) - 1 + 1 ELSE 0
        /\ \A i \in 1..(p - 1) - 1 + 1 : a[i] = s[1 + i - 1]
      BY <1>1, <2>1, SubSeqProperties
  <2> HIDE DEF a
  <2>3. \A i \in 1..p - 1 : i \in 1..(p - 1) - 1 + 1 /\ 1 + i - 1 = i
      BY <1>1
  <2> QED
      BY <1>1, <2>2, <2>3
<1>4. b \in Seq(S) /\ Len(b) = L - p /\ \A i \in 1..L - p : b[i] = s[p + i]
  <2>1. \A i \in p + 1..L : s[i] \in S
      BY <1>1, <1>2
  <2>2. /\ b \in Seq(S) /\ Len(b) = IF p + 1 <= L THEN L - (p + 1) + 1 ELSE 0
        /\ \A i \in 1..L - (p + 1) + 1 : b[i] = s[p + 1 + i - 1]
      BY <1>1, <2>1, SubSeqProperties
  <2> HIDE DEF b
  <2>3. \A i \in 1..L - p : i \in 1..L - (p + 1) + 1 /\ p + 1 + i - 1 = p + i
      BY <1>1
  <2> QED
      BY <1>1, <2>2, <2>3
<1> DEFINE t == a \o b
<1> HIDE DEF a, b
<1>5. /\ t \in Seq(S) /\ Len(t) = Len(a) + Len(b)
      /\ \A i \in 1..Len(a) + Len(b) : t[i] = IF i <= Len(a) THEN a[i] ELSE b[i - Len(a)]
    BY <1>3, <1>4, ConcatProperties
<1> HIDE DEF t
<1>6. Len(a) + Len(b) = L - 1
    BY <1>1, <1>3, <1>4
<1>7. Len(t) = L - 1 /\ \A i \in 1..L - 1 : t[i] = IF i <= p - 1 THEN a[i] ELSE b[i - (p - 1)]
    BY <1>3, <1>5, <1>6
<1>8. ASSUME NEW k \in 1..L - 1
      PROVE  t[k] = IF k < p THEN s[k] ELSE s[k + 1]
  <2>1. t[k] = IF k <= p - 1 THEN a[k] ELSE b[k - (p - 1)]
      BY <1>7
  <2>2. CASE k < p
      BY <1>1, <1>3, <2>1, <2>2
  <2>3. CASE k >= p
    <3>1. k - (p - 1) \in 1..L - p /\ p + (k - (p - 1)) = k + 1
        BY <1>1, <2>3
    <3>2. b[k - (p - 1)] = s[k + 1]
        BY <1>4, <3>1
    <3> QED
        BY <1>1, <2>1, <2>3, <3>2
  <2> QED
      BY <1>1, <2>2, <2>3
<1> QED
    BY <1>5, <1>7, <1>8 DEF a, b, t

LEMMA RemovedLeaves ==
  ASSUME NEW q \in Rings, Lined(q), NEW c, NEW r, r = Removed(q, c), r # q
  PROVE  Leaves(Line(q), Line(r))
<1> DEFINE s == Line(q)
           z == Line(r)
           L == LineLength(q)
<1>1. /\ r \in Rings /\ Lined(r) /\ LineLength(r) = L - 1
      /\ \E p \in 1..L : \A k \in 1..L - 1 :
            Waiting(r, k) = IF k < p THEN Waiting(q, k) ELSE Waiting(q, k + 1)
    BY RemovedLine
<1>2. PICK p \in 1..L : \A k \in 1..L - 1 :
         Waiting(r, k) = IF k < p THEN Waiting(q, k) ELSE Waiting(q, k + 1)
    BY <1>1
<1>3. /\ s \in Seq(Clients) /\ Len(s) = L /\ DOMAIN s = 1..L
      /\ \A k \in 1..L : s[k] = Waiting(q, k)
    BY LineOf
<1>4. /\ z \in Seq(Clients) /\ Len(z) = L - 1
      /\ \A k \in 1..L - 1 : z[k] = Waiting(r, k)
    BY <1>1, LineOf
<1>5. L \in Nat
    BY ALine
<1> HIDE DEF s, z, L
<1> DEFINE t == SubSeq(s, 1, p - 1) \o SubSeq(s, p + 1, Len(s))
<1>6. /\ t \in Seq(Clients) /\ Len(t) = L - 1
      /\ \A k \in 1..L - 1 : t[k] = IF k < p THEN s[k] ELSE s[k + 1]
  <2>1. PICK line, number : line = s /\ number = L
      OBVIOUS
  <2>2. line \in Seq(Clients) /\ number = Len(line) /\ p \in 1..number
      BY <1>3, <2>1
  <2> DEFINE shorter == SubSeq(line, 1, p - 1) \o SubSeq(line, p + 1, number)
  <2>3. /\ shorter \in Seq(Clients) /\ Len(shorter) = number - 1
        /\ \A k \in 1..number - 1 : shorter[k] = IF k < p THEN line[k] ELSE line[k + 1]
      BY ONLY <2>2, WithoutOne
  <2>4. shorter = t
      BY <2>1, <2>2
  <2> HIDE DEF t, shorter
  <2> QED
      BY <2>1, <2>3, <2>4
<1> HIDE DEF t
<1>7. \A k \in 1..L - 1 : k \in 1..L /\ k + 1 \in 1..L
    BY <1>5
<1>8. \A k \in 1..Len(z) : z[k] = t[k]
    BY <1>2, <1>3, <1>4, <1>6, <1>7
<1>9. z = t
    BY <1>4, <1>6, <1>8, SeqEqual
<1> QED
    BY <1>2, <1>3, <1>9 DEF Leaves, s, z, t

LEMMA LineGoes ==
  ASSUME NEW q \in Rings, Lined(q), NEW r, Goes(q, r)
  PROVE  \/ Line(r) = Line(q) \/ Enters(Line(q), Line(r))
         \/ Served(Line(q), Line(r)) \/ Leaves(Line(q), Line(r))
BY PushedJoins, PoppedIsServed, RemovedLeaves DEF Goes

LEMMA NothingInLine == Line(EmptyQueue) = <<>>
<1>1. Line(EmptyQueue) \in Seq(Clients) /\ Len(Line(EmptyQueue)) = 0
    BY EmptyLine, LineOf
<1> QED
    BY <1>1, EmptySeq

(* Whatever slots of the ring a queue has come to, it is a line: one comes *)
(* behind those who wait, once, and is served when those before are served *)
(* or gone (G_PushSpawnQueue, G_PopSpawnQueue, G_RemoveFromSpawnQueue). *)
THEOREM QueuesServeInOrder == SpawnSpec => QueuesAreFair
<1>1. SpawnInit => AliensWait!FQInit /\ HumansWait!FQInit
    BY NothingInLine DEF SpawnInit, AliensWait!FQInit, HumansWait!FQInit, Teams
<1>2. ASSUME QueueInv, [SpawnNext]_spawnVars
      PROVE  \A t \in Teams : LET s == Line(queue[t])
                                  z == Line(queue'[t])
                              IN  z = s \/ Enters(s, z) \/ Served(s, z) \/ Leaves(s, z)
  <2>1. QueuesLined /\ PlayersTyped
      BY <1>2, QueueInvParts
  <2>2. CASE SpawnNext
    <3>1. \A t \in Teams : Goes(queue[t], queue'[t])
        BY <2>1, <2>2, SpawnStep, QueuesGo
    <3> QED
        BY <2>1, <3>1, LineGoes DEF QueuesLined
  <2>3. CASE UNCHANGED spawnVars
      BY <2>3 DEF spawnVars
  <2> QED
      BY <1>2, <2>2, <2>3
<1>3. QueueInv /\ [SpawnNext]_spawnVars => [AliensWait!FQNext]_(Line(queue["aliens"]))
  <2> SUFFICES ASSUME QueueInv, [SpawnNext]_spawnVars
               PROVE  [AliensWait!FQNext]_(Line(queue["aliens"]))
      OBVIOUS
  <2> DEFINE s == Line(queue["aliens"])
             z == Line(queue'["aliens"])
  <2>1. z = s \/ Enters(s, z) \/ Served(s, z) \/ Leaves(s, z)
      BY <1>2 DEF Teams
  <2> QED
      BY <2>1 DEF Enters, Served, Leaves, AliensWait!FQNext, AliensWait!Join, AliensWait!Serve,
                  AliensWait!Leave, AliensWait!RemoveAt
<1>4. QueueInv /\ [SpawnNext]_spawnVars => [HumansWait!FQNext]_(Line(queue["humans"]))
  <2> SUFFICES ASSUME QueueInv, [SpawnNext]_spawnVars
               PROVE  [HumansWait!FQNext]_(Line(queue["humans"]))
      OBVIOUS
  <2> DEFINE s == Line(queue["humans"])
             z == Line(queue'["humans"])
  <2>1. z = s \/ Enters(s, z) \/ Served(s, z) \/ Leaves(s, z)
      BY <1>2 DEF Teams
  <2> QED
      BY <2>1 DEF Enters, Served, Leaves, HumansWait!FQNext, HumansWait!Join, HumansWait!Serve,
                  HumansWait!Leave, HumansWait!RemoveAt
<1> QED
    BY <1>1, <1>3, <1>4, QueuesHoldThoseWhoWait, PTL
       DEF SpawnSpec, QueuesAreFair, AliensWait!FQSpec, HumansWait!FQSpec
-----------------------------------------------------------------------------
(* Places. *)
LEMMA PushedKeeps ==
  ASSUME NEW q \in Rings, Lined(q), NEW d \in Clients, ~InQueue(q, d), NEW c \in Clients, InQueue(q, c)
  PROVE  InQueue(Pushed(q, d), c)
<1> DEFINE r == Pushed(q, d)
           L == LineLength(q)
<1>1. /\ r \in Rings /\ Lined(r) /\ LineLength(r) = L + 1
      /\ \A k \in 1..L : Waiting(r, k) = Waiting(q, k)
    BY PushedLine
<1>2. L \in 0..MaxClients
    BY ALine
<1>3. PICK k \in 1..L : Waiting(q, k) = c
    BY WhoWaits
<1> HIDE DEF r, L
<1>4. k \in 1..L + 1 /\ Waiting(r, k) = c
    BY <1>1, <1>2, <1>3
<1>5. InQueue(r, c)
    BY <1>1, <1>4, WhoWaits
<1> QED
    BY <1>5 DEF r

LEMMA PoppedKeeps ==
  ASSUME NEW q \in Rings, Lined(q), QueueLength(q) > 0,
         NEW c \in Clients, InQueue(q, c), c # q.clients[q.front]
  PROVE  InQueue(Popped(q), c)
<1> DEFINE r == Popped(q)
           L == LineLength(q)
<1>1. /\ r \in Rings /\ Lined(r) /\ LineLength(r) = L - 1
      /\ \A k \in 1..L - 1 : Waiting(r, k) = Waiting(q, k + 1)
    BY PoppedLine
<1>2. L \in 0..MaxClients
    BY ALine
<1>3. PICK k \in 1..L : Waiting(q, k) = c
    BY WhoWaits
<1>4. Waiting(q, 1) = q.clients[q.front]
    BY SlotsOnce, RingParts DEF Waiting
<1> HIDE DEF r, L
<1>5. k - 1 \in 1..L - 1 /\ (k - 1) + 1 = k
    BY <1>2, <1>3, <1>4
<1>6. InQueue(r, c)
    BY <1>1, <1>3, <1>5, WhoWaits
<1> QED
    BY <1>6 DEF r

LEMMA RemovedKeeps ==
  ASSUME NEW q \in Rings, Lined(q), NEW d, NEW c \in Clients, InQueue(q, c), c # d
  PROVE  InQueue(Removed(q, d), c)
<1> DEFINE r == Removed(q, d)
           L == LineLength(q)
<1>1. CASE r = q
    BY <1>1
<1>2. CASE r # q
  <2>1. /\ r \in Rings /\ Lined(r) /\ LineLength(r) = L - 1
        /\ \E p \in 1..L : /\ Waiting(q, p) = d
                           /\ \A k \in 1..L - 1 :
                                 Waiting(r, k) = IF k < p THEN Waiting(q, k) ELSE Waiting(q, k + 1)
      BY <1>2, RemovedLine
  <2>2. PICK p \in 1..L : /\ Waiting(q, p) = d
                          /\ \A k \in 1..L - 1 :
                                Waiting(r, k) = IF k < p THEN Waiting(q, k) ELSE Waiting(q, k + 1)
      BY <2>1
  <2>3. L \in 0..MaxClients
      BY ALine
  <2>4. PICK k \in 1..L : Waiting(q, k) = c
      BY WhoWaits
  <2> HIDE DEF r, L
  <2>5. k # p
      BY <2>2, <2>4
  <2>6. CASE k < p
    <3>1. k \in 1..L - 1
        BY <2>3, <2>6
    <3>2. Waiting(r, k) = c
        BY <2>2, <2>4, <2>6, <3>1
    <3> QED
        BY <2>1, <3>1, <3>2, WhoWaits DEF r
  <2>7. CASE p < k
    <3>1. k - 1 \in 1..L - 1 /\ (k - 1) + 1 = k /\ ~(k - 1 < p)
        BY <2>3, <2>7
    <3>2. Waiting(r, k - 1) = c
        BY <2>2, <2>4, <3>1
    <3> QED
        BY <2>1, <3>1, <3>2, WhoWaits DEF r
  <2> QED
      BY <2>3, <2>5, <2>6, <2>7
<1> QED
    BY <1>1, <1>2

(* For whom a place may go. *)
MayLose(t, c) ==
    \/ UNCHANGED team /\ (HasTurn(t, c) \/ GivesUp(t, c))
    \/ \E d \in Clients : team[d] = t /\ team'[d] # t /\ psClient[d] = c

LEMMA LeaverTakes ==
  ASSUME QueuesLined, PlayersTyped, NEW d \in Clients, LeaveTeam(d), team'[d] # team[d],
         NEW t \in Teams, NEW c \in Clients, LosesPlace(t, c)
  PROVE  MayLose(t, c)
<1>1. team[d] = t /\ queue'[t] = Removed(queue[t], psClient[d])
    BY DEF LeaveTeam, LosesPlace, QueuesLined
<1>2. psClient[d] = c
    BY <1>1, RemovedKeeps DEF LosesPlace, QueuesLined
<1> QED
    BY <1>1, <1>2 DEF MayLose

LEMMA PlacesStep ==
  ASSUME QueuesLined, PlayersTyped, SpawnNext, NEW t \in Teams, NEW c \in Clients, LosesPlace(t, c)
  PROVE  MayLose(t, c)
<1> USE DEF QueuesLined
<1>1. ASSUME NEW d \in Clients, NEW u \in Teams \cup {"none"}, ChangeTeam(d, u)
      PROVE  MayLose(t, c)
    BY <1>1, LeaverTakes DEF ChangeTeam, PlayersTyped
<1>2. ASSUME NEW d \in Clients, LeaveServer(d)
      PROVE  MayLose(t, c)
    BY <1>2, LeaverTakes DEF LeaveServer, PlayersTyped
<1>3. ASSUME NEW d \in Clients, ChooseClass(d)
      PROVE  FALSE
  <2>1. ~InQueue(queue[t], d) /\ queue'[t] = Pushed(queue[t], d)
      BY <1>3 DEF ChooseClass, LosesPlace
  <2> QED
      BY <2>1, PushedKeeps DEF LosesPlace
<1>4. ASSUME NEW d \in Clients, GiveUpPlace(d)
      PROVE  MayLose(t, c)
  <2>1. team[d] = t /\ queue'[t] = Removed(queue[t], d)
      BY <1>4 DEF GiveUpPlace, LosesPlace
  <2>2. c = d
      BY <2>1, RemovedKeeps DEF LosesPlace
  <2>3. class'[d] = FALSE /\ UNCHANGED team
      BY <1>4 DEF GiveUpPlace, PlayersTyped
  <2> QED
      BY <2>1, <2>2, <2>3 DEF MayLose, GivesUp
<1>5. ASSUME NEW u \in Teams, SpawnFirst(u)
      PROVE  MayLose(t, c)
  <2> DEFINE d == queue[u].clients[queue[u].front]
  <2>1. u = t /\ QueueLength(queue[t]) > 0 /\ queue'[t] = Popped(queue[t])
      BY <1>5 DEF SpawnFirst, LosesPlace
  <2>2. c = d
      BY <2>1, PoppedKeeps DEF LosesPlace
  <2>3. alive' = [alive EXCEPT ![d] = class[d]] /\ UNCHANGED team
      BY <1>5 DEF SpawnFirst
  <2> HIDE DEF d
  <2>4. alive'[c] = class[c]
      BY <2>2, <2>3 DEF PlayersTyped
  <2> QED
      BY <2>1, <2>2, <2>3, <2>4 DEF MayLose, HasTurn, d
<1>6. CASE UNCHANGED queue
    BY <1>6 DEF LosesPlace
<1>7. \/ \E d \in Clients : JoinServer(d) \/ ChangeSticky(d) \/ Die(d)
      \/ \E d \in Clients, dir \in {1, -1} : FollowNext(d, dir)
      \/ \E d, e \in Clients : FollowNamed(d, e)
      \/ \E d \in Clients : FollowNoMore(d) \/ EndFrame(d)
      => UNCHANGED queue
    BY DEF JoinServer, ChangeSticky, Die, FollowNext, FollowNamed, FollowNoMore, EndFrame
<1> QED
    BY <1>1, <1>2, <1>3, <1>4, <1>5, <1>6, <1>7 DEF SpawnNext

(* Who waits keeps its place until its turn, or until it gives it up, or   *)
(* until one of the team leaves it with its number (G_LeaveTeam,           *)
(* g_team.c:151): no death, push, join or change of whom one follows       *)
(* takes a place, and no removal takes that of another client. *)
THEOREM PlacesAreKept == SpawnSpec => PlacesKept
<1>1. ASSUME QueueInv, [SpawnNext]_spawnVars
      PROVE  [\A t \in Teams : \A c \in Clients : LosesPlace(t, c) => MayLose(t, c)]_spawnVars
  <2>1. QueuesLined /\ PlayersTyped
      BY <1>1, QueueInvParts
  <2> QED
      BY <1>1, <2>1, PlacesStep
<1>2. ASSUME QueueInv, [SpawnNext]_spawnVars
      PROVE  [\A t \in Teams : \A c \in Clients : LosesPlace(t, c) =>
                 \/ UNCHANGED team /\ (HasTurn(t, c) \/ GivesUp(t, c))
                 \/ \E d \in Clients : team[d] = t /\ team'[d] # t /\ psClient[d] = c]_spawnVars
    BY <1>1, <1>2 DEF MayLose
<1> QED
    BY <1>2, QueuesHoldThoseWhoWait, PTL DEF SpawnSpec, PlacesKept

-----------------------------------------------------------------------------
(* Game memory. *)

(* The sizes of blocks by their addresses: each in the pool, none over     *)
(* another. *)
BlockSizes == UNION {[X -> 1..PoolSize] : X \in SUBSET Addresses}
Packed(f) ==
    /\ f \in BlockSizes
    /\ \A a \in DOMAIN f : a + f[a] <= PoolSize
    /\ \A a, b \in DOMAIN f : a # b => a + f[a] <= b \/ b + f[b] <= a
Covered(f) == {u \in Addresses : \E a \in DOMAIN f : a <= u /\ u < a + f[a]}

LEMMA PoolIsNumber == PoolSize \in Nat \ {0} /\ Null \notin Addresses
BY PoolAssumption

LEMMA PackedParts ==
  ASSUME NEW f, Packed(f)
  PROVE  DOMAIN f \subseteq Addresses /\ f \in [DOMAIN f -> 1..PoolSize]
BY DEF Packed, BlockSizes

LEMMA UnitsAre ==
  ASSUME NEW a \in Int, NEW n \in Int
  PROVE  \A u \in Int : u \in Units(a, n) <=> a <= u /\ u < a + n
BY DEF Units

(* A block is taken away; one is put where nothing is; one becomes shorter *)
(* or longer at its end. *)
LEMMA BlockRemoved ==
  ASSUME NEW f, Packed(f), NEW a \in DOMAIN f
  PROVE  /\ Packed(Without(f, a))
         /\ Covered(Without(f, a)) = Covered(f) \ Units(a, f[a])
         /\ Units(a, f[a]) \subseteq Covered(f)
<1>1. DOMAIN f \subseteq Addresses /\ f \in [DOMAIN f -> 1..PoolSize]
    BY PackedParts
<1> DEFINE g == Without(f, a)
<1>2. DOMAIN g = DOMAIN f \ {a} /\ (\A b \in DOMAIN g : g[b] = f[b]) /\ g = [b \in DOMAIN g |-> g[b]]
    BY DEF Without
<1> HIDE DEF g
<1>3. Packed(g)
  <2>1. g \in BlockSizes
      BY <1>1, <1>2 DEF BlockSizes
  <2> QED
      BY <1>2, <2>1 DEF Packed
<1>4. \A u \in Units(a, f[a]) : u \in Addresses
    BY <1>1, PoolIsNumber DEF Units, Packed, Addresses
<1>5. \A u \in Addresses : u \in Units(a, f[a]) <=> a <= u /\ u < a + f[a]
    BY <1>1, UnitsAre, PoolIsNumber DEF Addresses
<1>6. ASSUME NEW u \in Addresses
      PROVE  u \in Covered(g) <=> u \in Covered(f) /\ u \notin Units(a, f[a])
  <2>1. \A b \in DOMAIN g : b <= u /\ u < b + g[b] => ~(a <= u /\ u < a + f[a])
      BY <1>1, <1>2, PoolIsNumber DEF Packed, Addresses
  <2> QED
      BY <1>2, <1>5, <2>1 DEF Covered
<1>7. Units(a, f[a]) \subseteq Covered(f)
    BY <1>4, <1>5 DEF Covered
<1>8. Covered(g) = Covered(f) \ Units(a, f[a])
    BY <1>6 DEF Covered
<1> QED
    BY <1>3, <1>7, <1>8 DEF g

LEMMA BlockAdded ==
  ASSUME NEW f, Packed(f), NEW a \in Addresses, NEW n \in 1..PoolSize, a + n <= PoolSize,
         Units(a, n) \cap Covered(f) = {}
  PROVE  /\ Packed(Added(f, a, n))
         /\ Covered(Added(f, a, n)) = Covered(f) \cup Units(a, n)
<1>1. DOMAIN f \subseteq Addresses /\ f \in [DOMAIN f -> 1..PoolSize]
    BY PackedParts
<1>2. \A u \in Int : u \in Units(a, n) <=> a <= u /\ u < a + n
    BY UnitsAre, PoolIsNumber DEF Addresses
<1>3. \A b \in DOMAIN f : a + n <= b \/ b + f[b] <= a
  <2> SUFFICES ASSUME NEW b \in DOMAIN f, ~(a + n <= b), ~(b + f[b] <= a) PROVE FALSE
      OBVIOUS
  <2> DEFINE u == IF a <= b THEN b ELSE a
  <2>1. u \in Addresses /\ u \in Int /\ a <= u /\ u < a + n /\ b <= u /\ u < b + f[b]
      BY <1>1, PoolIsNumber DEF Addresses
  <2> QED
      BY <1>2, <2>1 DEF Covered
<1>4. a \notin DOMAIN f
    BY <1>1, <1>3, PoolIsNumber DEF Addresses
<1> DEFINE g == Added(f, a, n)
<1>5. /\ DOMAIN g = DOMAIN f \cup {a} /\ g[a] = n /\ (\A b \in DOMAIN f : g[b] = f[b])
      /\ g = [b \in DOMAIN g |-> g[b]]
    BY <1>4 DEF Added
<1> HIDE DEF g
<1>6. g \in BlockSizes
    BY <1>1, <1>5 DEF BlockSizes
<1>7. Packed(g)
    BY <1>3, <1>5, <1>6 DEF Packed
<1>8. \A u \in Addresses : u \in Covered(g) <=> u \in Covered(f) \/ u \in Units(a, n)
    BY <1>2, <1>5, PoolIsNumber DEF Covered, Addresses
<1>9. Units(a, n) \subseteq Addresses
    BY PoolIsNumber DEF Units, Addresses
<1>10. Covered(g) = Covered(f) \cup Units(a, n)
    BY <1>8, <1>9 DEF Covered
<1> QED
    BY <1>7, <1>10 DEF g

LEMMA BlockShortened ==
  ASSUME NEW f, Packed(f), NEW a \in DOMAIN f, NEW n \in 1..PoolSize, n < f[a]
  PROVE  /\ Packed([f EXCEPT ![a] = f[a] - n])
         /\ Covered([f EXCEPT ![a] = f[a] - n]) = Covered(f) \ Units(a + f[a] - n, n)
         /\ Units(a + f[a] - n, n) \subseteq Covered(f)
         /\ a + f[a] - n \in Addresses /\ (a + f[a] - n) + n <= PoolSize
<1>1. DOMAIN f \subseteq Addresses /\ f \in [DOMAIN f -> 1..PoolSize]
    BY PackedParts
<1> DEFINE g == [f EXCEPT ![a] = f[a] - n]
           b == a + f[a] - n
<1>2. /\ DOMAIN g = DOMAIN f /\ g[a] = f[a] - n /\ (\A c \in DOMAIN f \ {a} : g[c] = f[c])
      /\ g = [c \in DOMAIN g |-> g[c]]
    BY <1>1
<1> HIDE DEF g
<1>3. /\ a \in Int /\ f[a] \in Int /\ f[a] - n \in 1..PoolSize /\ b \in Addresses /\ b \in Int /\ b + n = a + f[a]
      /\ b + n <= PoolSize
    BY <1>1, PoolIsNumber DEF Addresses, Packed
<1>4. g \in BlockSizes
    BY <1>1, <1>2, <1>3 DEF BlockSizes
<1>5. \A c \in DOMAIN f : c \in Int /\ f[c] \in Int /\ g[c] \in Int /\ g[c] <= f[c]
    BY <1>1, <1>2, <1>3, PoolIsNumber DEF Addresses
<1>6. Packed(g)
    BY <1>2, <1>4, <1>5, PoolIsNumber DEF Packed
<1>7. \A u \in Int : u \in Units(b, n) <=> b <= u /\ u < b + n
    BY <1>3, UnitsAre
<1>8. ASSUME NEW u \in Addresses
      PROVE  u \in Covered(g) <=> u \in Covered(f) /\ u \notin Units(b, n)
  <2>1. u \in Int
      BY DEF Addresses
  <2>2. \A c \in DOMAIN f : c # a => ~(b <= u /\ u < b + n /\ c <= u /\ u < c + f[c])
      BY <1>3, <1>5, <2>1 DEF Packed
  <2>3. \A c \in DOMAIN f : c <= u /\ u < c + g[c] <=> c <= u /\ u < c + f[c] /\ ~(b <= u /\ u < b + n)
      BY <1>2, <1>3, <1>5, <2>1, <2>2
  <2> QED
      BY <1>2, <1>7, <2>1, <2>3 DEF Covered
<1>9. Units(b, n) \subseteq Covered(f)
  <2> SUFFICES ASSUME NEW u \in Units(b, n) PROVE u \in Covered(f)
      OBVIOUS
  <2>1. u \in Int
      BY <1>3 DEF Units
  <2>2. b <= u /\ u < b + n
      BY <1>7, <2>1
  <2>3. u \in Addresses /\ a <= u /\ u < a + f[a]
      BY <1>3, <2>1, <2>2, PoolIsNumber DEF Addresses
  <2> QED
      BY <2>3 DEF Covered
<1>10. Covered(g) = Covered(f) \ Units(b, n)
    BY <1>8 DEF Covered
<1> QED
    BY <1>3, <1>6, <1>9, <1>10 DEF g

LEMMA BlockLengthened ==
  ASSUME NEW f, Packed(f), NEW a \in DOMAIN f, NEW n \in 1..PoolSize, a + f[a] + n <= PoolSize,
         Units(a + f[a], n) \cap Covered(f) = {}
  PROVE  /\ Packed([f EXCEPT ![a] = f[a] + n])
         /\ Covered([f EXCEPT ![a] = f[a] + n]) = Covered(f) \cup Units(a + f[a], n)
<1>1. DOMAIN f \subseteq Addresses /\ f \in [DOMAIN f -> 1..PoolSize]
    BY PackedParts
<1> DEFINE g == [f EXCEPT ![a] = f[a] + n]
           b == a + f[a]
<1>2. /\ DOMAIN g = DOMAIN f /\ g[a] = f[a] + n /\ (\A c \in DOMAIN f \ {a} : g[c] = f[c])
      /\ g = [c \in DOMAIN g |-> g[c]]
    BY <1>1
<1> HIDE DEF g
<1>3. /\ a \in Int /\ a >= 0 /\ f[a] \in Int /\ f[a] >= 1 /\ f[a] + n \in 1..PoolSize /\ b \in Int /\ b + n <= PoolSize
    BY <1>1, PoolIsNumber DEF Addresses, Packed
<1>4. g \in BlockSizes
    BY <1>1, <1>2, <1>3 DEF BlockSizes
<1>5. \A c \in DOMAIN f : c \in Int /\ c >= 0 /\ c < PoolSize /\ f[c] \in Int /\ f[c] >= 1
    BY <1>1, <1>2, <1>3, PoolIsNumber DEF Addresses
<1>6. \A u \in Int : u \in Units(b, n) <=> b <= u /\ u < b + n
    BY <1>3, UnitsAre
<1>7. \A c \in DOMAIN f : b + n <= c \/ c + f[c] <= b
  <2> SUFFICES ASSUME NEW c \in DOMAIN f, ~(b + n <= c), ~(c + f[c] <= b) PROVE FALSE
      OBVIOUS
  <2> DEFINE u == IF b <= c THEN c ELSE b
  <2>1. u \in Addresses /\ u \in Int /\ b <= u /\ u < b + n /\ c <= u /\ u < c + f[c]
      BY <1>3, <1>5, PoolIsNumber DEF Addresses
  <2> QED
      BY <1>6, <2>1 DEF Covered
<1> HIDE DEF b
<1>8. b = a + f[a]
    BY DEF b
<1>9. Packed(g)
  <2>1. \A c \in DOMAIN g : c + g[c] <= PoolSize
      BY <1>2, <1>3, <1>8, PoolIsNumber DEF Packed
  <2>2. \A c \in DOMAIN f \ {a} : a + g[a] <= c \/ c + g[c] <= a
      BY <1>2, <1>3, <1>5, <1>7, <1>8, PoolIsNumber DEF Packed
  <2> QED
      BY <1>2, <1>4, <2>1, <2>2 DEF Packed
<1>10. \A u \in Addresses : u \in Covered(g) <=> u \in Covered(f) \/ u \in Units(b, n)
  <2> SUFFICES ASSUME NEW u \in Addresses PROVE u \in Covered(g) <=> u \in Covered(f) \/ u \in Units(b, n)
      OBVIOUS
  <2>1. u \in Int
      BY DEF Addresses
  <2>2. a <= u /\ u < a + g[a] <=> (a <= u /\ u < a + f[a]) \/ (b <= u /\ u < b + n)
      BY <1>2, <1>3, <1>8, <2>1
  <2> QED
      BY <1>2, <1>6, <2>1, <2>2 DEF Covered
<1>11. Units(b, n) \subseteq Addresses
    BY <1>3, <1>8, PoolIsNumber DEF Units, Addresses
<1>12. Covered(g) = Covered(f) \cup Units(b, n)
    BY <1>10, <1>11 DEF Covered
<1> QED
    BY <1>8, <1>9, <1>12 DEF g
-----------------------------------------------------------------------------
(* The list: each block has a rank, which goes up along it. *)
Heaps == [head : Addresses \cup {Null}, block : UNION {[X -> Block] : X \in SUBSET Addresses}]
Ranked(h, rank) ==
    /\ rank \in [Addresses -> Nat]
    /\ \A a \in Free(h) : h.block[a].next # Null => rank[a] < rank[h.block[a].next]
ListLinked(h) ==
    /\ h.head # Null => h.head \in Free(h) /\ h.block[h.head].prev = Null
    /\ \A a \in Free(h) : h.block[a].next # Null => /\ h.block[a].next \in Free(h)
                                                    /\ h.block[h.block[a].next].prev = a
    /\ \A a \in Free(h) : h.block[a].prev # Null => /\ h.block[a].prev \in Free(h)
                                                    /\ h.block[h.block[a].prev].next = a
    /\ \A a \in Free(h) : h.block[a].prev = Null => h.head = a
    /\ \E rank : Ranked(h, rank)
SizesOf(h) == [a \in Free(h) |-> h.block[a].size]

LEMMA HeapParts ==
  ASSUME NEW h \in Heaps
  PROVE  /\ h.head \in Addresses \cup {Null} /\ Free(h) \subseteq Addresses /\ h.block \in [Free(h) -> Block]
         /\ \A a \in Free(h) : /\ h.block[a] \in Block /\ h.block[a].size \in 1..PoolSize
                               /\ h.block[a].next \in Addresses \cup {Null}
                               /\ h.block[a].prev \in Addresses \cup {Null}
         /\ Null \notin Free(h)
<1>1. h.head \in Addresses \cup {Null} /\ h.block \in UNION {[X -> Block] : X \in SUBSET Addresses}
    BY DEF Heaps
<1>2. Free(h) \subseteq Addresses /\ h.block \in [Free(h) -> Block]
    BY <1>1 DEF Free
<1>3. \A a \in Free(h) : h.block[a] \in Block
    BY <1>2
<1> QED
    BY <1>1, <1>2, <1>3, PoolIsNumber DEF Block

LEMMA HeapOf ==
  ASSUME NEW head \in Addresses \cup {Null}, NEW X \in SUBSET Addresses, NEW f \in [X -> Block]
  PROVE  /\ [head |-> head, block |-> f] \in Heaps
         /\ [head |-> head, block |-> f].head = head /\ [head |-> head, block |-> f].block = f
         /\ Free([head |-> head, block |-> f]) = X
BY DEF Heaps, Free

(* A block leaves the list. *)
LEMMA UnlinkedKeeps ==
  ASSUME NEW h \in Heaps, ListLinked(h), NEW a \in Free(h)
  PROVE  /\ Unlinked(h, a) \in Heaps /\ ListLinked(Unlinked(h, a)) /\ Free(Unlinked(h, a)) = Free(h) \ {a}
         /\ \A b \in Free(h) \ {a} : Unlinked(h, a).block[b].size = h.block[b].size
<1> DEFINE p == h.block[a].prev
           n == h.block[a].next
           g == Unlinked(h, a)
           X == Free(h) \ {a}
           f == [b \in X |-> [h.block[b] EXCEPT !.next = IF b = p THEN n ELSE @,
                                                !.prev = IF b = n THEN p ELSE @]]
           first == IF h.head = a THEN n ELSE h.head
<1>1. /\ h.head \in Addresses \cup {Null} /\ Free(h) \subseteq Addresses /\ Null \notin Free(h)
      /\ p \in Addresses \cup {Null} /\ n \in Addresses \cup {Null}
      /\ \A b \in Free(h) : h.block[b] \in Block
    BY HeapParts
<1>2. PICK rank : Ranked(h, rank)
    BY DEF ListLinked
<1>3. n # a /\ (n # Null => n \in X) /\ (p # Null => p \in X) /\ (p # Null /\ n # Null => p # n)
  <2>1. n # Null => n \in Free(h) /\ rank[a] < rank[n]
      BY <1>2 DEF ListLinked, Ranked
  <2>2. p # Null => p \in Free(h) /\ h.block[p].next = a /\ rank[p] < rank[a]
      BY <1>1, <1>2 DEF ListLinked, Ranked
  <2>3. \A b \in Free(h) : rank[b] \in Nat
      BY <1>1, <1>2 DEF Ranked
  <2> QED
      BY <1>1, <2>1, <2>2, <2>3
<1>4. g = [head |-> first, block |-> f]
    BY DEF Unlinked
<1>5. /\ f \in [X -> Block]
      /\ \A b \in X : /\ f[b].size = h.block[b].size
                      /\ f[b].next = IF b = p THEN n ELSE h.block[b].next
                      /\ f[b].prev = IF b = n THEN p ELSE h.block[b].prev
  <2>1. ASSUME NEW b \in X
        PROVE  /\ f[b] \in Block /\ f[b].size = h.block[b].size
               /\ f[b].next = IF b = p THEN n ELSE h.block[b].next
               /\ f[b].prev = IF b = n THEN p ELSE h.block[b].prev
      BY <1>1 DEF Block
  <2> QED
      BY <2>1
<1>6. g \in Heaps /\ g.head = first /\ g.block = f /\ Free(g) = X
  <2>1. first \in Addresses \cup {Null} /\ X \in SUBSET Addresses /\ f \in [X -> Block]
      BY <1>1, <1>5
  <2> HIDE DEF first, X, f, g
  <2> QED
      BY <1>4, <2>1, HeapOf
<1> HIDE DEF f, g
<1>7. ListLinked(g)
  <2>1. g.head # Null => g.head \in X /\ f[g.head].prev = Null
    <3>1. CASE h.head = a
      <4>1. p = Null
          BY <1>1, <3>1 DEF ListLinked
      <4> QED
          BY <1>3, <1>5, <1>6, <3>1, <4>1
    <3>2. CASE h.head # a
      <4>1. h.head # Null => h.head \in X /\ h.head # n
          BY <1>1, <3>2 DEF ListLinked
      <4> QED
          BY <1>5, <1>6, <3>2, <4>1 DEF ListLinked
    <3> QED
        BY <3>1, <3>2
  <2>2. ASSUME NEW b \in X, f[b].next # Null
        PROVE  f[b].next \in X /\ f[f[b].next].prev = b
    <3>1. CASE b = p
      <4>1. f[b].next = n /\ n # Null /\ n \in X
          BY <1>3, <1>5, <2>2, <3>1
      <4> QED
          BY <1>5, <3>1, <4>1
    <3>2. CASE b # p
      <4>1. f[b].next = h.block[b].next
          BY <1>5, <3>2
      <4>2. f[b].next \in Free(h) /\ h.block[f[b].next].prev = b
          BY <2>2, <4>1 DEF ListLinked
      <4>3. f[b].next # a
          BY <3>2, <4>2
      <4>4. f[b].next # n
        <5>1. n # Null => h.block[n].prev = a
            BY DEF ListLinked
        <5> QED
            BY <2>2, <4>2, <5>1
      <4> QED
          BY <1>5, <4>2, <4>3, <4>4
    <3> QED
        BY <3>1, <3>2
  <2>3. ASSUME NEW b \in X, f[b].prev # Null
        PROVE  f[b].prev \in X /\ f[f[b].prev].next = b
    <3>1. CASE b = n
      <4>1. f[b].prev = p /\ p # Null /\ p \in X
          BY <1>3, <1>5, <2>3, <3>1
      <4> QED
          BY <1>5, <3>1, <4>1
    <3>2. CASE b # n
      <4>1. f[b].prev = h.block[b].prev
          BY <1>5, <3>2
      <4>2. f[b].prev \in Free(h) /\ h.block[f[b].prev].next = b
          BY <2>3, <4>1 DEF ListLinked
      <4>3. f[b].prev # a
          BY <3>2, <4>2
      <4>4. f[b].prev # p
        <5>1. p # Null => h.block[p].next = a
            BY DEF ListLinked
        <5> QED
            BY <2>3, <4>2, <5>1
      <4> QED
          BY <1>5, <4>2, <4>3, <4>4
    <3> QED
        BY <3>1, <3>2
  <2>4. ASSUME NEW b \in X, f[b].prev = Null
        PROVE  g.head = b
    <3>1. CASE b = n
      <4>1. p = Null
          BY <1>5, <2>4, <3>1
      <4>2. h.head = a
          BY <4>1 DEF ListLinked
      <4> QED
          BY <1>6, <3>1, <4>2
    <3>2. CASE b # n
      <4>1. h.block[b].prev = Null
          BY <1>5, <2>4, <3>2
      <4>2. h.head = b
          BY <4>1 DEF ListLinked
      <4> QED
          BY <1>6, <4>2
    <3> QED
        BY <3>1, <3>2
  <2>5. Ranked(g, rank)
    <3>1. ASSUME NEW b \in X, f[b].next # Null PROVE rank[b] < rank[f[b].next]
      <4>1. CASE b = p
        <5>1. f[b].next = n /\ n # Null /\ n \in X /\ p # Null
            BY <1>1, <1>3, <1>5, <3>1, <4>1
        <5>2. rank[p] < rank[a]
            BY <1>1, <1>2, <5>1 DEF ListLinked, Ranked
        <5>3. rank[a] < rank[n]
            BY <1>2, <5>1 DEF Ranked
        <5>4. rank[p] \in Nat /\ rank[a] \in Nat /\ rank[n] \in Nat
            BY <1>1, <1>2, <1>3, <5>1 DEF Ranked
        <5> QED
            BY <4>1, <5>1, <5>2, <5>3, <5>4
      <4>2. CASE b # p
          BY <1>2, <1>5, <3>1, <4>2 DEF Ranked
      <4> QED
          BY <4>1, <4>2
    <3> QED
        BY <1>2, <1>6, <3>1 DEF Ranked
  <2> QED
      BY <1>6, <2>1, <2>2, <2>3, <2>4, <2>5 DEF ListLinked
<1> QED
    BY <1>5, <1>6, <1>7 DEF g

(* A block becomes the head. *)
LEMMA HeadLinked ==
  ASSUME NEW h \in Heaps, ListLinked(h), NEW a \in Addresses \ Free(h), NEW n \in 1..PoolSize,
         NEW linked, linked = [b \in Free(h) |-> IF b = h.head THEN [h.block[b] EXCEPT !.prev = a] ELSE h.block[b]],
         NEW g, g = [head |-> a, block |-> Added(linked, a, [size |-> n, prev |-> Null, next |-> h.head])]
  PROVE  /\ g \in Heaps /\ ListLinked(g) /\ Free(g) = Free(h) \cup {a} /\ g.block[a].size = n
         /\ \A b \in Free(h) : g.block[b].size = h.block[b].size
<1> DEFINE X == Free(h) \cup {a}
           new == [size |-> n, prev |-> Null, next |-> h.head]
           f == Added(linked, a, new)
<1>1. /\ h.head \in Addresses \cup {Null} /\ Free(h) \subseteq Addresses /\ Null \notin Free(h)
      /\ \A b \in Free(h) : h.block[b] \in Block
    BY HeapParts
<1>2. ASSUME NEW b \in Free(h)
      PROVE  /\ linked[b] \in Block /\ linked[b].size = h.block[b].size /\ linked[b].next = h.block[b].next
             /\ linked[b].prev = IF b = h.head THEN a ELSE h.block[b].prev
    BY <1>1 DEF Block
<1>3. new \in Block /\ new.size = n /\ new.prev = Null /\ new.next = h.head
    BY <1>1 DEF Block
<1> HIDE DEF new
<1>4. /\ f \in [X -> Block] /\ f[a] = new
      /\ \A b \in Free(h) : /\ f[b].size = h.block[b].size /\ f[b].next = h.block[b].next
                            /\ f[b].prev = IF b = h.head THEN a ELSE h.block[b].prev
    BY <1>2, <1>3 DEF Added
<1>5. g \in Heaps /\ g.head = a /\ g.block = f /\ Free(g) = X
    BY <1>1, <1>4, HeapOf DEF new
<1> HIDE DEF f
<1>6. PICK rank : Ranked(h, rank)
    BY DEF ListLinked
<1>7. a # Null /\ a \notin Free(h)
    BY PoolIsNumber
<1>8. ListLinked(g)
  <2>1. g.head # Null => g.head \in X /\ f[g.head].prev = Null
      BY <1>3, <1>4, <1>5
  <2>2. ASSUME NEW b \in X, f[b].next # Null
        PROVE  f[b].next \in X /\ f[f[b].next].prev = b
    <3>1. CASE b = a
      <4>1. h.head # Null /\ f[b].next = h.head /\ h.head \in Free(h)
          BY <1>3, <1>4, <2>2, <3>1 DEF ListLinked
      <4> QED
          BY <1>4, <3>1, <4>1
    <3>2. CASE b # a
      <4>1. f[b].next = h.block[b].next /\ b \in Free(h)
          BY <1>4, <3>2
      <4>2. f[b].next \in Free(h) /\ h.block[f[b].next].prev = b
          BY <2>2, <4>1 DEF ListLinked
      <4>3. f[b].next # h.head
          BY <1>1, <4>1, <4>2 DEF ListLinked
      <4> QED
          BY <1>4, <4>2, <4>3
    <3> QED
        BY <3>1, <3>2
  <2>3. ASSUME NEW b \in X, f[b].prev # Null
        PROVE  f[b].prev \in X /\ f[f[b].prev].next = b
    <3>1. b # a
        BY <1>3, <1>4, <2>3
    <3>2. CASE b = h.head
        BY <1>3, <1>4, <3>1, <3>2
    <3>3. CASE b # h.head
      <4>1. f[b].prev = h.block[b].prev /\ b \in Free(h)
          BY <1>4, <3>1, <3>3
      <4>2. f[b].prev \in Free(h) /\ h.block[f[b].prev].next = b
          BY <2>3, <4>1 DEF ListLinked
      <4> QED
          BY <1>4, <4>2
    <3> QED
        BY <3>2, <3>3
  <2>4. ASSUME NEW b \in X, f[b].prev = Null
        PROVE  g.head = b
    <3>1. ~(b \in Free(h) /\ b = h.head)
        BY <1>4, <1>7, <2>4
    <3>2. b \in Free(h) => h.block[b].prev = Null
        BY <1>4, <2>4, <3>1
    <3>3. b \notin Free(h)
        BY <3>1, <3>2 DEF ListLinked
    <3> QED
        BY <1>5, <3>3
  <2>5. \E r : Ranked(g, r)
    <3> DEFINE r == [b \in Addresses |-> IF b = a THEN 0 ELSE rank[b] + 1]
    <3>1. r \in [Addresses -> Nat]
        BY <1>6 DEF Ranked
    <3>2. ASSUME NEW b \in X, f[b].next # Null PROVE r[b] < r[f[b].next]
      <4>1. f[b].next \in Free(h) /\ (b # a => f[b].next = h.block[b].next)
          BY <1>3, <1>4, <3>2 DEF ListLinked
      <4>2. r[f[b].next] = rank[f[b].next] + 1 /\ rank[f[b].next] \in Nat
          BY <1>1, <1>6, <1>7, <4>1 DEF Ranked
      <4>3. CASE b = a
          BY <4>2, <4>3
      <4>4. CASE b # a
        <5>1. b \in Free(h) /\ r[b] = rank[b] + 1 /\ rank[b] \in Nat
            BY <1>1, <1>6, <4>4 DEF Ranked
        <5>2. rank[b] < rank[f[b].next]
            BY <1>6, <3>2, <4>1, <4>4, <5>1 DEF Ranked
        <5> QED
            BY <4>2, <5>1, <5>2
      <4> QED
          BY <4>3, <4>4
    <3> HIDE DEF r
    <3>3. Ranked(g, r)
        BY <1>5, <3>1, <3>2 DEF Ranked
    <3> QED
        BY <3>3
  <2> QED
      BY <1>5, <2>1, <2>2, <2>3, <2>4, <2>5 DEF ListLinked
<1> QED
    BY <1>3, <1>4, <1>5, <1>8

(* A block changes its size. *)
LEMMA ResizedKeeps ==
  ASSUME NEW h \in Heaps, ListLinked(h), NEW a \in Free(h), NEW n \in 1..PoolSize,
         NEW g, g = [h EXCEPT !.block[a].size = n]
  PROVE  /\ g \in Heaps /\ ListLinked(g) /\ Free(g) = Free(h)
         /\ SizesOf(g) = [SizesOf(h) EXCEPT ![a] = n]
<1>1. /\ h.head \in Addresses \cup {Null} /\ Free(h) \subseteq Addresses /\ h.block \in [Free(h) -> Block]
      /\ \A b \in Free(h) : h.block[b] \in Block
    BY HeapParts
<1> DEFINE f == [h.block EXCEPT ![a].size = n]
<1>2. g = [head |-> h.head, block |-> f]
    BY DEF Heaps
<1>3. /\ f \in [Free(h) -> Block]
      /\ \A b \in Free(h) : /\ f[b].next = h.block[b].next /\ f[b].prev = h.block[b].prev
                            /\ f[b].size = IF b = a THEN n ELSE h.block[b].size
    BY <1>1 DEF Block
<1> HIDE DEF f
<1>4. g \in Heaps /\ g.head = h.head /\ g.block = f /\ Free(g) = Free(h)
  <2>1. h.head \in Addresses \cup {Null} /\ Free(h) \in SUBSET Addresses /\ f \in [Free(h) -> Block]
      BY <1>1, <1>3
  <2>2. g.head = h.head /\ g.block = f
      BY <1>2
  <2>3. DOMAIN f = Free(h)
      BY <2>1
  <2>4. Free(g) = Free(h)
      BY <2>2, <2>3 DEF Free
  <2>5. f \in UNION {[X -> Block] : X \in SUBSET Addresses}
      BY <2>1
  <2>6. g \in Heaps
      BY <1>2, <2>1, <2>5 DEF Heaps
  <2> QED
      BY <2>2, <2>4, <2>6
<1>5. \A rank : Ranked(h, rank) => Ranked(g, rank)
    BY <1>3, <1>4 DEF Ranked
<1>6. ListLinked(g)
  <2>1. \E rank : Ranked(g, rank)
      BY <1>5 DEF ListLinked
  <2>2. h.head # Null => h.head \in Free(h) /\ f[h.head].prev = Null
      BY <1>3 DEF ListLinked
  <2>3. \A b \in Free(h) : f[b].next # Null => f[b].next \in Free(h) /\ f[f[b].next].prev = b
      BY <1>3 DEF ListLinked
  <2>4. \A b \in Free(h) : f[b].prev # Null => f[b].prev \in Free(h) /\ f[f[b].prev].next = b
      BY <1>3 DEF ListLinked
  <2>5. \A b \in Free(h) : f[b].prev = Null => h.head = b
      BY <1>3 DEF ListLinked
  <2> QED
      BY <1>4, <2>1, <2>2, <2>3, <2>4, <2>5 DEF ListLinked
<1>7. SizesOf(g) = [SizesOf(h) EXCEPT ![a] = n]
    BY <1>3, <1>4 DEF SizesOf
<1> QED
    BY <1>4, <1>6, <1>7-----------------------------------------------------------------------------
(* The list, read from its head. *)
IsList(h, f) ==
    /\ f \in [Nat -> Addresses \cup {Null}] /\ f[0] = h.head
    /\ \A k \in Nat : f[k + 1] = IF f[k] \in Free(h) THEN h.block[f[k]].next ELSE Null

LEMMA ListExists ==
  ASSUME NEW h, h \in Heaps
  PROVE  \E f : IsList(h, f)
<1>1. PICK E : E = Addresses \cup {Null}
    OBVIOUS
<1>2. PICK first : first = h.head
    OBVIOUS
<1>3. PICK follow : follow = [x \in E |-> IF x \in Free(h) THEN h.block[x].next ELSE Null]
    OBVIOUS
<1>4. first \in E /\ follow \in [E -> E]
    BY <1>1, <1>2, <1>3, HeapParts
<1>5. PICK f \in [Nat -> E] : f[0] = first /\ \A k \in Nat : f[k + 1] = follow[f[k]]
    BY ONLY <1>4, Iterates
<1>6. \A k \in Nat : f[k + 1] = IF f[k] \in Free(h) THEN h.block[f[k]].next ELSE Null
    BY <1>3, <1>5
<1> QED
    BY <1>1, <1>2, <1>5, <1>6 DEF IsList

LEMMA ListRead ==
  ASSUME NEW h \in Heaps
  PROVE  \E f : IsList(h, f) /\ Nth(h) = [k \in 0..PoolSize - 1 |-> f[k]]
<1> DEFINE D == Addresses \cup {Null}
           Read(n) == [k \in Nat |-> IF k = 0 THEN h.head
                                     ELSE IF n[k - 1] \in Free(h) THEN h.block[n[k - 1]].next
                                     ELSE Null]
           nth == CHOOSE n : n = Read(n)
<1>1. h.head \in D /\ \A a \in Free(h) : a \in D /\ h.block[a].next \in D
    BY HeapParts
<1>3. \E n : n = Read(n)
  <2>1. PICK n : IsList(h, n)
      BY ListExists
  <2>2. ASSUME NEW k \in Nat PROVE n[k] = Read(n)[k]
    <3>1. CASE k = 0
        BY <2>1, <3>1 DEF IsList
    <3>2. CASE k # 0
      <4>1. k - 1 \in Nat /\ (k - 1) + 1 = k
          BY <3>2
      <4> QED
          BY <2>1, <3>2, <4>1 DEF IsList
    <3> QED
        BY <2>1, <3>1, <3>2 DEF IsList
  <2>3. DOMAIN Read(n) = Nat /\ DOMAIN n = Nat /\ n = [k \in Nat |-> n[k]]
      BY <2>1 DEF IsList
  <2>4. n = [k \in Nat |-> Read(n)[k]]
      BY <2>2, <2>3
  <2> QED
      BY <2>4
<1>4. nth = Read(nth)
    BY <1>3
<1>5. Nth(h) = [k \in 0..PoolSize - 1 |-> nth[k]]
    BY DEF Nth
<1> HIDE DEF nth
<1>6. \A k \in Nat : nth[k] = IF k = 0 THEN h.head
                              ELSE IF nth[k - 1] \in Free(h) THEN h.block[nth[k - 1]].next
                              ELSE Null
  <2>1. \A k \in Nat : Read(nth)[k] = IF k = 0 THEN h.head
                                      ELSE IF nth[k - 1] \in Free(h) THEN h.block[nth[k - 1]].next
                                      ELSE Null
      OBVIOUS
  <2> HIDE DEF Read
  <2> QED
      BY <1>4, <2>1
<1>7. nth[0] = h.head
    BY <1>6
<1>8. \A k \in Nat : nth[k + 1] = IF nth[k] \in Free(h) THEN h.block[nth[k]].next ELSE Null
  <2> SUFFICES ASSUME NEW k \in Nat
               PROVE  nth[k + 1] = IF nth[k] \in Free(h) THEN h.block[nth[k]].next ELSE Null
      OBVIOUS
  <2>1. k + 1 \in Nat /\ k + 1 # 0 /\ (k + 1) - 1 = k
      OBVIOUS
  <2> QED
      BY <1>6, <2>1
<1>9. nth \in [Nat -> D]
  <2>1. \A k \in Nat : nth[k] \in D
      BY <1>1, <1>6
  <2>2. nth = [k \in Nat |-> nth[k]]
      BY <1>4
  <2> QED
      BY <2>1, <2>2
<1> QED
    BY <1>5, <1>7, <1>8, <1>9 DEF IsList

(* The list does not come to a block twice, so it ends within the pool. *)
LEMMA ListEnds ==
  ASSUME NEW h \in Heaps, ListLinked(h), NEW f, IsList(h, f)
  PROVE  /\ \A k \in Nat : f[k] # Null => f[k] \in Free(h)
         /\ \A k \in Nat : f[k] # Null => k \in 0..PoolSize - 1
<1>1. ASSUME NEW k \in Nat, f[k] # Null PROVE f[k] \in Free(h)
  <2>1. CASE k = 0
      BY <1>1, <2>1 DEF IsList, ListLinked
  <2>2. CASE k # 0
    <3>1. k - 1 \in Nat /\ (k - 1) + 1 = k
        BY <2>2
    <3>2. f[k] = IF f[k - 1] \in Free(h) THEN h.block[f[k - 1]].next ELSE Null
        BY <3>1 DEF IsList
    <3> QED
        BY <1>1, <3>2 DEF ListLinked
  <2> QED
      BY <2>1, <2>2
<1>2. PICK rank : Ranked(h, rank)
    BY DEF ListLinked
<1> DEFINE S == {k \in Nat : f[k] # Null => \A j \in 0..k - 1 : f[j] # Null /\ rank[f[j]] < rank[f[k]]}
<1>3. 0 \in S
    OBVIOUS
<1>4. \A k \in S : k + 1 \in S
  <2> SUFFICES ASSUME NEW k \in S, f[k + 1] # Null, NEW j \in 0..k
               PROVE  f[j] # Null /\ rank[f[j]] < rank[f[k + 1]]
      OBVIOUS
  <2>1. f[k] \in Free(h) /\ f[k + 1] = h.block[f[k]].next
      BY DEF IsList
  <2>2. f[k] # Null /\ rank[f[k]] < rank[f[k + 1]]
      BY <1>2, <2>1, HeapParts DEF Ranked
  <2>3. CASE j = k
      BY <2>2, <2>3
  <2>4. CASE j # k
    <3>1. f[j] # Null /\ rank[f[j]] < rank[f[k]]
        BY <2>2, <2>4
    <3>2. f[j] \in Addresses /\ f[k] \in Addresses /\ f[k + 1] \in Addresses
        BY <2>1, <2>2, <3>1 DEF IsList
    <3>3. rank[f[j]] \in Nat /\ rank[f[k]] \in Nat /\ rank[f[k + 1]] \in Nat
        BY <1>2, <3>2 DEF Ranked
    <3> QED
        BY <2>2, <3>1, <3>3
  <2> QED
      BY <2>3, <2>4
<1> HIDE DEF S
<1>5. S = Nat
    BY <1>3, <1>4, AllNumbers DEF S
<1>6. ASSUME NEW k \in Nat, f[k] # Null PROVE k \in 0..PoolSize - 1
  <2> SUFFICES ASSUME k >= PoolSize PROVE FALSE
      BY PoolIsNumber
  <2>1. \A j \in 0..k : f[j] # Null
      BY <1>5, <1>6 DEF S
  <2>2. \A j \in 0..k : f[j] \in Addresses
      BY <2>1 DEF IsList
  <2> DEFINE g == [j \in 0..k |-> f[j]]
  <2>3. g \in [0..k -> Addresses]
      BY <2>2
  <2>4. IsFiniteSet(0..k) /\ Cardinality(0..k) = k + 1
      BY FS_Interval
  <2>5. IsFiniteSet(Addresses) /\ Cardinality(Addresses) = PoolSize
      BY FS_Interval, PoolIsNumber DEF Addresses
  <2>6. PICK i, j \in 0..k : i # j /\ g[i] = g[j]
    <3>1. Cardinality(Addresses) < Cardinality(0..k)
        BY <2>4, <2>5, PoolIsNumber
    <3> HIDE DEF g
    <3> QED
        BY <2>3, <2>4, <2>5, <3>1, FS_PigeonHole
  <2>7. \A x, y \in 0..k : x < y => rank[f[x]] < rank[f[y]]
      BY <1>5, <2>1 DEF S
  <2>8. rank[f[i]] \in Nat /\ rank[f[j]] \in Nat
      BY <1>2, <2>2 DEF Ranked
  <2> QED
      BY <2>6, <2>7, <2>8
<1> QED
    BY <1>1, <1>6

(* It comes to every block: one of least rank that it did not come to      *)
(* would follow one it did. *)
LEMMA ListComesToAll ==
  ASSUME NEW h \in Heaps, ListLinked(h), NEW f, IsList(h, f), NEW a \in Free(h)
  PROVE  \E k \in 0..PoolSize - 1 : f[k] = a
<1>1. PICK rank : Ranked(h, rank)
    BY DEF ListLinked
<1>2. Free(h) \subseteq Addresses /\ Null \notin Free(h)
    BY HeapParts
<1> DEFINE T == {b \in Free(h) : \A k \in Nat : f[k] # b}
           R == {rank[b] : b \in T}
<1>3. T = {}
  <2> SUFFICES ASSUME T # {} PROVE FALSE
      OBVIOUS
  <2>1. R \in SUBSET Nat /\ R # {}
      BY <1>1, <1>2 DEF Ranked
  <2> HIDE DEF R
  <2>2. PICK r \in R : \A q \in R : r <= q
      BY <2>1, LeastNumber
  <2>3. PICK b \in T : r = rank[b]
      BY DEF R
  <2>4. b # h.head
      BY DEF IsList
  <2>5. h.block[b].prev \in Free(h) /\ h.block[h.block[b].prev].next = b
      BY <2>4 DEF ListLinked
  <2> DEFINE c == h.block[b].prev
  <2>6. rank[c] < rank[b] /\ rank[c] \in Nat /\ rank[b] \in Nat
      BY <1>1, <1>2, <2>5 DEF Ranked
  <2>7. c \notin T
      BY <2>2, <2>3, <2>6 DEF R
  <2>8. PICK k \in Nat : f[k] = c
      BY <2>5, <2>7
  <2>9. f[k + 1] = b
      BY <2>5, <2>8 DEF IsList
  <2>10. k + 1 \in Nat
      OBVIOUS
  <2> QED
      BY <2>9, <2>10
<1>4. PICK k \in Nat : f[k] = a
    BY <1>3
<1>5. k \in 0..PoolSize - 1
    BY <1>2, <1>4, ListEnds
<1> QED
    BY <1>4, <1>5

LEMMA ListIsFree ==
  ASSUME NEW h \in Heaps, ListLinked(h)
  PROVE  {Nth(h)[k] : k \in DOMAIN Nth(h)} \ {Null} = Free(h)
<1>1. PICK f : IsList(h, f) /\ Nth(h) = [k \in 0..PoolSize - 1 |-> f[k]]
    BY ListRead
<1>2. Null \notin Free(h)
    BY HeapParts
<1>3. \A k \in 0..PoolSize - 1 : k \in Nat
    OBVIOUS
<1>4. ASSUME NEW a PROVE a \in {Nth(h)[k] : k \in DOMAIN Nth(h)} \ {Null} <=> a \in Free(h)
  <2>1. ASSUME a \in Free(h) PROVE \E k \in 0..PoolSize - 1 : f[k] = a
      BY <1>1, <2>1, ListComesToAll
  <2>2. ASSUME NEW k \in 0..PoolSize - 1, f[k] # Null PROVE f[k] \in Free(h)
      BY <1>1, <1>3, <2>2, ListEnds
  <2> QED
      BY <1>1, <1>2, <2>1, <2>2
<1> QED
    BY <1>4

(* The search for a block among some finds one of them. *)
LEMMA FirstFound ==
  ASSUME NEW h \in Heaps, ListLinked(h), NEW S \in SUBSET Free(h), S # {}
  PROVE  FirstOf(h, S) \in S
<1>1. PICK f : IsList(h, f) /\ Nth(h) = [k \in 0..PoolSize - 1 |-> f[k]]
    BY ListRead
<1> DEFINE list == Nth(h)
           K == {k \in DOMAIN list : list[k] \in S}
<1>2. K \in SUBSET Nat
    BY <1>1
<1>3. K # {}
  <2>1. PICK a \in S : a \in Free(h)
      OBVIOUS
  <2>2. PICK k \in 0..PoolSize - 1 : f[k] = a
      BY <1>1, <2>1, ListComesToAll
  <2> QED
      BY <1>1, <2>1, <2>2
<1>4. PICK k \in K : \A j \in K : k <= j
    BY <1>2, <1>3, LeastNumber
<1>5. \A j \in 0..k - 1 : j \in DOMAIN list /\ j < k
  <2>1. DOMAIN list = 0..PoolSize - 1
      BY <1>1
  <2>2. k \in 0..PoolSize - 1
      BY <1>4, <2>1
  <2> QED
      BY <2>1, <2>2, PoolIsNumber
<1>6. k \in DOMAIN list /\ list[k] \in S /\ \A j \in 0..k - 1 : list[j] \notin S
    BY <1>2, <1>4, <1>5
<1> QED
    BY <1>6 DEF FirstOf-----------------------------------------------------------------------------
(* What becomes of the sizes. *)
GoodHeap(h) == h \in Heaps /\ ListLinked(h) /\ Packed(SizesOf(h))

LEMMA SizesAre ==
  ASSUME NEW h
  PROVE  DOMAIN SizesOf(h) = Free(h) /\ \A a \in Free(h) : SizesOf(h)[a] = h.block[a].size
BY DEF SizesOf

LEMMA FreeIsFinite ==
  ASSUME NEW h \in Heaps
  PROVE  IsFiniteSet(Free(h)) /\ Cardinality(Free(h)) \in Nat
<1>1. IsFiniteSet(Addresses)
    BY FS_Interval, PoolIsNumber DEF Addresses
<1>2. Free(h) \subseteq Addresses
    BY HeapParts
<1>3. IsFiniteSet(Free(h))
    BY <1>1, <1>2, FS_Subset
<1> QED
    BY <1>3, FS_CardinalityType

LEMMA UnlinkedSizes ==
  ASSUME NEW h, GoodHeap(h), NEW a \in Free(h)
  PROVE  /\ GoodHeap(Unlinked(h, a)) /\ Free(Unlinked(h, a)) = Free(h) \ {a}
         /\ SizesOf(Unlinked(h, a)) = Without(SizesOf(h), a)
         /\ Covered(SizesOf(Unlinked(h, a))) = Covered(SizesOf(h)) \ Units(a, h.block[a].size)
         /\ Units(a, h.block[a].size) \subseteq Covered(SizesOf(h))
<1> DEFINE g == Unlinked(h, a)
<1>1. /\ g \in Heaps /\ ListLinked(g) /\ Free(g) = Free(h) \ {a}
      /\ \A b \in Free(h) \ {a} : g.block[b].size = h.block[b].size
    BY UnlinkedKeeps DEF GoodHeap
<1> HIDE DEF g
<1>2. SizesOf(g) = Without(SizesOf(h), a)
    BY <1>1 DEF SizesOf, Without
<1>3. /\ Packed(Without(SizesOf(h), a))
      /\ Covered(Without(SizesOf(h), a)) = Covered(SizesOf(h)) \ Units(a, SizesOf(h)[a])
      /\ Units(a, SizesOf(h)[a]) \subseteq Covered(SizesOf(h))
    BY SizesAre, BlockRemoved DEF GoodHeap
<1>4. SizesOf(h)[a] = h.block[a].size
    BY SizesAre
<1> QED
    BY <1>1, <1>2, <1>3, <1>4 DEF g, GoodHeap

(* A block takes in the one after it. *)
LEMMA AbsorbedKeeps ==
  ASSUME NEW h, GoodHeap(h), NEW a \in Adjoining(h)
  PROVE  /\ GoodHeap(Absorbed(h, a))
         /\ Covered(SizesOf(Absorbed(h, a))) = Covered(SizesOf(h))
         /\ Cardinality(Free(Absorbed(h, a))) = Cardinality(Free(h)) - 1
<1> DEFINE b == a + h.block[a].size
           size == h.block[b].size
           k == Unlinked(h, b)
           n == h.block[a].size + size
           g == Absorbed(h, a)
<1>1. a \in Free(h) /\ b \in Free(h)
    BY DEF Adjoining
<1>2. /\ a \in Addresses /\ b \in Addresses /\ h.block[a].size \in 1..PoolSize /\ size \in 1..PoolSize
    BY <1>1, HeapParts DEF GoodHeap
<1>3. a # b
    BY <1>2, PoolIsNumber DEF Addresses
<1>4. /\ GoodHeap(k) /\ Free(k) = Free(h) \ {b} /\ SizesOf(k) = Without(SizesOf(h), b)
      /\ Covered(SizesOf(k)) = Covered(SizesOf(h)) \ Units(b, size) /\ Units(b, size) \subseteq Covered(SizesOf(h))
    BY <1>1, UnlinkedSizes
<1>5. a \in Free(k) /\ k.block[a].size = h.block[a].size /\ SizesOf(k)[a] = h.block[a].size
  <2>1. a \in Free(k)
      BY <1>1, <1>3, <1>4
  <2>2. k.block[a].size = h.block[a].size
      BY <1>1, <1>3, UnlinkedKeeps DEF GoodHeap
  <2> QED
      BY <2>1, <2>2, SizesAre
<1>6. b + size <= PoolSize
    BY <1>1, SizesAre DEF GoodHeap, Packed
<1>7. n \in 1..PoolSize /\ a + SizesOf(k)[a] = b /\ SizesOf(k)[a] + size = n
    BY <1>2, <1>5, <1>6, PoolIsNumber DEF Addresses
<1>8. g = [k EXCEPT !.block[a].size = n]
  <2>1. g = [k EXCEPT !.block[a].size = @ + size]
      BY DEF Absorbed
  <2> HIDE DEF k, g, size
  <2>2. k \in Heaps /\ a \in DOMAIN k.block
      BY <1>4, <1>5 DEF GoodHeap, Free
  <2>3. g = [k EXCEPT !.block[a].size = k.block[a].size + size]
      BY <2>1, <2>2 DEF Heaps
  <2> QED
      BY <1>5, <2>3
<1> HIDE DEF g, k, n, size, b
<1>9. /\ g \in Heaps /\ ListLinked(g) /\ Free(g) = Free(k) /\ SizesOf(g) = [SizesOf(k) EXCEPT ![a] = n]
    BY <1>4, <1>5, <1>7, <1>8, ResizedKeeps DEF GoodHeap
<1>10. /\ Packed([SizesOf(k) EXCEPT ![a] = SizesOf(k)[a] + size])
       /\ Covered([SizesOf(k) EXCEPT ![a] = SizesOf(k)[a] + size]) = Covered(SizesOf(k)) \cup Units(b, size)
  <2>1. Units(b, size) \cap Covered(SizesOf(k)) = {}
      BY <1>4
  <2>2. a \in DOMAIN SizesOf(k)
      BY <1>5, SizesAre
  <2> DEFINE f == SizesOf(k)
  <2>3. Packed(f) /\ a \in DOMAIN f /\ f[a] + size <= PoolSize - a /\ a + f[a] = b /\ b + size <= PoolSize
        /\ Units(b, size) \cap Covered(f) = {} /\ a + f[a] + size <= PoolSize
    <3>1. a + f[a] + size <= PoolSize
        BY <1>6, <1>7
    <3>2. f[a] + size <= PoolSize - a
        BY <1>2, <1>5, <1>6, <1>7, PoolIsNumber DEF Addresses
    <3> QED
        BY <1>4, <1>6, <1>7, <2>1, <2>2, <3>1, <3>2 DEF GoodHeap
  <2> HIDE DEF f
  <2>4. /\ Packed([f EXCEPT ![a] = f[a] + size])
        /\ Covered([f EXCEPT ![a] = f[a] + size]) = Covered(f) \cup Units(b, size)
      BY <1>2, <2>3, BlockLengthened
  <2> QED
      BY <2>4 DEF f
<1>11. Packed(SizesOf(g)) /\ Covered(SizesOf(g)) = Covered(SizesOf(h))
    BY <1>4, <1>7, <1>9, <1>10
<1>12. Cardinality(Free(g)) = Cardinality(Free(h)) - 1
  <2>1. IsFiniteSet(Free(h))
      BY FreeIsFinite DEF GoodHeap
  <2>2. Cardinality(Free(h) \ {b}) = Cardinality(Free(h)) - 1
      BY <1>1, <2>1, FS_RemoveElement
  <2> QED
      BY <1>4, <1>9, <2>2
<1> QED
    BY <1>9, <1>11, <1>12 DEF GoodHeap, g

(* One round of BG_DefragmentMemory, and all. *)
Round(h) == IF Adjoining(h) = {} THEN h ELSE Absorbed(h, FirstOf(h, Adjoining(h)))
Alike(h) == {g \in Heaps : GoodHeap(g) /\ Covered(SizesOf(g)) = Covered(SizesOf(h))}

LEMMA RoundKeeps ==
  ASSUME NEW h, NEW g \in Alike(h)
  PROVE  /\ Round(g) \in Alike(h)
         /\ Adjoining(g) # {} => Cardinality(Free(Round(g))) = Cardinality(Free(g)) - 1
<1>1. g \in Heaps /\ GoodHeap(g) /\ Covered(SizesOf(g)) = Covered(SizesOf(h))
    BY DEF Alike
<1>2. CASE Adjoining(g) = {}
    BY <1>2 DEF Round
<1>3. CASE Adjoining(g) # {}
  <2>1. Adjoining(g) \subseteq Free(g)
      BY DEF Adjoining
  <2>2. FirstOf(g, Adjoining(g)) \in Adjoining(g)
      BY <1>1, <1>3, <2>1, FirstFound DEF GoodHeap
  <2>3. Round(g) = Absorbed(g, FirstOf(g, Adjoining(g)))
      BY <1>3 DEF Round
  <2>4. /\ GoodHeap(Round(g)) /\ Covered(SizesOf(Round(g))) = Covered(SizesOf(g))
        /\ Cardinality(Free(Round(g))) = Cardinality(Free(g)) - 1
      BY <1>1, <2>2, <2>3, AbsorbedKeeps
  <2> QED
      BY <1>1, <2>4 DEF Alike, GoodHeap
<1> QED
    BY <1>2, <1>3

LEMMA RoundsExist ==
  ASSUME NEW h, GoodHeap(h)
  PROVE  \E r : /\ r \in [Nat -> Alike(h)] /\ r[0] = h /\ \A k \in Nat : r[k + 1] = Round(r[k])
<1>1. PICK E : E = Alike(h)
    OBVIOUS
<1>2. PICK follow : follow = [g \in E |-> Round(g)]
    OBVIOUS
<1>3. follow \in [E -> E] /\ h \in E
    BY <1>1, <1>2, RoundKeeps DEF Alike, GoodHeap
<1>4. PICK r \in [Nat -> E] : r[0] = h /\ \A k \in Nat : r[k + 1] = follow[r[k]]
    BY ONLY <1>3, Iterates
<1>5. \A k \in Nat : r[k + 1] = Round(r[k])
    BY <1>2, <1>4
<1> QED
    BY <1>1, <1>4, <1>5

LEMMA RoundsOf ==
  ASSUME NEW h, GoodHeap(h)
  PROVE  \E r : /\ r[0] = h /\ (\A k \in Nat : r[k + 1] = Round(r[k]))
                /\ Defragmented(h) = r[Cardinality(Free(h))]
<1> DEFINE Rounds(r) == [k \in Nat |-> IF k = 0 THEN h
                                       ELSE IF Adjoining(r[k - 1]) = {} THEN r[k - 1]
                                       ELSE Absorbed(r[k - 1], FirstOf(r[k - 1], Adjoining(r[k - 1])))]
           round == CHOOSE r : r = Rounds(r)
<1>1. \E r : r = Rounds(r)
  <2>1. PICK r : /\ r \in [Nat -> Alike(h)] /\ r[0] = h /\ \A k \in Nat : r[k + 1] = Round(r[k])
      BY RoundsExist
  <2>2. ASSUME NEW k \in Nat PROVE r[k] = Rounds(r)[k]
    <3>1. CASE k = 0
        BY <2>1, <3>1
    <3>2. CASE k # 0
      <4>1. k - 1 \in Nat /\ (k - 1) + 1 = k
          BY <3>2
      <4>2. r[k] = Round(r[k - 1])
          BY <2>1, <4>1
      <4> QED
          BY <3>2, <4>2 DEF Round
    <3> QED
        BY <3>1, <3>2
  <2>3. DOMAIN Rounds(r) = Nat /\ r = [k \in Nat |-> r[k]]
      BY <2>1
  <2>4. r = [k \in Nat |-> Rounds(r)[k]]
      BY <2>2, <2>3
  <2> QED
      BY <2>4
<1>2. round = Rounds(round)
    BY <1>1
<1>3. Defragmented(h) = round[Cardinality(Free(h))]
    BY DEF Defragmented
<1> HIDE DEF round
<1>4. \A k \in Nat : Rounds(round)[k] = IF k = 0 THEN h ELSE Round(round[k - 1])
    BY DEF Round
<1> HIDE DEF Rounds
<1>5. \A k \in Nat : round[k] = IF k = 0 THEN h ELSE Round(round[k - 1])
    BY <1>2, <1>4
<1>6. \A k \in Nat : round[k + 1] = Round(round[k])
  <2> SUFFICES ASSUME NEW k \in Nat PROVE round[k + 1] = Round(round[k])
      OBVIOUS
  <2>1. k + 1 \in Nat /\ k + 1 # 0 /\ (k + 1) - 1 = k
      OBVIOUS
  <2> QED
      BY <1>5, <2>1
<1> QED
    BY <1>3, <1>5, <1>6

(* As many rounds as there are free blocks are enough: each makes one of   *)
(* two, until none adjoin. *)
LEMMA DefragmentedIs ==
  ASSUME NEW h, GoodHeap(h)
  PROVE  /\ GoodHeap(Defragmented(h)) /\ Covered(SizesOf(Defragmented(h))) = Covered(SizesOf(h))
         /\ Adjoining(Defragmented(h)) = {}
<1>1. PICK r : /\ r[0] = h /\ (\A k \in Nat : r[k + 1] = Round(r[k]))
               /\ Defragmented(h) = r[Cardinality(Free(h))]
    BY RoundsOf
<1> DEFINE C == Cardinality(Free(h))
           S == {k \in Nat : r[k] \in Alike(h) /\ (Adjoining(r[k]) = {} \/ Cardinality(Free(r[k])) = C - k)}
<1>2. C \in Nat
    BY FreeIsFinite DEF GoodHeap
<1>3. 0 \in S
    BY <1>1, <1>2 DEF Alike, GoodHeap
<1>4. \A k \in S : k + 1 \in S
  <2> SUFFICES ASSUME NEW k \in S PROVE k + 1 \in S
      OBVIOUS
  <2>1. r[k + 1] = Round(r[k]) /\ r[k] \in Alike(h)
      BY <1>1
  <2>2. r[k + 1] \in Alike(h)
      BY <2>1, RoundKeeps
  <2>3. Adjoining(r[k + 1]) = {} \/ Cardinality(Free(r[k + 1])) = C - (k + 1)
    <3>1. CASE Adjoining(r[k]) = {}
        BY <2>1, <3>1 DEF Round
    <3>2. CASE Adjoining(r[k]) # {}
      <4>1. Cardinality(Free(r[k])) = C - k
          BY <3>2
      <4>2. Cardinality(Free(r[k + 1])) = Cardinality(Free(r[k])) - 1
          BY <2>1, <3>2, RoundKeeps
      <4> QED
          BY <1>2, <4>1, <4>2
    <3> QED
        BY <3>1, <3>2
  <2> QED
      BY <2>2, <2>3
<1> HIDE DEF S
<1>5. S = Nat
    BY <1>3, <1>4, AllNumbers DEF S
<1>6. r[C] \in Alike(h) /\ (Adjoining(r[C]) = {} \/ Cardinality(Free(r[C])) = 0)
    BY <1>2, <1>5 DEF S
<1>7. Cardinality(Free(r[C])) = 0 => Adjoining(r[C]) = {}
  <2>1. IsFiniteSet(Free(r[C]))
      BY <1>6, FreeIsFinite DEF Alike
  <2>2. Cardinality(Free(r[C])) = 0 => Free(r[C]) = {}
      BY <2>1, FS_EmptySet
  <2> QED
      BY <2>2 DEF Adjoining
<1> QED
    BY <1>1, <1>6, <1>7 DEF Alike
-----------------------------------------------------------------------------
(* The free blocks and those handed out share the pool out among them. *)
Pool(h, f, m) ==
    /\ GoodHeap(h) /\ Packed(f)
    /\ Covered(SizesOf(h)) \cap Covered(f) = {}
    /\ Covered(SizesOf(h)) \cup Covered(f) = Addresses
    /\ m = Cardinality(Covered(SizesOf(h)))
MemInd == Pool(heap, used, freeMem) /\ crashed \in BOOLEAN

LEMMA CoveredCount ==
  ASSUME NEW f, NEW a \in Int, NEW n \in Nat
  PROVE  /\ IsFiniteSet(Covered(f)) /\ Cardinality(Covered(f)) \in Nat
         /\ IsFiniteSet(Units(a, n)) /\ Cardinality(Units(a, n)) = n
<1>1. IsFiniteSet(Addresses)
    BY PoolIsNumber, FS_Interval DEF Addresses
<1>2. IsFiniteSet(Covered(f))
    BY <1>1, FS_Subset DEF Covered
<1>3. a + n - 1 \in Int /\ (IF a > a + n - 1 THEN 0 ELSE (a + n - 1) - a + 1) = n
    OBVIOUS
<1>4. IsFiniteSet(Units(a, n)) /\ Cardinality(Units(a, n)) = n
    BY <1>3, FS_Interval DEF Units
<1> QED
    BY <1>2, <1>4, FS_CardinalityType

(* Units that were free are handed out. *)
LEMMA TakenKeeps ==
  ASSUME NEW h, NEW f, NEW m, Pool(h, f, m), NEW g, GoodHeap(g),
         NEW a \in Addresses, NEW n \in 1..PoolSize, a + n <= PoolSize,
         Units(a, n) \subseteq Covered(SizesOf(h)),
         Covered(SizesOf(g)) = Covered(SizesOf(h)) \ Units(a, n)
  PROVE  Pool(g, Added(f, a, n), m - n)
<1>1. /\ Packed(Added(f, a, n)) /\ Covered(Added(f, a, n)) = Covered(f) \cup Units(a, n)
  <2>1. Units(a, n) \cap Covered(f) = {}
      BY DEF Pool
  <2> QED
      BY <2>1, BlockAdded DEF Pool
<1>2. Cardinality(Covered(SizesOf(g))) = m - n
  <2>1. a \in Int /\ n \in Nat
      BY PoolIsNumber DEF Addresses
  <2>2. /\ IsFiniteSet(Covered(SizesOf(h))) /\ Cardinality(Units(a, n)) = n
      BY <2>1, CoveredCount
  <2>3. Covered(SizesOf(h)) \cap Units(a, n) = Units(a, n)
      OBVIOUS
  <2>4. Cardinality(Covered(SizesOf(h)) \ Units(a, n))
          = Cardinality(Covered(SizesOf(h))) - Cardinality(Covered(SizesOf(h)) \cap Units(a, n))
      BY <2>2, FS_Difference
  <2> QED
      BY <2>2, <2>3, <2>4 DEF Pool
<1> QED
    BY <1>1, <1>2 DEF Pool

(* A block that was handed out is free again. *)
LEMMA ReturnedKeeps ==
  ASSUME NEW h, NEW f, NEW m, Pool(h, f, m), NEW g, GoodHeap(g), NEW a \in DOMAIN f,
         Covered(SizesOf(g)) = Covered(SizesOf(h)) \cup Units(a, f[a])
  PROVE  Pool(g, Without(f, a), m + f[a])
<1>1. /\ Packed(Without(f, a)) /\ Covered(Without(f, a)) = Covered(f) \ Units(a, f[a])
      /\ Units(a, f[a]) \subseteq Covered(f)
    BY BlockRemoved DEF Pool
<1>2. a \in Int /\ f[a] \in Nat
    BY PackedParts, PoolIsNumber DEF Pool, Addresses
<1>3. Cardinality(Covered(SizesOf(g))) = m + f[a]
  <2>1. /\ IsFiniteSet(Covered(SizesOf(h))) /\ Cardinality(Covered(SizesOf(h))) \in Nat
        /\ IsFiniteSet(Units(a, f[a])) /\ Cardinality(Units(a, f[a])) = f[a]
      BY <1>2, CoveredCount
  <2>2. Covered(SizesOf(h)) \cap Units(a, f[a]) = {}
      BY <1>1 DEF Pool
  <2>3. Cardinality(Covered(SizesOf(h)) \cup Units(a, f[a]))
          = Cardinality(Covered(SizesOf(h))) + Cardinality(Units(a, f[a]))
              - Cardinality(Covered(SizesOf(h)) \cap Units(a, f[a]))
      BY <2>1, FS_Union
  <2>4. Cardinality(Covered(SizesOf(h)) \cap Units(a, f[a])) = 0
      BY <2>2, FS_EmptySet
  <2>5. Cardinality(Covered(SizesOf(g))) = Cardinality(Covered(SizesOf(h)) \cup Units(a, f[a]))
      OBVIOUS
  <2>6. m = Cardinality(Covered(SizesOf(h)))
      BY DEF Pool
  <2> HIDE DEF Units
  <2> QED
      BY ONLY <1>2, <2>1, <2>3, <2>4, <2>5, <2>6
<1> QED
    BY <1>1, <1>3 DEF Pool

LEMMA MemInitHolds == MemInit => MemInd
<1> SUFFICES ASSUME MemInit PROVE MemInd
    OBVIOUS
<1> DEFINE whole == [size |-> PoolSize, prev |-> Null, next |-> Null]
           f == [a \in {0} |-> whole]
<1>1. 0 \in Addresses /\ PoolSize \in 1..PoolSize /\ whole \in Block
    BY PoolIsNumber DEF Addresses, Block
<1>2. {0} \in SUBSET Addresses /\ f \in [{0} -> Block]
    BY <1>1
<1>3. heap = [head |-> 0, block |-> f]
    BY DEF MemInit
<1>4. f[0].size = PoolSize /\ f[0].next = Null /\ f[0].prev = Null
    OBVIOUS
<1> HIDE DEF f, whole
<1>5. heap \in Heaps /\ heap.head = 0 /\ heap.block = f /\ Free(heap) = {0}
    BY <1>1, <1>2, <1>3, HeapOf
<1>6. ListLinked(heap)
  <2>1. \E rank : Ranked(heap, rank)
    <3>1. [a \in Addresses |-> 0] \in [Addresses -> Nat]
        OBVIOUS
    <3> QED
        BY <1>4, <1>5, <3>1 DEF Ranked
  <2> QED
      BY <1>4, <1>5, <2>1 DEF ListLinked
<1>7. SizesOf(heap) = [a \in {0} |-> PoolSize]
    BY <1>4, <1>5 DEF SizesOf
<1>8. Packed(SizesOf(heap)) /\ Covered(SizesOf(heap)) = Addresses
  <2>1. SizesOf(heap) \in [{0} -> 1..PoolSize]
      BY <1>1, <1>7
  <2>2. SizesOf(heap) \in BlockSizes
      BY <1>2, <2>1 DEF BlockSizes
  <2>3. 0 + PoolSize <= PoolSize
      BY PoolIsNumber
  <2>4. Packed(SizesOf(heap))
      BY <1>7, <2>2, <2>3 DEF Packed
  <2> QED
      BY <1>7, <2>4, PoolIsNumber DEF Covered, Addresses
<1>9. Packed(used) /\ Covered(used) = {}
  <2>1. used = [a \in {} |-> 0] /\ DOMAIN used = {}
      BY DEF MemInit
  <2>2. used \in [{} -> 1..PoolSize]
      BY <2>1
  <2>3. used \in BlockSizes
      BY <2>2 DEF BlockSizes
  <2> QED
      BY <2>1, <2>3 DEF Packed, Covered
<1>10. freeMem = Cardinality(Addresses)
  <2>1. Cardinality(0..PoolSize - 1) = PoolSize
      BY PoolIsNumber, FS_Interval
  <2> QED
      BY <2>1 DEF MemInit, Addresses
<1> QED
    BY <1>5, <1>6, <1>8, <1>9, <1>10 DEF MemInd, Pool, GoodHeap, MemInit

(* BG_Alloc *)
LEMMA AllocKeeps ==
  ASSUME MemInd, NEW n \in 1..PoolSize, BG_Alloc(n)
  PROVE  Pool(heap', used', freeMem')
<1> DEFINE h == heap
<1>1. Pool(h, used, freeMem) /\ GoodHeap(h) /\ h \in Heaps /\ ListLinked(h)
    BY DEF MemInd, Pool, GoodHeap
<1>2. Large(n) \subseteq Free(h) /\ Large(n) # {} /\ freeMem' = freeMem - n
    BY DEF BG_Alloc, Large
<1>3. CASE Exact(n) # {}
  <2>1. PICK a : a = FirstOf(h, Exact(n))
      OBVIOUS
  <2>2. Exact(n) \in SUBSET Free(h)
      BY <1>2 DEF Exact
  <2>3. a \in Exact(n)
      BY <1>1, <1>3, <2>1, <2>2, FirstFound
  <2>4. a \in Free(h) /\ h.block[a].size = n
      BY <2>2, <2>3 DEF Exact
  <2>5. heap' = Unlinked(h, a) /\ used' = Added(used, a, n)
      BY <1>3, <2>1 DEF BG_Alloc
  <2>6. /\ GoodHeap(heap')
        /\ Covered(SizesOf(heap')) = Covered(SizesOf(h)) \ Units(a, n)
        /\ Units(a, n) \subseteq Covered(SizesOf(h))
      BY <1>1, <2>4, <2>5, UnlinkedSizes
  <2>7. a \in Addresses
      BY <1>1, <2>4, HeapParts
  <2>8. a + n <= PoolSize
      BY <1>1, <2>4, SizesAre DEF GoodHeap, Packed
  <2> HIDE DEF h
  <2> QED
      BY <1>1, <1>2, <2>5, <2>6, <2>7, <2>8, TakenKeeps
<1>4. CASE Exact(n) = {}
  <2>1. Smallest(n) # {}
    <3> DEFINE S == {h.block[b].size : b \in Large(n)}
    <3>1. \A b \in Large(n) : h.block[b].size \in Nat
        BY <1>1, <1>2, HeapParts, PoolIsNumber
    <3>2. S \in SUBSET Nat /\ S # {}
        BY <1>2, <3>1
    <3> HIDE DEF S
    <3>3. PICK x \in S : \A y \in S : x <= y
        BY <3>2, LeastNumber
    <3>4. PICK b \in Large(n) : x = h.block[b].size
        BY DEF S
    <3>5. \A c \in Large(n) : h.block[b].size <= h.block[c].size
        BY <3>3, <3>4 DEF S
    <3> QED
        BY <3>5 DEF Smallest
  <2>2. PICK a : a = FirstOf(h, Smallest(n))
      OBVIOUS
  <2>3. Smallest(n) \in SUBSET Free(h)
      BY <1>2 DEF Smallest
  <2>4. a \in Smallest(n)
      BY <1>1, <2>1, <2>2, <2>3, FirstFound
  <2>5. a \in Free(h) /\ h.block[a].size >= n /\ h.block[a].size # n
      BY <1>4, <2>4 DEF Smallest, Large, Exact
  <2>6. PICK left : left = h.block[a].size - n
      OBVIOUS
  <2>7. heap' = [h EXCEPT !.block[a].size = left] /\ used' = Added(used, a + left, n)
      BY <1>4, <2>2, <2>6 DEF BG_Alloc
  <2>8. h.block[a].size \in 1..PoolSize /\ n < h.block[a].size /\ left \in 1..PoolSize /\ a \in Int
      BY <1>1, <2>5, <2>6, HeapParts, PoolIsNumber DEF Addresses
  <2>9. heap' \in Heaps /\ ListLinked(heap') /\ SizesOf(heap') = [SizesOf(h) EXCEPT ![a] = left]
      BY <1>1, <2>5, <2>7, <2>8, ResizedKeeps
  <2>10. PICK f : f = SizesOf(h)
      OBVIOUS
  <2>11. Packed(f) /\ a \in DOMAIN f /\ f[a] = h.block[a].size
      BY <1>1, <2>5, <2>10, SizesAre DEF GoodHeap
  <2>12. f[a] - n = left /\ a + f[a] - n = a + left
      BY <2>6, <2>8, <2>11
  <2>13. /\ Packed([f EXCEPT ![a] = left])
         /\ Covered([f EXCEPT ![a] = left]) = Covered(f) \ Units(a + left, n)
         /\ Units(a + left, n) \subseteq Covered(f)
         /\ a + left \in Addresses /\ (a + left) + n <= PoolSize
    <3>1. n < f[a]
        BY <2>8, <2>11
    <3>2. /\ Packed([f EXCEPT ![a] = f[a] - n])
          /\ Covered([f EXCEPT ![a] = f[a] - n]) = Covered(f) \ Units(a + f[a] - n, n)
          /\ Units(a + f[a] - n, n) \subseteq Covered(f)
          /\ a + f[a] - n \in Addresses /\ (a + f[a] - n) + n <= PoolSize
        BY <2>11, <3>1, BlockShortened
    <3> QED
        BY ONLY <2>12, <3>2
  <2>14. GoodHeap(heap')
      BY <2>9, <2>10, <2>13 DEF GoodHeap
  <2> HIDE DEF h
  <2> QED
      BY <1>1, <1>2, <2>7, <2>9, <2>10, <2>13, <2>14, TakenKeeps
<1> QED
    BY <1>3, <1>4

(* BG_Free *)
LEMMA FreeKeeps ==
  ASSUME MemInd, NEW a \in DOMAIN used, BG_Free(a)
  PROVE  Pool(heap', used', freeMem')
<1> DEFINE h == heap
           n == used[a]
<1>1. Pool(h, used, freeMem) /\ GoodHeap(h) /\ h \in Heaps /\ ListLinked(h)
    BY DEF MemInd, Pool, GoodHeap
<1>2. freeMem' = freeMem + n /\ used' = Without(used, a)
    BY DEF BG_Free
<1>3. a \in Addresses /\ n \in 1..PoolSize /\ a \in Int /\ a + n <= PoolSize
    BY <1>1, PackedParts, PoolIsNumber DEF Pool, Packed, Addresses
<1>4. Units(a, n) \subseteq Covered(used) /\ Units(a, n) \cap Covered(SizesOf(h)) = {}
    BY <1>1, BlockRemoved DEF Pool
<1>5. a \notin Free(h)
  <2> SUFFICES ASSUME a \in Free(h) PROVE FALSE
      OBVIOUS
  <2>1. a \in Units(a, n)
      BY <1>3, UnitsAre, PoolIsNumber
  <2>2. h.block[a].size \in 1..PoolSize
      BY <1>1, HeapParts
  <2>3. a \in Covered(SizesOf(h))
      BY <1>3, <2>2, SizesAre, PoolIsNumber DEF Covered
  <2> QED
      BY <1>4, <2>1, <2>3
<1>6. SUFFICES /\ GoodHeap(heap')
               /\ Covered(SizesOf(heap')) = Covered(SizesOf(h)) \cup Units(a, n)
  <2> HIDE DEF h
  <2> QED
      BY <1>1, <1>2, ReturnedKeeps
<1>7. CASE Before(a) # {}
  <2>1. PICK b : b = FirstOf(h, Before(a))
      OBVIOUS
  <2>2. Before(a) \in SUBSET Free(h)
      BY DEF Before
  <2>3. b \in Before(a)
      BY <1>1, <1>7, <2>1, <2>2, FirstFound
  <2>4. b \in Free(h) /\ b + h.block[b].size = a /\ h.block[b].size \in 1..PoolSize /\ b \in Int
      BY <1>1, <2>3, HeapParts, PoolIsNumber DEF Before, Addresses
  <2>5. PICK long : long = h.block[b].size + n
      OBVIOUS
  <2>6. heap' = [h EXCEPT !.block[b].size = long]
    <3>1. heap' = [h EXCEPT !.block[b].size = @ + n]
        BY <1>7, <2>1 DEF BG_Free
    <3>2. b \in DOMAIN h.block
        BY <2>4 DEF Free
    <3> HIDE DEF h, n
    <3> QED
        BY <1>1, <2>5, <3>1, <3>2 DEF Heaps
  <2>7. long \in 1..PoolSize
      BY <1>1, <1>3, <2>4, <2>5, HeapParts, PoolIsNumber DEF Addresses
  <2>8. heap' \in Heaps /\ ListLinked(heap') /\ SizesOf(heap') = [SizesOf(h) EXCEPT ![b] = long]
      BY <1>1, <2>4, <2>6, <2>7, ResizedKeeps
  <2>9. PICK f : f = SizesOf(h)
      OBVIOUS
  <2>10. Packed(f) /\ b \in DOMAIN f /\ f[b] = h.block[b].size
      BY <1>1, <2>4, <2>9, SizesAre DEF GoodHeap
  <2>11. b + f[b] = a /\ f[b] + n = long /\ b + f[b] + n <= PoolSize
      BY <1>3, <2>4, <2>5, <2>10
  <2>12. Packed([f EXCEPT ![b] = long]) /\ Covered([f EXCEPT ![b] = long]) = Covered(f) \cup Units(a, n)
    <3>1. Units(b + f[b], n) \cap Covered(f) = {}
        BY <1>4, <2>9, <2>11
    <3> HIDE DEF n, h
    <3>2. /\ Packed([f EXCEPT ![b] = f[b] + n])
          /\ Covered([f EXCEPT ![b] = f[b] + n]) = Covered(f) \cup Units(b + f[b], n)
        BY <1>3, <2>10, <2>11, <3>1, BlockLengthened
    <3> QED
        BY ONLY <2>11, <3>2
  <2> QED
      BY <2>8, <2>9, <2>12 DEF GoodHeap
<1>8. CASE Before(a) = {}
  <2>1. PICK linked : linked = [b \in Free(h) |-> IF b = h.head THEN [h.block[b] EXCEPT !.prev = a] ELSE h.block[b]]
      OBVIOUS
  <2>2. heap' = [head |-> a, block |-> Added(linked, a, [size |-> n, prev |-> Null, next |-> h.head])]
      BY <1>8, <2>1 DEF BG_Free
  <2>3. /\ heap' \in Heaps /\ ListLinked(heap') /\ Free(heap') = Free(h) \cup {a} /\ heap'.block[a].size = n
        /\ \A b \in Free(h) : heap'.block[b].size = h.block[b].size
    <3> HIDE DEF h, n
    <3>1. a \in Addresses \ Free(h)
        BY <1>3, <1>5
    <3> QED
        BY <1>1, <1>3, <2>1, <2>2, <3>1, HeadLinked
  <2>4. SizesOf(heap') = Added(SizesOf(h), a, n)
      BY <1>5, <2>3 DEF SizesOf, Added
  <2>5. /\ Packed(Added(SizesOf(h), a, n))
        /\ Covered(Added(SizesOf(h), a, n)) = Covered(SizesOf(h)) \cup Units(a, n)
      BY <1>1, <1>3, <1>4, BlockAdded DEF GoodHeap
  <2> QED
      BY <2>3, <2>4, <2>5 DEF GoodHeap
<1> QED
    BY <1>7, <1>8

LEMMA MemStepKeeps ==
  ASSUME MemInd, [MemNext]_memVars
  PROVE  MemInd'
<1>1. CASE UNCHANGED memVars
    BY <1>1 DEF MemInd, memVars
<1>2. ASSUME NEW n \in 1..PoolSize, BG_Alloc(n) PROVE MemInd'
    BY <1>2, AllocKeeps DEF MemInd, BG_Alloc
<1>3. ASSUME NEW a \in DOMAIN used, BG_Free(a) PROVE MemInd'
    BY <1>3, FreeKeeps DEF MemInd, BG_Free
<1>4. CASE BG_DefragmentMemory
  <2>1. heap' = Defragmented(heap) /\ UNCHANGED <<used, freeMem, crashed>>
      BY <1>4 DEF BG_DefragmentMemory
  <2>2. GoodHeap(heap') /\ Covered(SizesOf(heap')) = Covered(SizesOf(heap))
      BY <2>1, DefragmentedIs DEF MemInd, Pool
  <2> QED
      BY <2>1, <2>2 DEF MemInd, Pool
<1> QED
    BY <1>1, <1>2, <1>3, <1>4 DEF MemNext

(* A unit lies in one block of those it is covered by, or in none. *)
LEMMA OneAtMost ==
  ASSUME NEW f, Packed(f), NEW u \in Addresses
  PROVE  /\ Cardinality({a \in DOMAIN f : u \in Units(a, f[a])}) = IF u \in Covered(f) THEN 1 ELSE 0
         /\ {a \in DOMAIN f : u \in Units(a, f[a])} # {} <=> u \in Covered(f)
<1> DEFINE At == {a \in DOMAIN f : u \in Units(a, f[a])}
<1>1. u \in Int /\ \A a \in DOMAIN f : a \in Int /\ f[a] \in Int
    BY PackedParts, PoolIsNumber DEF Addresses
<1>2. \A a \in DOMAIN f : u \in Units(a, f[a]) <=> a <= u /\ u < a + f[a]
    BY <1>1, UnitsAre
<1>3. At # {} <=> u \in Covered(f)
    BY <1>2 DEF Covered
<1>4. \A a, b \in At : a = b
    BY <1>1, <1>2 DEF Packed
<1>5. CASE u \in Covered(f)
  <2>1. PICK a : At = {a}
      BY <1>3, <1>4, <1>5
  <2> HIDE DEF At
  <2>2. Cardinality(At) = 1
      BY <2>1, FS_Singleton
  <2> QED
      BY <1>3, <1>5, <2>2 DEF At
<1>6. CASE u \notin Covered(f)
  <2>1. At = {}
      BY <1>3, <1>6
  <2> HIDE DEF At
  <2>2. Cardinality(At) = 0
      BY <2>1, FS_EmptySet
  <2> QED
      BY <1>3, <1>6, <2>2 DEF At
<1> QED
    BY <1>5, <1>6

LEMMA WholePool == MemInd => PoolInv
<1> SUFFICES ASSUME MemInd PROVE PoolInv
    OBVIOUS
<1>1. /\ GoodHeap(heap) /\ heap \in Heaps /\ ListLinked(heap) /\ Packed(SizesOf(heap)) /\ Packed(used)
      /\ Covered(SizesOf(heap)) \cap Covered(used) = {}
      /\ Covered(SizesOf(heap)) \cup Covered(used) = Addresses
      /\ freeMem = Cardinality(Covered(SizesOf(heap))) /\ crashed \in BOOLEAN
    BY DEF MemInd, Pool, GoodHeap
<1>2. MemTypeOK
  <2>1. heap = [head |-> heap.head, block |-> heap.block]
      BY <1>1 DEF Heaps
  <2>2. /\ heap.head \in Addresses \cup {Null} /\ DOMAIN heap.block \subseteq Addresses
        /\ \A a \in Free(heap) : heap.block[a] \in Block
      BY <1>1, HeapParts DEF Free
  <2>3. DOMAIN used \subseteq Addresses /\ \A a \in DOMAIN used : used[a] \in 1..PoolSize
      BY <1>1, PackedParts
  <2>4. freeMem \in Int
      BY <1>1, CoveredCount, PoolIsNumber
  <2> QED
      BY <1>1, <2>1, <2>2, <2>3, <2>4 DEF MemTypeOK
<1>3. ListKept
  <2>1. {Nth(heap)[k] : k \in DOMAIN Nth(heap)} \ {Null} = Free(heap)
      BY <1>1, ListIsFree
  <2>2. heap.head # Null => heap.block[heap.head].prev = Null
      BY <1>1 DEF ListLinked
  <2>3. \A a, b \in Free(heap) : heap.block[a].next = b <=> heap.block[b].prev = a
      BY <1>1, HeapParts DEF ListLinked
  <2> QED
      BY <2>1, <2>2, <2>3 DEF ListKept
<1>4. ASSUME NEW u \in Addresses
      PROVE  /\ Cardinality(FreeAt(u)) = IF u \in Covered(SizesOf(heap)) THEN 1 ELSE 0
             /\ FreeAt(u) # {} <=> u \in Covered(SizesOf(heap))
             /\ Cardinality(UsedAt(u)) = IF u \in Covered(used) THEN 1 ELSE 0
  <2>1. FreeAt(u) = {a \in DOMAIN SizesOf(heap) : u \in Units(a, SizesOf(heap)[a])}
      BY SizesAre DEF FreeAt
  <2>2. UsedAt(u) = {a \in DOMAIN used : u \in Units(a, used[a])}
      BY DEF UsedAt
  <2> QED
      BY <1>1, <2>1, <2>2, OneAtMost
<1>5. \A u \in Addresses : Cardinality(FreeAt(u)) + Cardinality(UsedAt(u)) = 1
  <2> SUFFICES ASSUME NEW u \in Addresses PROVE Cardinality(FreeAt(u)) + Cardinality(UsedAt(u)) = 1
      OBVIOUS
  <2>1. u \in Covered(used) <=> u \notin Covered(SizesOf(heap))
      BY <1>1
  <2> QED
      BY <1>4, <2>1
<1>6. \A a \in Free(heap) : a + heap.block[a].size <= PoolSize
    BY <1>1, SizesAre DEF Packed
<1>7. freeMem = Cardinality({u \in Addresses : FreeAt(u) # {}})
  <2>1. {u \in Addresses : FreeAt(u) # {}} = Covered(SizesOf(heap))
      BY <1>4 DEF Covered
  <2> QED
      BY <1>1, <2>1
<1>8. Adjoining(Defragmented(heap)) = {}
    BY <1>1, DefragmentedIs
<1> QED
    BY <1>2, <1>3, <1>5, <1>6, <1>7, <1>8 DEF PoolInv

(* Whatever is allocated, freed and merged (bg_alloc.c:34-203), each unit  *)
(* of the pool is in one block, a free one or one handed out; the list is  *)
(* of the free ones, and freeMem is what they hold; and to defragment the  *)
(* pool would leave no two free blocks side by side. *)
THEOREM PoolIsWhole == MemSpec => []PoolInv
<1>1. MemInd /\ [MemNext]_memVars => MemInd'
    BY MemStepKeeps
<1> QED
    BY <1>1, MemInitHolds, WholePool, PTL DEF MemSpec

==============================================================================
