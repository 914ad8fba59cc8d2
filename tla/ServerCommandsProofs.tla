------------------------- MODULE ServerCommandsProofs -------------------------
(***************************************************************************)
(* Proofs about ServerCommands, for every size of the rings and every      *)
(* bound on the messages that are on their way.                            *)
(***************************************************************************)
EXTENDS ServerCommands, Remainders, SequenceTheorems

LEMMA SizeIsPositive == N \in Nat \ {0}
BY BoundsAssumption DEF N

(* A number has a slot, and numbers less than a ring apart do not share.   *)
LEMMA SlotInRing ==
  ASSUME NEW i \in Nat
  PROVE  Slot(i) \in Slots
BY SizeIsPositive, RemainderInRange DEF Slot, Slots

LEMMA SlotsDiffer ==
  ASSUME NEW i \in Nat, NEW j \in Nat, i < j, j - i < N
  PROVE  Slot(i) # Slot(j)
<1>1. i \in Int /\ j \in Int
    OBVIOUS
<1>2. i % N # j % N
    BY <1>1, SizeIsPositive, RemaindersDiffer, Zenon
<1> QED
    BY <1>2 DEF Slot

-----------------------------------------------------------------------------
(* What a call may do to the client_t.                                     *)

ClientT == [state : States, seq : Nat, ack : Nat, ring : [Slots -> Nat],
            notices : SUBSET Nat, calls : Nat]

(* Within the window, the ring holds what has not been acknowledged.       *)
Keeps(c) ==
    /\ c \in ClientT
    /\ c.ack <= c.seq
    /\ c.seq - c.ack <= N =>
          \A i \in (c.ack + 1)..c.seq : c.ring[Slot(i)] = i

(* And the window is held as long as the client is active.                 *)
Sound(c) == Keeps(c) /\ (c.state = "CS_ACTIVE" => c.seq - c.ack <= N)

Grew(c, d) == d.ack = c.ack /\ c.seq <= d.seq

LEMMA RingField ==
  ASSUME NEW c \in ClientT, NEW n \in Nat, NEW r \in [Slots -> Nat]
  PROVE  [c EXCEPT !.seq = n, !.ring = r] \in ClientT
BY DEF ClientT

LEMMA StoreKeeps ==
  ASSUME NEW c, Keeps(c)
  PROVE  /\ Keeps(Store(c))
         /\ Store(c).seq = c.seq + 1
         /\ Store(c).ack = c.ack
         /\ Store(c).state = c.state
         /\ Store(c).notices = c.notices
         /\ Store(c).calls = c.calls
<1>1. c \in ClientT /\ c.ack <= c.seq
    BY DEF Keeps
<1>2. /\ c.seq \in Nat /\ c.ack \in Nat /\ c.ring \in [Slots -> Nat]
      /\ Slot(c.seq + 1) \in Slots
    BY <1>1, SlotInRing DEF ClientT
<1>3. /\ Store(c).seq = c.seq + 1
      /\ Store(c).ack = c.ack
      /\ Store(c).state = c.state
      /\ Store(c).notices = c.notices
      /\ Store(c).calls = c.calls
      /\ Store(c).ring = [c.ring EXCEPT ![Slot(c.seq + 1)] = c.seq + 1]
    BY <1>1 DEF Store, ClientT
<1>4. Store(c) \in ClientT
  <2> DEFINE n == c.seq + 1
             r == [c.ring EXCEPT ![Slot(n)] = n]
  <2>1. n \in Nat /\ r \in [Slots -> Nat]
      BY <1>2
  <2>2. Store(c) = [c EXCEPT !.seq = n, !.ring = r]
      BY <1>1 DEF Store, ClientT
  <2> HIDE DEF n, r
  <2>3. [c EXCEPT !.seq = n, !.ring = r] \in ClientT
      BY <1>1, <2>1, RingField
  <2> QED
      BY <2>2, <2>3
<1>5. ASSUME c.seq + 1 - c.ack <= N, NEW i \in (c.ack + 1)..(c.seq + 1)
      PROVE  Store(c).ring[Slot(i)] = i
  <2>1. CASE i = c.seq + 1
      BY <2>1, <1>2, <1>3
  <2>2. CASE i < c.seq + 1
    <3>1. i \in Nat /\ i \in (c.ack + 1)..c.seq /\ c.seq - c.ack <= N
        BY <1>1, <1>2, <1>5, <2>2, SizeIsPositive
    <3>2. c.ring[Slot(i)] = i
        BY <3>1 DEF Keeps
    <3>3. Slot(i) # Slot(c.seq + 1)
      <4>1. c.seq + 1 - i < N
          BY <1>2, <1>5, <3>1, SizeIsPositive
      <4> QED
          BY <1>2, <2>2, <3>1, <4>1, SlotsDiffer
    <3>4. Slot(i) \in Slots
        BY <3>1, SlotInRing
    <3> QED
        BY <1>2, <1>3, <3>2, <3>3, <3>4
  <2> QED
      BY <1>2, <1>5, <2>1, <2>2
<1> QED
    BY <1>1, <1>2, <1>3, <1>4, <1>5 DEF Keeps

(* The window does not depend on the other fields.                         *)
LEMMA OtherFields ==
  ASSUME NEW c, Keeps(c), NEW s \in States, NEW n \in SUBSET Nat, NEW k \in Nat
  PROVE  /\ Keeps([c EXCEPT !.state = s])
         /\ Keeps([c EXCEPT !.notices = n])
         /\ Keeps([c EXCEPT !.calls = k])
<1>1. c \in ClientT
    BY DEF Keeps
<1>2. ASSUME NEW d \in ClientT, d.seq = c.seq, d.ack = c.ack, d.ring = c.ring
      PROVE  Keeps(d)
    BY <1>2 DEF Keeps
<1>3. Keeps([c EXCEPT !.state = s])
  <2>1. [c EXCEPT !.state = s] \in ClientT
      BY <1>1 DEF ClientT
  <2> QED
      BY <1>1, <1>2, <2>1 DEF ClientT
<1>4. Keeps([c EXCEPT !.notices = n])
  <2>1. [c EXCEPT !.notices = n] \in ClientT
      BY <1>1 DEF ClientT
  <2> QED
      BY <1>1, <1>2, <2>1 DEF ClientT
<1>5. Keeps([c EXCEPT !.calls = k])
  <2>1. [c EXCEPT !.calls = k] \in ClientT
      BY <1>1 DEF ClientT
  <2> QED
      BY <1>1, <1>2, <2>1 DEF ClientT
<1> QED
    BY <1>3, <1>4, <1>5

LEMMA StoreNoticeKeeps ==
  ASSUME NEW c, Keeps(c)
  PROVE  /\ Keeps(StoreNotice(c))
         /\ StoreNotice(c).seq = c.seq + 1
         /\ StoreNotice(c).ack = c.ack
         /\ StoreNotice(c).state = c.state
<1>1. Keeps(Store(c)) /\ Store(c) \in ClientT /\ c \in ClientT
    BY StoreKeeps DEF Keeps
<1> DEFINE n == Store(c).notices \cup {c.seq + 1}
<1>2. n \in SUBSET Nat
    BY <1>1 DEF ClientT
<1>3. StoreNotice(c) = [Store(c) EXCEPT !.notices = n]
    BY <1>1 DEF StoreNotice, ClientT
<1> HIDE DEF n
<1>4. Keeps(StoreNotice(c))
  <2>1. Keeps([Store(c) EXCEPT !.notices = n])
      BY <1>1, <1>2, OtherFields DEF States
  <2> QED
      BY <1>3, <2>1
<1>5. /\ StoreNotice(c).seq = Store(c).seq
      /\ StoreNotice(c).ack = Store(c).ack
      /\ StoreNotice(c).state = Store(c).state
    BY <1>1, <1>3 DEF ClientT
<1> QED
    BY <1>4, <1>5, StoreKeeps

(* A client that overflows is dropped, and its window is lost.             *)
LEMMA DropOverflowedSound ==
  ASSUME NEW c, Keeps(c), Overflows(c)
  PROVE  Sound(DropOverflowed(c)) /\ Grew(c, DropOverflowed(c))
<1> DEFINE lost == [c EXCEPT !.seq = @ + 1]
           told == [Store(lost) EXCEPT !.calls = @ + 1]
           stored == StoreNotice(Store(told))
<1>1. c \in ClientT /\ c.ack <= c.seq /\ c.seq \in Nat /\ c.ack \in Nat
    BY DEF Keeps, ClientT
<1>2. /\ lost.seq = c.seq + 1 /\ lost.ack = c.ack
      /\ lost \in ClientT
    BY <1>1 DEF ClientT
<1> HIDE DEF lost
<1>3. lost.seq - lost.ack = N + 1 /\ N \in Nat
    BY <1>1, <1>2, SizeIsPositive DEF Overflows
<1>4. Keeps(lost)
    BY <1>1, <1>2, <1>3 DEF Keeps
<1>5. /\ Keeps(Store(lost)) /\ Store(lost) \in ClientT
      /\ Store(lost).seq = lost.seq + 1 /\ Store(lost).ack = lost.ack
    BY <1>4, StoreKeeps DEF Keeps
<1>6. Keeps(told) /\ told.seq = lost.seq + 1 /\ told.ack = lost.ack
  <2> DEFINE k == Store(lost).calls + 1
  <2>1. k \in Nat /\ told = [Store(lost) EXCEPT !.calls = k]
      BY <1>5 DEF ClientT
  <2> HIDE DEF k
  <2>2. Keeps([Store(lost) EXCEPT !.calls = k])
      BY <1>5, <2>1, OtherFields DEF States
  <2> QED
      BY <1>5, <2>1, <2>2 DEF ClientT
<1> HIDE DEF told
<1>7. Keeps(Store(told)) /\ Store(told).seq = lost.seq + 2 /\ Store(told).ack = lost.ack
  <2>1. Keeps(Store(told)) /\ Store(told).seq = told.seq + 1 /\ Store(told).ack = told.ack
      BY <1>6, StoreKeeps
  <2> QED
      BY <1>1, <1>2, <1>6, <2>1
<1>8. Keeps(stored) /\ stored.seq = lost.seq + 3 /\ stored.ack = lost.ack
  <2>1. /\ Keeps(stored) /\ stored.seq = Store(told).seq + 1
        /\ stored.ack = Store(told).ack
      BY <1>7, StoreNoticeKeeps
  <2> QED
      BY <1>1, <1>2, <1>7, <2>1
<1>9. DropOverflowed(c) = [stored EXCEPT !.state = "CS_ZOMBIE"]
    BY DEF DropOverflowed, lost, told
<1> HIDE DEF stored
<1>10. stored \in ClientT /\ Keeps([stored EXCEPT !.state = "CS_ZOMBIE"])
    BY <1>8, OtherFields DEF States, Keeps
<1>11. /\ DropOverflowed(c).seq = lost.seq + 3
       /\ DropOverflowed(c).ack = lost.ack
       /\ DropOverflowed(c).state = "CS_ZOMBIE"
    BY <1>8, <1>9, <1>10 DEF ClientT
<1>12. Keeps(DropOverflowed(c))
    BY <1>9, <1>10
<1>13. Grew(c, DropOverflowed(c))
    BY <1>1, <1>2, <1>11 DEF Grew
<1> QED
    BY <1>11, <1>12, <1>13 DEF Sound

LEMMA AddSound ==
  ASSUME NEW c, Sound(c)
  PROVE  /\ Sound(AddServerCommand(c)) /\ Grew(c, AddServerCommand(c))
         /\ Sound(AddNotice(c)) /\ Grew(c, AddNotice(c))
<1>1. c \in ClientT /\ Keeps(c) /\ c.seq \in Nat /\ c.ack \in Nat /\ c.ack <= c.seq
    BY DEF Sound, Keeps, ClientT
<1>2. CASE c.state # "CS_ACTIVE"
  <2>1. AddServerCommand(c) = c /\ AddNotice(c) = c
      BY <1>2 DEF AddServerCommand, AddNotice
  <2> QED
      BY <1>1, <2>1 DEF Grew
<1>3. CASE c.state = "CS_ACTIVE" /\ Overflows(c)
  <2>1. AddServerCommand(c) = DropOverflowed(c) /\ AddNotice(c) = DropOverflowed(c)
      BY <1>3 DEF AddServerCommand, AddNotice
  <2> QED
      BY <1>1, <1>3, <2>1, DropOverflowedSound
<1>4. CASE c.state = "CS_ACTIVE" /\ ~Overflows(c)
  <2>1. AddServerCommand(c) = Store(c) /\ AddNotice(c) = StoreNotice(c)
      BY <1>4 DEF AddServerCommand, AddNotice
  <2>2. c.seq - c.ack <= N /\ c.seq + 1 - c.ack # N + 1 /\ N \in Nat
      BY <1>4, SizeIsPositive DEF Sound, Overflows
  <2>3. c.seq + 1 - c.ack <= N
      BY <1>1, <2>2
  <2>4. /\ Keeps(Store(c)) /\ Store(c).seq = c.seq + 1 /\ Store(c).ack = c.ack
        /\ Keeps(StoreNotice(c)) /\ StoreNotice(c).seq = c.seq + 1
        /\ StoreNotice(c).ack = c.ack
      BY <1>1, StoreKeeps, StoreNoticeKeeps
  <2>5. /\ Sound(Store(c)) /\ Sound(StoreNotice(c))
        /\ Grew(c, Store(c)) /\ Grew(c, StoreNotice(c))
      BY <1>1, <2>3, <2>4 DEF Sound, Grew
  <2> QED
      BY <2>1, <2>5
<1> QED
    BY <1>2, <1>3, <1>4

LEMMA DropClientSound ==
  ASSUME NEW c, Sound(c), NEW s \in {"CS_ZOMBIE", "CS_FREE"}
  PROVE  LET d == [DropClient(c) EXCEPT !.state = s]
         IN  Sound(d) /\ Grew(c, d) /\ d.state = s
<1> DEFINE printed == AddServerCommand(c)
           called == [printed EXCEPT !.calls = @ + 1]
           cleared == AddServerCommand(called)
           noticed == AddNotice(cleared)
           d == [DropClient(c) EXCEPT !.state = s]
<1>1. Sound(printed) /\ Grew(c, printed) /\ printed \in ClientT
    BY AddSound DEF Sound, Keeps
<1> HIDE DEF printed
<1>2. Sound(called) /\ Grew(printed, called)
  <2> DEFINE k == printed.calls + 1
  <2>1. k \in Nat /\ called = [printed EXCEPT !.calls = k]
      BY <1>1 DEF ClientT
  <2> HIDE DEF k
  <2>2. Keeps(called)
      BY <1>1, <2>1, OtherFields DEF States, Sound
  <2>3. called.seq = printed.seq /\ called.ack = printed.ack /\ called.state = printed.state
      BY <1>1, <2>1 DEF ClientT
  <2>4. printed.seq \in Nat
      BY <1>1 DEF ClientT
  <2> QED
      BY <1>1, <2>2, <2>3, <2>4 DEF Sound, Grew
<1> HIDE DEF called
<1>3. Sound(cleared) /\ Grew(called, cleared)
    BY <1>2, AddSound
<1> HIDE DEF cleared
<1>4. Sound(noticed) /\ Grew(cleared, noticed) /\ noticed \in ClientT
    BY <1>3, AddSound DEF Sound, Keeps
<1>5. DropClient(c) = [noticed EXCEPT !.state = "CS_ZOMBIE"]
    BY DEF DropClient, printed, called, cleared
<1> HIDE DEF noticed
<1>6. d = [noticed EXCEPT !.state = s]
    BY <1>4, <1>5 DEF ClientT
<1> HIDE DEF d
<1>7. Keeps(d)
    BY <1>4, <1>6, OtherFields DEF States, Sound
<1>8. d.seq = noticed.seq /\ d.ack = noticed.ack /\ d.state = s
    BY <1>4, <1>6 DEF ClientT
<1>9. Sound(d)
    BY <1>7, <1>8 DEF Sound
<1>10. Grew(c, d)
  <2>1. /\ c.seq \in Nat /\ printed.seq \in Nat /\ called.seq \in Nat
        /\ cleared.seq \in Nat /\ noticed.seq \in Nat
      BY <1>1, <1>2, <1>3, <1>4 DEF Sound, Keeps, ClientT
  <2> QED
      BY <1>1, <1>2, <1>3, <1>4, <1>8, <2>1 DEF Grew
<1> QED
    BY <1>8, <1>9, <1>10 DEF d

-----------------------------------------------------------------------------
(* What the server does to the client_t leaves the rest of the invariant.  *)

LEMMA ClIsSound ==
  ASSUME IInv
  PROVE  Sound(cl)
<1>1. cl \in ClientT
    BY DEF IInv, TypeOK, cl, ClientT
<1>2. reliableAcknowledge <= reliableSequence
    BY DEF IInv, TypeOK, AcksInOrder
<1> QED
    BY <1>1, <1>2 DEF IInv, WindowHeld, InWindow, RingKeeps, Sound, Keeps, cl

LEMMA SmallerDifference ==
  ASSUME NEW n \in Nat, NEW a \in Nat, NEW s \in Nat, NEW t \in Nat, s <= t, t - a <= n
  PROVE  s - a <= n
OBVIOUS

LEMMA WindowNeverReopens ==
  ASSUME reliableSequence \in Nat, reliableSequence' \in Nat, reliableAcknowledge \in Nat,
         reliableAcknowledge' = reliableAcknowledge, reliableSequence <= reliableSequence'
  PROVE  InWindow' => InWindow
BY SizeIsPositive, SmallerDifference DEF InWindow, N

LEMMA ServerStep ==
  ASSUME IInv, NEW c, Sound(c), Grew(cl, c), Becomes(c),
         UNCHANGED <<clientVars, toClient, toServer>>
  PROVE  IInv'
<1>1. c \in ClientT
    BY DEF Sound, Keeps
<1>2. /\ reliableSequence \in Nat /\ reliableSequence' \in Nat
      /\ reliableAcknowledge \in Nat /\ reliableAcknowledge' = reliableAcknowledge
      /\ reliableSequence <= reliableSequence'
      /\ serverCommandSequence \in Nat /\ N \in Nat
    BY <1>1, SizeIsPositive DEF IInv, TypeOK, Becomes, Grew, cl, ClientT
<1>3. InWindow' => InWindow
    BY <1>2, WindowNeverReopens
<1>4. TypeOK'
  <2>1. /\ state' \in States /\ reliableSequence' \in Nat /\ reliableAcknowledge' \in Nat
        /\ reliableCommands' \in [Slots -> Nat] /\ notices' \subseteq Nat
        /\ disconnectCalls' \in Nat
      BY <1>1 DEF Becomes, ClientT
  <2> QED
      BY <2>1 DEF IInv, TypeOK, clientVars
<1>5. WindowHeld'
    BY DEF Becomes, Sound, Keeps, WindowHeld, InWindow, RingKeeps
<1>6. AcksInOrder'
    BY <1>2 DEF IInv, AcksInOrder, clientVars
<1>7. MessagesFaithful'
  <2> SUFFICES ASSUME NEW k \in 1..Len(toClient) PROVE Faithful(toClient[k])'
      BY DEF MessagesFaithful
  <2>1. Faithful(toClient[k]) /\ toClient[k] \in Messages
      BY DEF IInv, MessagesFaithful, TypeOK
  <2>2. toClient[k].last \in Nat
      BY <2>1 DEF Messages
  <2> QED
      BY <1>2, <1>3, <2>1, <2>2 DEF Faithful, clientVars
<1>8. ClientKeeps'
    BY <1>3 DEF IInv, ClientKeeps, clientVars
<1>9. ExecutedInOrder'
    BY <1>3 DEF IInv, ExecutedInOrder, clientVars
<1> QED
    BY <1>4, <1>5, <1>6, <1>7, <1>8, <1>9 DEF IInv

-----------------------------------------------------------------------------
(* Messages.                                                               *)

LEMMA RemoveAtProperties ==
  ASSUME NEW S, NEW s \in Seq(S), NEW i \in 1..Len(s)
  PROVE  /\ RemoveAt(s, i) \in Seq(S)
         /\ Len(RemoveAt(s, i)) = Len(s) - 1
         /\ \A j \in 1..(Len(s) - 1) :
               RemoveAt(s, i)[j] = s[IF j < i THEN j ELSE j + 1]
<1> DEFINE a == SubSeq(s, 1, i - 1)
           b == SubSeq(s, i + 1, Len(s))
<1>1. Len(s) \in Nat /\ i \in Nat /\ \A k \in 1..Len(s) : s[k] \in S
    OBVIOUS
<1>2. /\ a \in Seq(S) /\ Len(a) = i - 1
      /\ \A k \in 1..(i - 1) : a[k] = s[k]
  <2>1. \A k \in 1..(i - 1) : s[k] \in S
      BY <1>1
  <2> QED
      BY <1>1, <2>1, SubSeqProperties
<1>3. /\ b \in Seq(S) /\ Len(b) = Len(s) - i
      /\ \A k \in 1..(Len(s) - i) : b[k] = s[i + k]
  <2>1. \A k \in (i + 1)..Len(s) : s[k] \in S
      BY <1>1
  <2>2. /\ b \in Seq(S) /\ Len(b) = IF i + 1 <= Len(s) THEN Len(s) - (i + 1) + 1 ELSE 0
        /\ \A k \in 1..(Len(s) - (i + 1) + 1) : b[k] = s[(i + 1) + k - 1]
      BY <1>1, <2>1, SubSeqProperties
  <2> QED
      BY <1>1, <2>2
<1>4. RemoveAt(s, i) = a \o b
    BY DEF RemoveAt
<1> HIDE DEF a, b
<1>5. /\ a \o b \in Seq(S)
      /\ Len(a \o b) = Len(a) + Len(b)
      /\ \A j \in 1..(Len(a) + Len(b)) :
            (a \o b)[j] = IF j <= Len(a) THEN a[j] ELSE b[j - Len(a)]
    BY <1>2, <1>3, ConcatProperties
<1>6. Len(a \o b) = Len(s) - 1
    BY <1>1, <1>2, <1>3, <1>5
<1>7. ASSUME NEW j \in 1..(Len(s) - 1)
      PROVE  (a \o b)[j] = s[IF j < i THEN j ELSE j + 1]
  <2>1. CASE j < i
      BY <1>1, <1>2, <1>3, <1>5, <2>1
  <2>2. CASE ~(j < i)
    <3>1. j - (i - 1) \in 1..(Len(s) - i) /\ ~(j <= Len(a))
        BY <1>1, <1>2, <2>2
    <3>2. (a \o b)[j] = b[j - (i - 1)]
        BY <1>1, <1>2, <1>3, <1>5, <3>1
    <3>3. b[j - (i - 1)] = s[i + (j - (i - 1))]
        BY <1>3, <3>1
    <3>4. i + (j - (i - 1)) = j + 1
        BY <1>1
    <3> QED
        BY <1>1, <2>2, <3>2, <3>3, <3>4
  <2> QED
      BY <2>1, <2>2
<1> QED
    BY <1>4, <1>5, <1>6, <1>7

(* Taking an element away leaves a sequence of what was there.             *)
LEMMA TailFewer ==
  ASSUME NEW S, NEW s \in Seq(S), s # <<>>
  PROVE  /\ Tail(s) \in Seq(S)
         /\ \A j \in 1..Len(Tail(s)) : \E k \in 1..Len(s) : Tail(s)[j] = s[k]
<1> DEFINE t == Tail(s)
<1>1. /\ t \in Seq(S) /\ Len(t) = Len(s) - 1 /\ Len(s) \in Nat
      /\ \A j \in 1..Len(t) : t[j] = s[j + 1]
    BY HeadTailProperties
<1> HIDE DEF t
<1>2. \A j \in 1..Len(t) : j + 1 \in 1..Len(s)
    BY <1>1
<1> QED
    BY <1>1, <1>2 DEF t

LEMMA RemoveFewer ==
  ASSUME NEW S, NEW s \in Seq(S), NEW i \in 1..Len(s)
  PROVE  LET t == RemoveAt(s, i)
         IN  /\ t \in Seq(S)
             /\ \A j \in 1..Len(t) : \E k \in 1..Len(s) : t[j] = s[k]
<1> DEFINE t == RemoveAt(s, i)
           at(j) == IF j < i THEN j ELSE j + 1
<1>1. /\ t \in Seq(S) /\ Len(t) = Len(s) - 1 /\ Len(s) \in Nat
      /\ \A j \in 1..Len(t) : t[j] = s[at(j)]
    BY RemoveAtProperties
<1> HIDE DEF t
<1>2. \A j \in 1..Len(t) : at(j) \in 1..Len(s)
    BY <1>1
<1> HIDE DEF at
<1> QED
    BY <1>1, <1>2 DEF t

LEMMA FaithfulStays ==
  ASSUME NEW m \in Messages, Faithful(m),
         serverCommandSequence \in Nat, NEW t \in Nat, serverCommandSequence' = t,
         serverCommandSequence <= t, reliableSequence' = reliableSequence,
         InWindow' => InWindow
  PROVE  Faithful(m)'
<1>1. m.first \in Nat /\ m.last \in Nat /\ N \in Nat
    BY SizeIsPositive DEF Messages
<1>2. m.first <= t + 1
    BY <1>1 DEF Faithful
<1>3. InWindow => m.last - t <= N
    BY <1>1 DEF Faithful
<1> QED
    BY <1>2, <1>3 DEF Faithful

-----------------------------------------------------------------------------
(* The steps that carry messages.                                          *)

LEMMA SnapshotStep ==
  ASSUME IInv, SV_SendClientSnapshot
  PROVE  IInv'
<1> DEFINE m == [first |-> FirstUnacknowledged, last |-> reliableSequence,
                 commands |-> reliableCommands]
<1>1. /\ toClient \in Seq(Messages) /\ toClient' = Append(toClient, m)
      /\ reliableSequence \in Nat /\ reliableAcknowledge \in Nat
      /\ serverCommandSequence \in Nat /\ reliableCommands \in [Slots -> Nat]
    BY DEF IInv, TypeOK, SV_SendClientSnapshot
<1>2. m \in Messages /\ m.first = reliableAcknowledge + 1 /\ m.last = reliableSequence
      /\ m.commands = reliableCommands
    BY <1>1 DEF Messages, FirstUnacknowledged
<1>3. Faithful(m)
  <2>1. reliableAcknowledge <= serverCommandSequence
      BY DEF IInv, AcksInOrder
  <2>2. m.first <= serverCommandSequence + 1 /\ m.last <= reliableSequence
      BY <1>1, <1>2, <2>1
  <2>3. ASSUME InWindow PROVE m.last - serverCommandSequence <= N
      BY <1>1, <1>2, <2>1, <2>3, SizeIsPositive DEF InWindow
  <2>4. InWindow => \A i \in Numbers(m) : m.commands[Slot(i)] = i
      BY <1>2 DEF IInv, WindowHeld, RingKeeps, Numbers
  <2> QED
      BY <2>2, <2>3, <2>4 DEF Faithful
<1> HIDE DEF m
<1>4. /\ toClient' \in Seq(Messages)
      /\ \A k \in 1..Len(toClient') :
            toClient'[k] = m \/ \E j \in 1..Len(toClient) : toClient'[k] = toClient[j]
  <2> DEFINE t == Append(toClient, m)
  <2>1. /\ t \in Seq(Messages) /\ Len(t) = Len(toClient) + 1 /\ Len(toClient) \in Nat
        /\ \A k \in 1..Len(toClient) : t[k] = toClient[k]
        /\ t[Len(toClient) + 1] = m
      BY <1>1, <1>2, AppendProperties
  <2> HIDE DEF t
  <2>2. \A k \in 1..Len(t) : k = Len(toClient) + 1 \/ k \in 1..Len(toClient)
      BY <2>1
  <2>3. \A k \in 1..Len(t) : t[k] = m \/ \E j \in 1..Len(toClient) : t[k] = toClient[j]
      BY <2>1, <2>2
  <2> QED
      BY <1>1, <2>1, <2>3 DEF t
<1>5. MessagesFaithful'
  <2>1. \A x : Faithful(x)' <=> Faithful(x)
      BY DEF SV_SendClientSnapshot, serverVars, clientVars, Faithful, InWindow, Numbers, N
  <2>2. \A k \in 1..Len(toClient') : Faithful(toClient'[k])
      BY <1>3, <1>4 DEF IInv, MessagesFaithful
  <2>3. \A k \in 1..Len(toClient') : \A x : x = toClient'[k] => Faithful(x)'
      BY <2>1, <2>2
  <2> QED
      BY <2>3 DEF MessagesFaithful
<1>6. TypeOK'
    BY <1>4 DEF IInv, TypeOK, SV_SendClientSnapshot, serverVars, clientVars
<1>7. WindowHeld' /\ AcksInOrder' /\ ClientKeeps' /\ ExecutedInOrder'
    BY DEF IInv, SV_SendClientSnapshot, serverVars, clientVars, WindowHeld, AcksInOrder,
           ClientKeeps, ExecutedInOrder, InWindow, RingKeeps
<1> QED
    BY <1>5, <1>6, <1>7 DEF IInv

(* What a message leaves in the client's ring.                             *)
LEMMA StoredHolds ==
  ASSUME NEW m \in Messages, TypeOK, ClientKeeps, Faithful(m)
  PROVE  /\ Stored(m) \in [Slots -> Nat]
         /\ Newest(m) \in Nat
         /\ serverCommandSequence <= Newest(m)
         /\ serverCommandSequence <= reliableSequence => Newest(m) <= reliableSequence
         /\ InWindow =>
               \A i \in 1..Newest(m) : i > Newest(m) - N => Stored(m)[Slot(i)] = i
<1> DEFINE into(s) == {i \in Newer(m) : Slot(i) = s}
<1>1. /\ m.first \in Nat /\ m.last \in Nat /\ m.commands \in [Slots -> Nat]
      /\ serverCommandSequence \in Nat /\ serverCommands \in [Slots -> Nat]
      /\ N \in Nat \ {0}
    BY SizeIsPositive DEF Messages, TypeOK
<1>2. Stored(m) = [s \in Slots |-> IF into(s) = {} THEN serverCommands[s]
                                   ELSE m.commands[s]]
    BY DEF Stored
<1>3. Stored(m) \in [Slots -> Nat]
    BY <1>1, <1>2
<1>4. Newer(m) = {i \in m.first..m.last : i > serverCommandSequence}
    BY DEF Newer, Numbers
<1>5. CASE Newer(m) = {}
  <2>1. Newest(m) = serverCommandSequence
      BY <1>5 DEF Newest
  <2>2. \A s \in Slots : Stored(m)[s] = serverCommands[s]
      BY <1>2, <1>5
  <2>3. ASSUME InWindow, NEW i \in 1..serverCommandSequence, i > serverCommandSequence - N
        PROVE  Stored(m)[Slot(i)] = i
    <3>1. Slot(i) \in Slots
        BY <1>1, SlotInRing
    <3>2. serverCommands[Slot(i)] = i
        BY <2>3 DEF ClientKeeps
    <3> QED
        BY <2>2, <3>1, <3>2
  <2> QED
      BY <1>1, <1>3, <2>1, <2>3
<1>6. CASE Newer(m) # {}
  <2>1. Newest(m) = m.last /\ serverCommandSequence < m.last
      BY <1>1, <1>4, <1>6 DEF Newest
  <2>2. m.first <= serverCommandSequence + 1 /\ m.last <= reliableSequence
      BY DEF Faithful
  <2>3. ASSUME InWindow, NEW i \in 1..m.last, i > m.last - N
        PROVE  Stored(m)[Slot(i)] = i
    <3>1. i \in Nat /\ Slot(i) \in Slots
        BY <1>1, SlotInRing
    <3>2. CASE i > serverCommandSequence
      <4>1. i \in m.first..m.last /\ i \in Newer(m)
          BY <1>1, <1>4, <2>2, <3>1, <3>2
      <4>2. into(Slot(i)) # {}
          BY <4>1
      <4>3. m.commands[Slot(i)] = i
          BY <2>3, <4>1 DEF Faithful, Numbers
      <4> QED
          BY <1>2, <3>1, <4>2, <4>3
    <3>3. CASE ~(i > serverCommandSequence)
      <4>1. \A j \in Newer(m) : j \in Nat /\ i < j /\ j - i < N
          BY <1>1, <1>4, <2>3, <3>1, <3>3
      <4>2. \A j \in Newer(m) : Slot(j) # Slot(i)
          BY <3>1, <4>1, SlotsDiffer
      <4>3. Stored(m)[Slot(i)] = serverCommands[Slot(i)]
          BY <1>2, <3>1, <4>2
      <4>4. i \in 1..serverCommandSequence /\ i > serverCommandSequence - N
          BY <1>1, <2>1, <2>3, <3>1, <3>3
      <4> QED
          BY <2>3, <4>3, <4>4 DEF ClientKeeps
    <3> QED
        BY <3>2, <3>3
  <2> QED
      BY <1>1, <1>3, <2>1, <2>2, <2>3
<1> QED
    BY <1>5, <1>6

LEMMA ParseStep ==
  ASSUME IInv, CL_ParseServerMessage
  PROVE  IInv'
<1> DEFINE m == Head(toClient)
           n == Newest(m)
<1>1. /\ toClient \in Seq(Messages) /\ toClient # <<>>
      /\ toClient' = Tail(toClient) /\ pending \in Seq(Nat)
      /\ serverCommandSequence \in Nat /\ reliableSequence \in Nat
      /\ serverCommandSequence <= reliableSequence
    BY DEF IInv, TypeOK, AcksInOrder, CL_ParseServerMessage
<1>2. m \in Messages /\ Faithful(m)
  <2>1. m \in Messages /\ m = toClient[1] /\ 1 \in 1..Len(toClient)
      BY <1>1
  <2> QED
      BY <2>1 DEF IInv, MessagesFaithful
<1>3. serverCommandSequence' = n /\ serverCommands' = Stored(m)
    BY DEF CL_ParseServerMessage
<1> HIDE DEF m
<1>4. /\ Stored(m) \in [Slots -> Nat]
      /\ n \in Nat /\ serverCommandSequence <= n /\ n <= reliableSequence
      /\ InWindow => \A i \in 1..n : i > n - N => Stored(m)[Slot(i)] = i
    BY <1>1, <1>2, StoredHolds DEF IInv
<1> HIDE DEF n
<1>5. pending' \in Seq(Nat) /\ \A k \in 1..Len(pending') : pending'[k] <= n
  <2>1. PICK room \in Room : pending' = Append(room, n)
      BY <1>3 DEF CL_ParseServerMessage
  <2>2. room \in Seq(Nat) /\ \A k \in 1..Len(room) : room[k] <= serverCommandSequence
    <3>1. CASE room = pending
        BY <1>1, <3>1 DEF IInv, ClientKeeps
    <3>2. CASE \E i \in 1..Len(pending) : room = RemoveAt(pending, i)
      <4>1. PICK i \in 1..Len(pending) : room = RemoveAt(pending, i)
          BY <3>2
      <4>2. /\ room \in Seq(Nat)
            /\ \A j \in 1..Len(room) : \E k \in 1..Len(pending) : room[j] = pending[k]
        <5> DEFINE t == RemoveAt(pending, i)
        <5>1. /\ t \in Seq(Nat)
              /\ \A j \in 1..Len(t) : \E k \in 1..Len(pending) : t[j] = pending[k]
            BY <1>1, RemoveFewer
        <5> QED
            BY <4>1, <5>1
      <4>3. \A k \in 1..Len(pending) : pending[k] <= serverCommandSequence
          BY DEF IInv, ClientKeeps
      <4> QED
          BY <4>2, <4>3, Zenon
    <3>3. DOMAIN pending = 1..Len(pending)
        BY <1>1
    <3> QED
        BY <2>1, <3>1, <3>2, <3>3 DEF Room
  <2> DEFINE t == Append(room, n)
  <2>3. /\ t \in Seq(Nat) /\ Len(t) = Len(room) + 1 /\ Len(room) \in Nat
        /\ \A k \in 1..Len(room) : t[k] = room[k]
        /\ t[Len(room) + 1] = n
      BY <1>4, <2>2, AppendProperties
  <2> HIDE DEF t
  <2>4. \A k \in 1..Len(t) : k = Len(room) + 1 \/ k \in 1..Len(room)
      BY <2>3
  <2>5. \A k \in 1..Len(t) : t[k] <= n
    <3> SUFFICES ASSUME NEW k \in 1..Len(t) PROVE t[k] <= n
        OBVIOUS
    <3>1. CASE k = Len(room) + 1
        BY <1>4, <2>3, <3>1
    <3>2. CASE k \in 1..Len(room)
      <4>1. room[k] \in Nat /\ room[k] <= serverCommandSequence
          BY <2>2, <3>2
      <4> QED
          BY <1>1, <1>4, <2>3, <3>2, <4>1
    <3> QED
        BY <2>4, <3>1, <3>2
  <2> QED
      BY <2>1, <2>3, <2>5 DEF t
<1>6. InWindow' <=> InWindow
    BY DEF CL_ParseServerMessage, serverVars, InWindow, N
<1>7. /\ toClient' \in Seq(Messages)
      /\ \A j \in 1..Len(toClient') : \E k \in 1..Len(toClient) : toClient'[j] = toClient[k]
    BY <1>1, TailFewer
<1>8. MessagesFaithful'
  <2>1. \A x \in Messages : Faithful(x) => Faithful(x)'
      BY <1>1, <1>3, <1>4, <1>6, FaithfulStays DEF CL_ParseServerMessage, serverVars
  <2>2. \A k \in 1..Len(toClient') : toClient'[k] \in Messages /\ Faithful(toClient'[k])
      BY <1>1, <1>7 DEF IInv, MessagesFaithful
  <2>3. \A k \in 1..Len(toClient') : \A x : x = toClient'[k] => Faithful(x)'
      BY <2>1, <2>2
  <2> QED
      BY <2>3 DEF MessagesFaithful
<1>9. TypeOK'
    BY <1>3, <1>4, <1>5, <1>7 DEF IInv, TypeOK, CL_ParseServerMessage, serverVars
<1>10. AcksInOrder'
  <2>1. \A k \in 1..Len(toServer) : toServer[k] \in Nat /\ toServer[k] <= n
    <3> SUFFICES ASSUME NEW k \in 1..Len(toServer)
                 PROVE  toServer[k] \in Nat /\ toServer[k] <= n
        OBVIOUS
    <3>1. toServer[k] \in Nat /\ toServer[k] <= serverCommandSequence
        BY DEF IInv, TypeOK, AcksInOrder
    <3> QED
        BY <1>1, <1>4, <3>1
  <2>2. reliableAcknowledge \in Nat /\ reliableAcknowledge <= n
      BY <1>1, <1>4 DEF IInv, TypeOK, AcksInOrder
  <2> QED
      BY <1>3, <1>4, <2>1, <2>2 DEF IInv, AcksInOrder, CL_ParseServerMessage, serverVars
<1>11. ClientKeeps'
  <2>1. Len(executed) <= n
      BY <1>1, <1>4 DEF IInv, TypeOK, ClientKeeps
  <2> QED
      BY <1>3, <1>4, <1>5, <1>6, <2>1 DEF ClientKeeps, CL_ParseServerMessage, N
<1>12. WindowHeld' /\ ExecutedInOrder'
    BY <1>6 DEF IInv, CL_ParseServerMessage, serverVars, WindowHeld, ExecutedInOrder, RingKeeps
<1> QED
    BY <1>8, <1>9, <1>10, <1>11, <1>12 DEF IInv

(* Acknowledgements in order, between two numbers.                         *)
Between(s, low, high) ==
    /\ \A k \in 1..Len(s) : low <= s[k] /\ s[k] <= high
    /\ \A j, k \in 1..Len(s) : j <= k => s[j] <= s[k]

LEMMA AcksBetween ==
  ASSUME TypeOK
  PROVE  AcksInOrder <=>
            /\ reliableAcknowledge <= serverCommandSequence
            /\ serverCommandSequence <= reliableSequence
            /\ Between(toServer, reliableAcknowledge, serverCommandSequence)
BY DEF AcksInOrder, Between

LEMMA AppendBetween ==
  ASSUME NEW s \in Seq(Nat), NEW low \in Nat, NEW high \in Nat, low <= high,
         Between(s, low, high)
  PROVE  Append(s, high) \in Seq(Nat) /\ Between(Append(s, high), low, high)
<1> DEFINE t == Append(s, high)
<1>1. /\ t \in Seq(Nat) /\ Len(t) = Len(s) + 1 /\ Len(s) \in Nat
      /\ \A k \in 1..Len(s) : t[k] = s[k]
      /\ t[Len(s) + 1] = high
    BY AppendProperties
<1> HIDE DEF t
<1>2. \A k \in 1..Len(t) : k \in 1..Len(s) \/ k = Len(s) + 1
    BY <1>1
<1>3. ASSUME NEW k \in 1..Len(t)
      PROVE  low <= t[k] /\ t[k] <= high
  <2>1. CASE k = Len(s) + 1
      BY <1>1, <2>1
  <2>2. CASE k \in 1..Len(s)
      BY <1>1, <2>2 DEF Between
  <2> QED
      BY <1>2, <2>1, <2>2
<1>4. ASSUME NEW j \in 1..Len(t), NEW k \in 1..Len(t), j <= k
      PROVE  t[j] <= t[k]
  <2>1. CASE k = Len(s) + 1
      BY <1>1, <1>3, <2>1
  <2>2. CASE k \in 1..Len(s)
    <3>1. j \in 1..Len(s)
        BY <1>1, <1>4, <2>2
    <3> QED
        BY <1>1, <1>4, <2>2, <3>1 DEF Between
  <2> QED
      BY <1>2, <2>1, <2>2
<1> QED
    BY <1>1, <1>3, <1>4 DEF Between, t

LEMMA TailBetween ==
  ASSUME NEW s \in Seq(Nat), s # <<>>, NEW low, NEW high, Between(s, low, high)
  PROVE  /\ Tail(s) \in Seq(Nat) /\ Between(Tail(s), Head(s), high)
         /\ Between(Tail(s), low, high)
         /\ Head(s) \in Nat /\ low <= Head(s) /\ Head(s) <= high
<1> DEFINE t == Tail(s)
<1>1. /\ t \in Seq(Nat) /\ Len(t) = Len(s) - 1 /\ Len(s) \in Nat \ {0}
      /\ \A j \in 1..Len(t) : t[j] = s[j + 1]
      /\ Head(s) = s[1] /\ Head(s) \in Nat
    BY HeadTailProperties
<1> HIDE DEF t
<1>2. \A j \in 1..Len(t) : j + 1 \in 1..Len(s) /\ 1 \in 1..Len(s) /\ 1 <= j + 1
    BY <1>1
<1>3. \A j, k \in 1..Len(t) : j <= k => j + 1 <= k + 1
    BY <1>1
<1>4. \A k \in 1..Len(t) : Head(s) <= t[k] /\ t[k] <= high /\ low <= t[k]
    BY <1>1, <1>2 DEF Between
<1>5. \A j, k \in 1..Len(t) : j <= k => t[j] <= t[k]
    BY <1>1, <1>2, <1>3 DEF Between
<1>6. low <= Head(s) /\ Head(s) <= high
    BY <1>1 DEF Between
<1> QED
    BY <1>1, <1>4, <1>5, <1>6 DEF Between, t

LEMMA RemoveBetween ==
  ASSUME NEW s \in Seq(Nat), NEW i \in 1..Len(s), NEW low, NEW high, Between(s, low, high)
  PROVE  RemoveAt(s, i) \in Seq(Nat) /\ Between(RemoveAt(s, i), low, high)
<1> DEFINE t == RemoveAt(s, i)
           at(j) == IF j < i THEN j ELSE j + 1
<1>1. /\ t \in Seq(Nat) /\ Len(t) = Len(s) - 1 /\ Len(s) \in Nat
      /\ \A j \in 1..Len(t) : t[j] = s[at(j)]
    BY RemoveAtProperties
<1> HIDE DEF t
<1>2. \A j \in 1..Len(t) : at(j) \in 1..Len(s)
    BY <1>1
<1>3. \A j, k \in 1..Len(t) : j <= k => at(j) <= at(k)
    BY <1>1
<1> HIDE DEF at
<1>4. \A k \in 1..Len(t) : low <= t[k] /\ t[k] <= high
    BY <1>1, <1>2 DEF Between
<1>5. \A j, k \in 1..Len(t) : j <= k => t[j] <= t[k]
    BY <1>1, <1>2, <1>3 DEF Between
<1> QED
    BY <1>1, <1>4, <1>5 DEF Between, t

LEMMA WriteStep ==
  ASSUME IInv, CL_WritePacket
  PROVE  IInv'
<1>1. /\ toServer' = Append(toServer, serverCommandSequence)
      /\ UNCHANGED <<serverVars, clientVars, toClient>>
    BY DEF CL_WritePacket
<1>2. /\ toServer' \in Seq(Nat)
      /\ Between(toServer', reliableAcknowledge, serverCommandSequence)
    BY <1>1, AcksBetween, AppendBetween DEF IInv, TypeOK
<1>3. TypeOK'
    BY <1>1, <1>2 DEF IInv, TypeOK, serverVars, clientVars
<1>4. AcksInOrder'
    BY <1>1, <1>2 DEF IInv, AcksInOrder, Between, serverVars, clientVars
<1>5. WindowHeld' /\ MessagesFaithful' /\ ClientKeeps' /\ ExecutedInOrder'
    BY <1>1 DEF IInv, serverVars, clientVars, WindowHeld, InWindow, RingKeeps,
       MessagesFaithful, Faithful, Numbers, ClientKeeps, ExecutedInOrder
<1> QED
    BY <1>3, <1>4, <1>5 DEF IInv

LEMMA LoseStep ==
  ASSUME IInv, Lose
  PROVE  IInv'
<1>1. UNCHANGED <<serverVars, clientVars>>
    BY DEF Lose
<1>2. WindowHeld' /\ ClientKeeps' /\ ExecutedInOrder'
    BY <1>1 DEF IInv, serverVars, clientVars, WindowHeld, InWindow, RingKeeps,
       ClientKeeps, ExecutedInOrder
<1>3. CASE (\E i \in 1..Len(toClient) : toClient' = RemoveAt(toClient, i)) /\ UNCHANGED toServer
  <2>1. PICK i \in 1..Len(toClient) : toClient' = RemoveAt(toClient, i)
      BY <1>3
  <2> DEFINE t == RemoveAt(toClient, i)
  <2>9. toClient \in Seq(Messages)
      BY DEF IInv, TypeOK
  <2>2. /\ t \in Seq(Messages)
        /\ \A j \in 1..Len(t) : \E k \in 1..Len(toClient) : t[j] = toClient[k]
      BY <2>9, RemoveFewer
  <2> HIDE DEF t
  <2>3. toClient' = t
      BY <2>1 DEF t
  <2>4. \A x : Faithful(x)' <=> Faithful(x)
      BY <1>1 DEF serverVars, clientVars, Faithful, InWindow, Numbers, N
  <2>5. \A j \in 1..Len(t) : Faithful(t[j])
      BY <2>2 DEF IInv, MessagesFaithful
  <2>6. \A j \in 1..Len(t) : \A x : x = t[j] => Faithful(x)'
      BY <2>4, <2>5
  <2>7. MessagesFaithful'
      BY <2>3, <2>6 DEF MessagesFaithful
  <2>8. TypeOK' /\ AcksInOrder'
      BY <1>1, <1>3, <2>2, <2>3 DEF IInv, TypeOK, AcksInOrder, serverVars, clientVars
  <2> QED
      BY <1>2, <2>7, <2>8 DEF IInv
<1>4. CASE (\E i \in 1..Len(toServer) : toServer' = RemoveAt(toServer, i)) /\ UNCHANGED toClient
  <2>1. PICK i \in 1..Len(toServer) : toServer' = RemoveAt(toServer, i)
      BY <1>4
  <2>2. /\ RemoveAt(toServer, i) \in Seq(Nat)
        /\ Between(RemoveAt(toServer, i), reliableAcknowledge, serverCommandSequence)
      BY AcksBetween, RemoveBetween DEF IInv, TypeOK
  <2>3. TypeOK' /\ AcksInOrder'
      BY <1>1, <1>4, <2>1, <2>2 DEF IInv, TypeOK, AcksInOrder, Between, serverVars, clientVars
  <2>4. MessagesFaithful'
      BY <1>1, <1>4 DEF IInv, MessagesFaithful, Faithful, Numbers, InWindow, serverVars, clientVars
  <2> QED
      BY <1>2, <2>3, <2>4 DEF IInv
<1> QED
    BY <1>3, <1>4 DEF Lose

(* The server believes an honest client's acknowledgement.                 *)
LEMMA AckStep ==
  ASSUME IInv, SV_ExecuteClientMessage
  PROVE  IInv'
<1> DEFINE a == Head(toServer)
<1>1. /\ toServer \in Seq(Nat) /\ toServer # <<>> /\ toServer' = Tail(toServer)
      /\ Between(toServer, reliableAcknowledge, serverCommandSequence)
      /\ reliableSequence \in Nat /\ reliableAcknowledge \in Nat
      /\ serverCommandSequence \in Nat
    BY DEF IInv, TypeOK, AcksInOrder, Between, SV_ExecuteClientMessage
<1>2. /\ Tail(toServer) \in Seq(Nat) /\ Between(Tail(toServer), a, serverCommandSequence)
      /\ Between(Tail(toServer), reliableAcknowledge, serverCommandSequence)
      /\ a \in Nat /\ reliableAcknowledge <= a /\ a <= serverCommandSequence
    BY <1>1, TailBetween
<1> HIDE DEF a
<1>3. UNCHANGED <<state, reliableSequence, reliableCommands, notices, disconnectCalls,
                  connected, serverCommandSequence, serverCommands, pending, executed, toClient>>
    BY DEF SV_ExecuteClientMessage, clientVars
<1>4. CASE state = "CS_ACTIVE"
  <2>1. InWindow /\ reliableSequence - reliableAcknowledge <= N /\ N \in Nat
      BY <1>4, SizeIsPositive DEF IInv, WindowHeld, InWindow
  <2>2. ~(a < reliableSequence - N) /\ reliableSequence - a <= N
      BY <1>1, <1>2, <2>1
  <2>3. reliableAcknowledge' = a
      BY <1>4, <2>2 DEF SV_ExecuteClientMessage, a
  <2>4. InWindow'
      BY <1>3, <2>2, <2>3 DEF InWindow, N
  <2>5. TypeOK'
      BY <1>1, <1>2, <1>3, <2>3 DEF IInv, TypeOK
  <2>6. WindowHeld'
    <3>1. \A i \in (a + 1)..reliableSequence : i \in (reliableAcknowledge + 1)..reliableSequence
        BY <1>1, <1>2
    <3>2. \A i \in (a + 1)..reliableSequence : reliableCommands[Slot(i)] = i
        BY <2>1, <3>1 DEF IInv, WindowHeld, RingKeeps
    <3> QED
        BY <1>3, <2>3, <2>4, <3>2 DEF WindowHeld, RingKeeps
  <2>7. AcksInOrder'
      BY <1>1, <1>2, <1>3, <2>3 DEF IInv, AcksInOrder, Between
  <2>8. MessagesFaithful'
      BY <1>3, <2>1 DEF IInv, MessagesFaithful, Faithful, Numbers, N
  <2>9. ClientKeeps' /\ ExecutedInOrder'
      BY <1>3, <2>1 DEF IInv, ClientKeeps, ExecutedInOrder, N
  <2> QED
      BY <2>5, <2>6, <2>7, <2>8, <2>9 DEF IInv
<1>5. CASE state = "CS_ZOMBIE"
  <2>1. reliableAcknowledge' = reliableAcknowledge
      BY <1>5 DEF SV_ExecuteClientMessage
  <2>2. InWindow' <=> InWindow
      BY <1>3, <2>1 DEF InWindow, N
  <2>3. TypeOK' /\ AcksInOrder'
      BY <1>1, <1>2, <1>3, <2>1 DEF IInv, TypeOK, AcksInOrder, Between
  <2>4. WindowHeld' /\ MessagesFaithful' /\ ClientKeeps' /\ ExecutedInOrder'
      BY <1>3, <2>1, <2>2 DEF IInv, WindowHeld, RingKeeps, MessagesFaithful, Faithful,
         Numbers, ClientKeeps, ExecutedInOrder, N
  <2> QED
      BY <2>3, <2>4 DEF IInv
<1> QED
    BY <1>4, <1>5 DEF SV_ExecuteClientMessage

(* The cgame executes what the client's ring holds, while it still does.   *)
LEMMA TransitionStep ==
  ASSUME IInv, CG_TransitionSnapshot
  PROVE  /\ IInv'
         /\ \E n \in 0..(reliableSequence - Len(executed)) :
               InWindow => executed' = executed \o [k \in 1..n |-> Len(executed) + k]
<1>1. /\ executed \in Seq(Nat) /\ pending \in Seq(Nat) /\ pending # <<>>
      /\ pending' = Tail(pending) /\ connected \in BOOLEAN
      /\ UNCHANGED <<serverVars, serverCommandSequence, serverCommands, toClient, toServer>>
    BY DEF IInv, TypeOK, CG_TransitionSnapshot
<1>2. /\ Len(executed) \in Nat /\ serverCommandSequence \in Nat /\ N \in Nat \ {0}
      /\ serverCommands \in [Slots -> Nat] /\ reliableSequence \in Nat
      /\ serverCommandSequence <= reliableSequence
    BY <1>1, SizeIsPositive DEF IInv, TypeOK, AcksInOrder
<1>3. PICK last \in lastExecuted..serverCommandSequence :
         /\ \A i \in (lastExecuted + 1)..last : ~Fatal(i)
         /\ executed' = executed \o [k \in 1..(last - lastExecuted) |-> Text(lastExecuted + k)]
         /\ connected' \in {connected, FALSE}
    BY DEF CG_TransitionSnapshot, CG_ExecuteNewServerCommands
<1> DEFINE n == last - Len(executed)
           run == [k \in 1..n |-> Text(Len(executed) + k)]
<1>4. last \in Nat /\ n \in Nat /\ n <= serverCommandSequence - Len(executed)
      /\ Len(executed) + n = last /\ last <= serverCommandSequence
    BY <1>2, <1>3 DEF lastExecuted
<1>5. \A k \in 1..n : /\ Len(executed) + k \in (Len(executed) + 1)..last
                      /\ Len(executed) + k \in Nat
    BY <1>2, <1>4
<1>6. \A k \in 1..n : Text(Len(executed) + k) \in Nat
    BY <1>2, <1>5, SlotInRing DEF Text
<1>7. run \in Seq(Nat) /\ Len(run) = n
  <2>1. run \in [1..n -> Nat]
      BY <1>6
  <2>2. run \in Seq(Nat)
      BY <1>4, <1>6, IsASeq
  <2> HIDE DEF run
  <2> QED
      BY <1>4, <2>1, <2>2, LenProperties
<1>8. executed' = executed \o run
    BY <1>3 DEF lastExecuted
<1>9. ASSUME InWindow, NEW k \in 1..n
      PROVE  Text(Len(executed) + k) = Len(executed) + k
  <2> DEFINE i == Len(executed) + k
  <2>1. i \in (Len(executed) + 1)..last /\ i \in Nat
      BY <1>5
  <2>2. ~(i <= serverCommandSequence - N)
      BY <1>3, <2>1 DEF lastExecuted, Fatal, CycledOut
  <2>3. i \in 1..serverCommandSequence /\ i > serverCommandSequence - N
      BY <1>2, <1>4, <2>1, <2>2
  <2> HIDE DEF i
  <2>4. serverCommands[Slot(i)] = i
      BY <1>9, <2>3 DEF IInv, ClientKeeps
  <2> QED
      BY <2>4 DEF Text, i
<1>10. ASSUME InWindow PROVE run = [k \in 1..n |-> Len(executed) + k]
    BY <1>9, <1>10
<1> HIDE DEF run, n
<1>11. /\ executed' \in Seq(Nat) /\ Len(executed') = Len(executed) + n
       /\ \A i \in 1..(Len(executed) + n) :
             executed'[i] = IF i <= Len(executed) THEN executed[i] ELSE run[i - Len(executed)]
    BY <1>1, <1>7, <1>8, ConcatProperties
<1>12. InWindow' <=> InWindow
    BY <1>1 DEF serverVars, InWindow, N
<1>13. ExecutedInOrder'
  <2> SUFFICES ASSUME InWindow, NEW i \in 1..(Len(executed) + n)
               PROVE  executed'[i] = i
      BY <1>11, <1>12 DEF ExecutedInOrder
  <2>1. CASE i <= Len(executed)
    <3>1. i \in 1..Len(executed)
        BY <1>2, <1>4, <2>1
    <3>2. executed[i] = i
        BY <3>1 DEF IInv, ExecutedInOrder
    <3> QED
        BY <1>11, <2>1, <3>2
  <2>2. CASE ~(i <= Len(executed))
    <3>1. i - Len(executed) \in 1..n /\ Len(executed) + (i - Len(executed)) = i
        BY <1>2, <1>4, <2>2
    <3>2. run[i - Len(executed)] = Len(executed) + (i - Len(executed))
        BY <1>10, <3>1
    <3> QED
        BY <1>11, <2>2, <3>1, <3>2
  <2> QED
      BY <2>1, <2>2
<1>14. /\ Tail(pending) \in Seq(Nat)
       /\ \A j \in 1..Len(Tail(pending)) : \E k \in 1..Len(pending) : Tail(pending)[j] = pending[k]
    BY <1>1, TailFewer
<1>15. TypeOK'
  <2>1. connected' \in BOOLEAN
      BY <1>1, <1>3
  <2> QED
      BY <1>1, <1>11, <1>14, <2>1 DEF IInv, TypeOK, serverVars
<1>16. ClientKeeps'
  <2>1. \A k \in 1..Len(Tail(pending)) : Tail(pending)[k] <= serverCommandSequence
      BY <1>14, Zenon DEF IInv, ClientKeeps
  <2>2. Len(executed') <= serverCommandSequence
      BY <1>4, <1>11
  <2> QED
      BY <1>1, <1>12, <2>1, <2>2 DEF IInv, ClientKeeps, N
<1>17. WindowHeld' /\ AcksInOrder' /\ MessagesFaithful'
    BY <1>1, <1>12 DEF IInv, serverVars, WindowHeld, RingKeeps, AcksInOrder,
       MessagesFaithful, Faithful, Numbers
<1>18. n \in 0..(reliableSequence - Len(executed))
    BY <1>2, <1>4
<1> QED
    BY <1>8, <1>10, <1>13, <1>15, <1>16, <1>17, <1>18 DEF IInv

-----------------------------------------------------------------------------

LEMMA InitIInv ==
  ASSUME Init
  PROVE  IInv
<1>1. N \in Nat \ {0}
    BY SizeIsPositive
<1>2. TypeOK
    BY DEF Init, TypeOK, States
<1>3. WindowHeld /\ AcksInOrder /\ ClientKeeps
    BY <1>1 DEF Init, WindowHeld, InWindow, RingKeeps, AcksInOrder, ClientKeeps
<1>4. MessagesFaithful /\ ExecutedInOrder
    BY DEF Init, MessagesFaithful, ExecutedInOrder
<1> QED
    BY <1>2, <1>3, <1>4 DEF IInv

(* A step of the server on its client_t.                                   *)
ServerSteps == SV_SendServerCommand \/ SV_DropClient \/ SV_CheckTimeouts

LEMMA ServerBecomes ==
  ASSUME IInv, ServerSteps
  PROVE  \E c : Sound(c) /\ Grew(cl, c) /\ Becomes(c)
<1>1. Sound(cl) /\ cl \in ClientT
    BY ClIsSound DEF Sound, Keeps
<1>2. CASE SV_SendServerCommand
    BY <1>1, <1>2, AddSound DEF SV_SendServerCommand
<1>3. ASSUME NEW s \in {"CS_ZOMBIE", "CS_FREE"}
      PROVE  LET d == [DropClient(cl) EXCEPT !.state = s] IN Sound(d) /\ Grew(cl, d)
    BY <1>1, DropClientSound
<1>4. CASE SV_DropClient
  <2> DEFINE d == [DropClient(cl) EXCEPT !.state = "CS_ZOMBIE"]
             noticed == AddNotice(AddServerCommand(
                           [AddServerCommand(cl) EXCEPT !.calls = @ + 1]))
  <2>1. Becomes(DropClient(cl))
      BY <1>4 DEF SV_DropClient
  <2>2. DropClient(cl) = [noticed EXCEPT !.state = "CS_ZOMBIE"]
      BY DEF DropClient
  <2>3. d = DropClient(cl)
      BY <2>2
  <2> QED
      BY <1>3, <2>1, <2>3
<1>5. CASE SV_CheckTimeouts
  <2>1. CASE Becomes([DropClient(cl) EXCEPT !.state = "CS_FREE"])
      BY <1>3, <2>1
  <2>2. CASE Becomes([cl EXCEPT !.state = "CS_FREE"])
    <3> DEFINE d == [cl EXCEPT !.state = "CS_FREE"]
    <3>1. Keeps(d)
        BY <1>1, OtherFields DEF Sound, States
    <3>2. d.state = "CS_FREE" /\ d.seq = cl.seq /\ d.ack = cl.ack /\ cl.seq \in Nat
        BY <1>1 DEF ClientT
    <3> HIDE DEF d
    <3>3. Sound(d) /\ Grew(cl, d)
        BY <3>1, <3>2 DEF Sound, Grew
    <3> QED
        BY <2>2, <3>3 DEF d
  <2> QED
      BY <1>5, <2>1, <2>2 DEF SV_CheckTimeouts
<1> QED
    BY <1>2, <1>4, <1>5 DEF ServerSteps

LEMMA NextIInv ==
  ASSUME IInv, [Next]_vars
  PROVE  IInv'
<1>1. CASE ServerSteps
  <2>1. UNCHANGED <<clientVars, toClient, toServer>>
      BY <1>1 DEF ServerSteps, SV_SendServerCommand, SV_DropClient, SV_CheckTimeouts
  <2> QED
      BY <1>1, <2>1, ServerBecomes, ServerStep
<1>2. CASE SV_SendClientSnapshot
    BY <1>2, SnapshotStep
<1>3. CASE CL_ParseServerMessage
    BY <1>3, ParseStep
<1>4. CASE CL_WritePacket
    BY <1>4, WriteStep
<1>5. CASE SV_ExecuteClientMessage
    BY <1>5, AckStep
<1>6. CASE Lose
    BY <1>6, LoseStep
<1>7. CASE CG_TransitionSnapshot
    BY <1>7, TransitionStep
<1>8. CASE UNCHANGED vars
    BY <1>8 DEF vars, serverVars, clientVars, IInv, TypeOK, WindowHeld, InWindow, RingKeeps,
       AcksInOrder, MessagesFaithful, Faithful, Numbers, ClientKeeps, ExecutedInOrder
<1> QED
    BY <1>1, <1>2, <1>3, <1>4, <1>5, <1>6, <1>7, <1>8 DEF Next, ServerSteps

(* The client executes the commands it was given, in order and without a   *)
(* gap, and the server believes every acknowledgement, whatever the size   *)
(* of the ring and however many messages are lost.                         *)
THEOREM Invariance == Spec => []IInv
<1>1. Init => IInv
    BY InitIInv
<1>2. IInv /\ [Next]_vars => IInv'
    BY NextIInv
<1> QED
    BY <1>1, <1>2, PTL DEF Spec

(* Until the ring overflows, the commands are a reliable stream.           *)
THEOREM Refinement == Spec => ImplementsStream
<1>1. Init => Stream!Init
  <2> SUFFICES ASSUME Init PROVE Stream!Init
      OBVIOUS
  <2>1. IInv
      BY InitIInv
  <2>2. InWindow
      BY <2>1 DEF Init, IInv, WindowHeld
  <2> QED
      BY <2>2 DEF Init, Stream!Init
<1>2. ASSUME IInv, [Next]_vars PROVE [Stream!Next]_(Stream!vars)
  <2> USE DEF Stream!Next, Stream!vars
  <2>1. InWindow \in BOOLEAN /\ InWindow' \in BOOLEAN
      BY DEF InWindow
  <2>2. CASE ServerSteps
    <3>1. PICK c : Sound(c) /\ Grew(cl, c) /\ Becomes(c)
        BY <1>2, <2>2, ServerBecomes
    <3>2. /\ reliableSequence' \in Nat /\ reliableSequence \in Nat
          /\ reliableSequence <= reliableSequence' /\ reliableAcknowledge \in Nat
          /\ reliableAcknowledge' = reliableAcknowledge
        BY <1>2, <3>1 DEF IInv, TypeOK, Becomes, Grew, cl, Sound, Keeps, ClientT
    <3>3. UNCHANGED executed
        BY <2>2 DEF ServerSteps, SV_SendServerCommand, SV_DropClient, SV_CheckTimeouts, clientVars
    <3>4. InWindow' => InWindow
        BY <3>2, WindowNeverReopens
    <3>5. CASE reliableSequence' = reliableSequence
      <4>1. InWindow' <=> InWindow
          BY <3>2, <3>5 DEF InWindow, N
      <4> QED
          BY <3>3, <3>5, <4>1
    <3>6. CASE reliableSequence' # reliableSequence
      <4>1. reliableSequence' > reliableSequence
        <5> DEFINE t == reliableSequence'
        <5>1. t \in Nat /\ reliableSequence \in Nat /\ reliableSequence <= t /\ t # reliableSequence
            BY <3>2, <3>6
        <5> HIDE DEF t
        <5>2. t > reliableSequence
            BY <5>1
        <5> QED
            BY <5>2 DEF t
      <4>2. (~InWindow)' \in {~InWindow, TRUE}
          BY <2>1, <3>4
      <4> QED
          BY <3>2, <3>3, <4>1, <4>2 DEF Stream!Give
    <3> QED
        BY <3>5, <3>6
  <2>3. CASE CG_TransitionSnapshot
    <3>1. PICK n \in 0..(reliableSequence - Len(executed)) :
             InWindow => executed' = executed \o [k \in 1..n |-> Len(executed) + k]
        BY <1>2, <2>3, TransitionStep
    <3>2. UNCHANGED reliableSequence /\ (InWindow' <=> InWindow)
        BY <2>3 DEF CG_TransitionSnapshot, serverVars, InWindow, N
    <3>3. CASE ~InWindow
        BY <3>2, <3>3 DEF Stream!Broken
    <3>4. CASE InWindow /\ n = 0
      <4>1. executed \in Seq(Nat)
          BY <1>2 DEF IInv, TypeOK
      <4>2. [k \in 1..n |-> Len(executed) + k] = <<>>
          BY <3>4
      <4>3. executed' = executed
          BY <3>1, <3>4, <4>1, <4>2, ConcatEmptySeq
      <4> QED
          BY <3>2, <4>3
    <3>5. CASE InWindow /\ n # 0
      <4>1. n \in 1..(reliableSequence - Len(executed))
        <5>1. reliableSequence \in Nat /\ Len(executed) \in Nat
            BY <1>2 DEF IInv, TypeOK
        <5> QED
            BY <3>1, <3>5, <5>1
      <4>2. Stream!Execute(n)
          BY <3>1, <3>2, <3>5 DEF Stream!Execute
      <4> QED
          BY <4>1, <4>2
    <3> QED
        BY <3>3, <3>4, <3>5
  <2>4. CASE SV_ExecuteClientMessage
    <3>1. UNCHANGED <<reliableSequence, executed>>
        BY <2>4 DEF SV_ExecuteClientMessage, clientVars
    <3>2. InWindow' <=> InWindow
      <4>1. CASE state = "CS_ACTIVE"
        <5>1. IInv' /\ state' = "CS_ACTIVE"
            BY <1>2, <2>4, <4>1, AckStep DEF SV_ExecuteClientMessage
        <5> QED
            BY <1>2, <4>1, <5>1 DEF IInv, WindowHeld
      <4>2. CASE state = "CS_ZOMBIE"
          BY <2>4, <4>2 DEF SV_ExecuteClientMessage, InWindow, N
      <4> QED
          BY <2>4, <4>1, <4>2 DEF SV_ExecuteClientMessage
    <3> QED
        BY <3>1, <3>2
  <2>5. CASE \/ SV_SendClientSnapshot \/ CL_ParseServerMessage
             \/ CL_WritePacket \/ Lose \/ UNCHANGED vars
    <3>1. UNCHANGED <<reliableSequence, reliableAcknowledge, executed>>
        BY <2>5 DEF SV_SendClientSnapshot, CL_ParseServerMessage, CL_WritePacket, Lose,
           vars, serverVars, clientVars
    <3>2. InWindow' <=> InWindow
        BY <3>1 DEF InWindow, N
    <3> QED
        BY <3>1, <3>2
  <2> QED
      BY <1>2, <2>2, <2>3, <2>4, <2>5 DEF Next, ServerSteps
<1> QED
    BY <1>1, <1>2, Invariance, PTL DEF Spec, Stream!Spec, ImplementsStream
=============================================================================
