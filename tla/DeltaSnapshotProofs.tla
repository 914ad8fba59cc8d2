------------------------- MODULE DeltaSnapshotProofs -------------------------
(***************************************************************************)
(* Proofs about DeltaSnapshot, for rings of any size, any number of        *)
(* entities seen, and any number of messages and maps.                     *)
(***************************************************************************)
EXTENDS DeltaSnapshot, SequenceTheorems, Remainders

(* The n entities from place first of a ring are still there, all x. *)
Intact(ring, size, next, first, n, x) ==
    first > next - size => \A k \in 0..n - 1 : ring[(first + k) % size] = x

(* Messages on their way are numbered in order, after those received, and  *)
(* so are the levels they are of. *)
MessagesInOrder ==
    /\ snap <= serverMessageSequence /\ serverMessageSequence < outgoingSequence
    /\ gamestateMessageNum < outgoingSequence /\ deltaMessage <= serverMessageSequence
    /\ \A i \in DOMAIN toClient : /\ serverMessageSequence < toClient[i].num
                                  /\ toClient[i].num < outgoingSequence
    /\ \A i, j \in DOMAIN toClient : i < j => toClient[i].num < toClient[j].num

LevelsInOrder ==
    /\ serverId > 0 /\ clServerId <= serverId
    /\ \A i \in DOMAIN toClient :
          toClient[i].id # 0 => clServerId <= toClient[i].id /\ toClient[i].id <= serverId
    /\ \A i, j \in DOMAIN toClient :
          i < j /\ toClient[i].id # 0 /\ toClient[j].id # 0 => toClient[i].id <= toClient[j].id
    /\ \A i \in DOMAIN toServer : /\ toServer[i].id <= clServerId
                                  /\ toServer[i].ack <= serverMessageSequence
    /\ \A i, j \in DOMAIN toServer : i < j => toServer[i].id <= toServer[j].id

(* A client of a new level has not seen its gamestate.  Then only the last *)
(* gamestate can reach it, for another is sent only when that one is lost; *)
(* and what it asks for is what it received after it. *)
GamestateOnce ==
    /\ state = "CS_CONNECTED" => /\ clServerId < serverId
                                 /\ \A i \in DOMAIN toClient : toClient[i].id # serverId
    /\ state # "CS_CONNECTED" =>
          \A i \in DOMAIN toClient : toClient[i].id = serverId => toClient[i].num = gamestateMessageNum
    /\ (state # "CS_CONNECTED" /\ clServerId = serverId) =>
          /\ gamestateMessageNum <= serverMessageSequence
          /\ snap # 0 => snap > gamestateMessageNum
          /\ \A i \in DOMAIN toServer :
                /\ toServer[i].id # serverId => toServer[i].ack <= gamestateMessageNum
                /\ toServer[i].id = serverId /\ toServer[i].delta => toServer[i].ack > gamestateMessageNum
    /\ state = "CS_ACTIVE" =>
          /\ clServerId = serverId
          /\ \A i \in DOMAIN toServer : toServer[i].id = serverId
          /\ deltaMessage > 0 => deltaMessage > gamestateMessageNum

(* The frames of this level are in the server's ring until it wraps. *)
FramesInRing ==
    \A s \in FrameSlots :
        LET f == frames[s]
        IN  /\ f.ps \in Nat /\ f.ps < outgoingSequence /\ f.num <= MAX_SNAPSHOT_ENTITIES
            /\ f.ps > 0 => Slot(f.ps) = s
            /\ (state # "CS_CONNECTED" /\ f.ps > gamestateMessageNum) =>
                  /\ f.first + f.num <= nextSnapshotEntities
                  /\ Intact(snapshotEntities, numSnapshotEntities, nextSnapshotEntities, f.first, f.num, f.ps)

(* The server has the frame of message b, if it can. *)
FrameIn(kept, next, b) == b > 0 /\ (next - b <= PACKET_BACKUP => kept[Slot(b)].ps = b)
FrameKept(b) == FrameIn(frames, outgoingSequence, b)
FramesKept ==
    /\ \A i \in DOMAIN toClient : toClient[i].id = 0 => FrameKept(toClient[i].num)
    /\ snap > 0 => FrameKept(snap)
    /\ \A i \in DOMAIN toServer : toServer[i].delta => FrameKept(toServer[i].ack)
    /\ deltaMessage > 0 => FrameKept(deltaMessage)

(* Entities of so many messages. *)
Room(k) == k * MAX_SNAPSHOT_ENTITIES

(* What a snapshot holds that the client can use. *)
SnapshotRight(s) ==
    LET t == snapshots[s]
    IN  /\ t.messageNum > 0 /\ t.messageNum <= snap /\ t.messageNum > snap - PACKET_BACKUP
        /\ Slot(t.messageNum) = s /\ t.ps = t.messageNum
        /\ frames[s].ps = t.messageNum => frames[s].num = t.num
        /\ t.num <= MAX_SNAPSHOT_ENTITIES /\ t.first + t.num <= parseEntitiesNum
        /\ parseEntitiesNum - t.first <=
              Room(serverMessageSequence - t.messageNum + 1)
        /\ Intact(parseEntities, MAX_PARSE_ENTITIES, parseEntitiesNum, t.first, t.num, t.messageNum)
Has(b) == snapshots[Slot(b)].valid /\ snapshots[Slot(b)].messageNum = b
SnapshotsRight ==
    /\ \A s \in FrameSlots : snapshots[s].valid => SnapshotRight(s)
    /\ snap > 0 => Has(snap)

(* The client has what it asked for, as long as its slot is not used again. *)
Holds(b) == b <= snap /\ (serverMessageSequence < b + PACKET_BACKUP => Has(b))
AskedHeld ==
    /\ (state = "CS_ACTIVE" /\ deltaMessage > 0) => Holds(deltaMessage)
    /\ \A i \in DOMAIN toServer : toServer[i].id = serverId /\ toServer[i].delta => Holds(toServer[i].ack)

(* A snapshot on its way is of its frame, and was encoded from one that    *)
(* the client has, with no gamestate before it. *)
Whole(b, n) == [ps |-> b, entities |-> [i \in 1..n |-> b]]
OnWay(i) ==
    LET m == toClient[i]
        b == m.num - m.delta
    IN  /\ m.entities <= MAX_SNAPSHOT_ENTITIES
        /\ frames[Slot(m.num)].ps = m.num => frames[Slot(m.num)].num = m.entities
        /\ m.delta = 0 => m.base = Whole(Other, 0)
        /\ m.delta # 0 =>
              /\ b > 0 /\ m.delta < PACKET_BACKUP - 3 /\ b <= snap
              /\ Has(b) /\ m.base = Whole(b, snapshots[Slot(b)].num)
              /\ \A j \in DOMAIN toClient : j < i => toClient[j].id = 0
SnapshotsOnWay == \A i \in DOMAIN toClient : toClient[i].id = 0 => OnWay(i)

DeltaInd ==
    /\ TypeOK /\ MessagesInOrder /\ LevelsInOrder /\ GamestateOnce /\ FramesInRing /\ FramesKept
    /\ SnapshotsRight /\ AskedHeld /\ SnapshotsOnWay

-----------------------------------------------------------------------------
(* Sizes, slots and rings. *)
LEMMA Sizes ==
  /\ PACKET_BACKUP \in Nat \ {0} /\ PACKET_BACKUP > 3
  /\ MAX_SNAPSHOT_ENTITIES \in Nat \ {0} /\ numSnapshotEntities \in Nat \ {0}
  /\ VisibleCounts \subseteq 0..MAX_SNAPSHOT_ENTITIES
  /\ MAX_PARSE_ENTITIES \in Nat \ {0} /\ MAX_PARSE_ENTITIES = Room(PACKET_BACKUP)
<1>1. /\ PACKET_BACKUP \in Nat \ {0} /\ PACKET_BACKUP > 3
      /\ MAX_SNAPSHOT_ENTITIES \in Nat \ {0} /\ numSnapshotEntities \in Nat \ {0}
      /\ VisibleCounts \subseteq 0..MAX_SNAPSHOT_ENTITIES
    BY SnapshotAssumption
<1>2. PACKET_BACKUP * MAX_SNAPSHOT_ENTITIES \in Nat \ {0}
    BY <1>1
<1> QED
    BY <1>1, <1>2 DEF MAX_PARSE_ENTITIES, Room

LEMMA RoomGrows ==
  ASSUME NEW a \in Int, NEW b \in Int
  PROVE  /\ Room(a) \in Int
         /\ a < b => Room(a) + MAX_SNAPSHOT_ENTITIES <= Room(b)
         /\ a <= b => Room(a) <= Room(b)
         /\ Room(1) = MAX_SNAPSHOT_ENTITIES
         /\ Room(a - 1) = Room(a) - MAX_SNAPSHOT_ENTITIES
<1> DEFINE M == MAX_SNAPSHOT_ENTITIES
<1>1. M \in Nat
    BY Sizes
<1> HIDE DEF M
<1>2. a * M \in Int /\ b * M \in Int /\ (a - 1) * M = a * M - M /\ 1 * M = M
    BY <1>1
<1>3. b * M = a * M + (b - a) * M
    BY <1>1
<1>4. a < b => (b - a) * M >= M
    BY <1>1
<1>5. a = b => b * M = a * M
    OBVIOUS
<1>6. M \in Nat /\ (b - a) * M \in Int
    BY <1>1
<1> QED
    BY <1>2, <1>3, <1>4, <1>5, <1>6 DEF Room, M

LEMMA Slots ==
  /\ \A i \in Int : Slot(i) \in FrameSlots
  /\ \A i, j \in Int : i < j /\ j - i < PACKET_BACKUP => Slot(i) # Slot(j)
BY Sizes, RemainderInRange, RemaindersDiffer DEF Slot, FrameSlots

(* The last number that has the slot of b. *)
LEMMA SlotAgain ==
  ASSUME NEW b \in Int, NEW top \in Int, b <= top - PACKET_BACKUP
  PROVE  \E i \in Int : /\ i > top - PACKET_BACKUP /\ i <= top
                        /\ i >= b + PACKET_BACKUP /\ Slot(i) = Slot(b)
<1> DEFINE n == PACKET_BACKUP
           q == (top - b) \div n
           r == (top - b) % n
<1>1. n \in Nat \ {0} /\ top - b \in Int
    BY Sizes
<1>2. top - b = n * q + r /\ r \in 0..(n - 1) /\ q \in Int
    BY <1>1, Z3
<1>3. b + n * q \in Int /\ Slot(b + n * q) = Slot(b)
  <2>1. n * q \in Int
      BY <1>1, <1>2
  <2> HIDE DEF q
  <2>2. n \in Nat \ {0} /\ q \in Int /\ b \in Int
      BY <1>1, <1>2
  <2> HIDE DEF n
  <2>3. (b + n * q) % n = b % n
      BY <2>2, RemainderPeriod, Zenon
  <2> QED
      BY <2>1, <2>3 DEF Slot, n
<1> HIDE DEF n, q, r
<1>4. q >= 1
  <2>1. CASE q <= 0
    <3>1. n * q <= 0
        BY <1>1, <1>2, <2>1
    <3> QED
        BY <1>1, <1>2, <3>1 DEF n
  <2> QED
      BY <1>2, <2>1
<1>5. n * q >= n
    BY <1>1, <1>2, <1>4
<1> QED
    BY <1>1, <1>2, <1>3, <1>5 DEF n

LEMMA PutDomain ==
  ASSUME NEW size, NEW ring, DOMAIN ring = 0..(size - 1), NEW next, NEW n, NEW x
  PROVE  DOMAIN Put(ring, size, next, n, x) = 0..(size - 1)
BY DEF Put

LEMMA PutKeeps ==
  ASSUME NEW size \in Nat \ {0}, NEW ring, DOMAIN ring = 0..(size - 1), NEW next \in Nat, NEW n \in Nat,
         NEW first \in Nat, NEW m \in Nat, NEW x, NEW y,
         first + m <= next, Intact(ring, size, next, first, m, x)
  PROVE  Intact(Put(ring, size, next, n, y), size, next + n, first, m, x)
<1> SUFFICES ASSUME first > (next + n) - size, NEW k \in 0..m - 1
             PROVE  Put(ring, size, next, n, y)[(first + k) % size] = x
    BY DEF Intact
<1>1. first + k \in Int /\ first > next - size
    OBVIOUS
<1>2. (first + k) % size \in 0..(size - 1)
    BY <1>1, RemainderInRange
<1>3. ASSUME NEW i \in 0..(n - 1)
      PROVE  (next + i) % size # (first + k) % size
  <2>1. next + i \in Int /\ first + k < next + i /\ (next + i) - (first + k) < size
      OBVIOUS
  <2> QED
      BY <1>1, <2>1, RemaindersDiffer
<1>4. ring[(first + k) % size] = x
    BY <1>1 DEF Intact
<1> QED
    BY <1>2, <1>3, <1>4 DEF Put

LEMMA PutThere ==
  ASSUME NEW size \in Nat \ {0}, NEW ring, DOMAIN ring = 0..(size - 1), NEW next \in Nat, NEW n \in Nat, NEW x
  PROVE  Intact(Put(ring, size, next, n, x), size, next + n, next, n, x)
<1> SUFFICES ASSUME NEW k \in 0..n - 1
             PROVE  Put(ring, size, next, n, x)[(next + k) % size] = x
    BY DEF Intact
<1>1. (next + k) % size \in 0..(size - 1)
    BY RemainderInRange
<1>2. \E i \in 0..(n - 1) : (next + i) % size = (next + k) % size
    OBVIOUS
<1> QED
    BY <1>1, <1>2 DEF Put

(* What is read where everything is intact. *)
LEMMA ContentsWhole ==
  ASSUME NEW ring, NEW size \in Nat \ {0}, NEW f, NEW next \in Nat,
         f.first \in Nat, f.num \in Nat, f.first > next - size,
         Intact(ring, size, next, f.first, f.num, f.ps)
  PROVE  Contents(ring, size, f) = Whole(f.ps, f.num)
<1>1. \A i \in 1..f.num : i - 1 \in 0..f.num - 1 /\ f.first + (i - 1) = f.first + i - 1
    OBVIOUS
<1>2. \A i \in 1..f.num : ring[(f.first + i - 1) % size] = f.ps
    BY <1>1 DEF Intact
<1> QED
    BY <1>2 DEF Contents, Whole

LEMMA ContentsOfNothing ==
  ASSUME NEW ring, NEW size, NEW f, f.num = 0, f.ps = Other
  PROVE  Contents(ring, size, f) = Whole(Other, 0)
<1>1. \A i : i \notin 1..0
    OBVIOUS
<1> QED
    BY <1>1 DEF Contents, Whole
-----------------------------------------------------------------------------
(* Queues and types. *)
LEMMA TailOf ==
  ASSUME NEW S, NEW q \in Seq(S), q # <<>>, NEW t, t = Tail(q)
  PROVE  /\ t \in Seq(S)
         /\ \A i \in DOMAIN t : i \in Nat /\ i + 1 \in DOMAIN q /\ t[i] = q[i + 1] /\ 1 < i + 1
         /\ 1 \in DOMAIN q /\ Head(q) = q[1]
<1>1. t \in Seq(S) /\ Len(t) = Len(q) - 1 /\ \A i \in 1..Len(t) : t[i] = q[i + 1]
    BY HeadTailProperties
<1>2. Len(q) \in Nat \ {0} /\ DOMAIN q = 1..Len(q) /\ DOMAIN t = 1..Len(t) /\ Head(q) = q[1]
    BY <1>1, EmptySeq, LenProperties
<1> QED
    BY <1>1, <1>2

LEMMA AppendOf ==
  ASSUME NEW S, NEW q \in Seq(S), NEW x \in S, NEW t, t = Append(q, x)
  PROVE  /\ t \in Seq(S)
         /\ \A i \in DOMAIN t : i \in Nat /\ ((i \in DOMAIN q /\ t[i] = q[i]) \/ t[i] = x)
         /\ \A i, j \in DOMAIN t : i < j => i \in DOMAIN q /\ t[i] = q[i]
<1>1. /\ t \in Seq(S) /\ Len(t) = Len(q) + 1
      /\ \A i \in 1..Len(q) : t[i] = q[i]
      /\ t[Len(q) + 1] = x
    BY AppendProperties
<1>2. Len(q) \in Nat /\ DOMAIN q = 1..Len(q) /\ DOMAIN t = 1..Len(t)
    BY <1>1, LenProperties
<1> QED
    BY <1>1, <1>2

Message == [num : Nat, id : Nat, delta : Nat, entities : Nat, base : Bases]
Asking == [id : Nat, ack : Nat, delta : BOOLEAN]
Snapshot == [valid : BOOLEAN, messageNum : Nat, first : Nat, num : Nat, ps : Entities]

LEMMA NumbersTyped ==
  ASSUME TypeOK
  PROVE  /\ outgoingSequence \in Nat /\ gamestateMessageNum \in Int /\ deltaMessage \in Int
         /\ serverId \in Nat /\ nextSnapshotEntities \in Nat
         /\ clServerId \in Nat /\ serverMessageSequence \in Nat /\ snap \in Nat /\ parseEntitiesNum \in Nat
BY DEF TypeOK

LEMMA RingsTyped ==
  ASSUME TypeOK
  PROVE  /\ DOMAIN frames = FrameSlots /\ DOMAIN snapshots = FrameSlots
         /\ \A s \in FrameSlots : frames[s].first \in Nat /\ frames[s].num \in Nat /\ frames[s].ps \in Int
         /\ \A s \in FrameSlots : /\ snapshots[s].messageNum \in Nat /\ snapshots[s].first \in Nat
                                 /\ snapshots[s].num \in Nat /\ snapshots[s].valid \in BOOLEAN
         /\ DOMAIN snapshotEntities = 0..(numSnapshotEntities - 1)
         /\ DOMAIN parseEntities = 0..(MAX_PARSE_ENTITIES - 1)
<1>1. /\ frames \in [FrameSlots -> Frames] /\ snapshots \in [FrameSlots -> Snapshot]
    BY DEF TypeOK, Snapshot
<1>2. /\ DOMAIN frames = FrameSlots /\ DOMAIN snapshots = FrameSlots
      /\ \A s \in FrameSlots : frames[s] \in Frames /\ snapshots[s] \in Snapshot
    BY <1>1
<1>3. Entities \subseteq Int
    BY DEF Entities, Other, Wrong
<1>4. \A s \in FrameSlots : frames[s].first \in Nat /\ frames[s].num \in Nat /\ frames[s].ps \in Int
    BY <1>2, <1>3 DEF Frames
<1>5. \A s \in FrameSlots : /\ snapshots[s].messageNum \in Nat /\ snapshots[s].first \in Nat
                           /\ snapshots[s].num \in Nat /\ snapshots[s].valid \in BOOLEAN
    BY <1>2 DEF Snapshot
<1> QED
    BY <1>2, <1>4, <1>5 DEF TypeOK

LEMMA QueuesTyped ==
  ASSUME TypeOK
  PROVE  /\ toClient \in Seq(Message) /\ toServer \in Seq(Asking)
         /\ \A i \in DOMAIN toClient :
               /\ i \in Nat /\ toClient[i].num \in Nat /\ toClient[i].id \in Nat
               /\ toClient[i].delta \in Nat /\ toClient[i].entities \in Nat
         /\ \A i \in DOMAIN toServer :
               i \in Nat /\ toServer[i].id \in Nat /\ toServer[i].ack \in Nat /\ toServer[i].delta \in BOOLEAN
<1>1. toClient \in Seq(Message) /\ toServer \in Seq(Asking)
    BY DEF TypeOK, Message, Asking
<1>2. /\ \A i \in DOMAIN toClient : i \in Nat /\ toClient[i] \in Message
      /\ \A i \in DOMAIN toServer : i \in Nat /\ toServer[i] \in Asking
    BY <1>1, LenProperties, ElementOfSeq
<1>3. /\ \A i \in DOMAIN toClient :
               /\ i \in Nat /\ toClient[i].num \in Nat /\ toClient[i].id \in Nat
               /\ toClient[i].delta \in Nat /\ toClient[i].entities \in Nat
      /\ \A i \in DOMAIN toServer :
               i \in Nat /\ toServer[i].id \in Nat /\ toServer[i].ack \in Nat /\ toServer[i].delta \in BOOLEAN
    BY <1>2 DEF Message, Asking
<1> QED
    BY <1>1, <1>3

LEMMA Typed ==
  ASSUME TypeOK
  PROVE  /\ outgoingSequence \in Nat /\ gamestateMessageNum \in Int /\ deltaMessage \in Int
         /\ serverId \in Nat /\ nextSnapshotEntities \in Nat
         /\ clServerId \in Nat /\ serverMessageSequence \in Nat /\ snap \in Nat /\ parseEntitiesNum \in Nat
         /\ \A i \in DOMAIN toClient :
               /\ i \in Nat /\ toClient[i].num \in Nat /\ toClient[i].id \in Nat
               /\ toClient[i].delta \in Nat /\ toClient[i].entities \in Nat
         /\ \A i \in DOMAIN toServer :
               i \in Nat /\ toServer[i].id \in Nat /\ toServer[i].ack \in Nat /\ toServer[i].delta \in BOOLEAN
BY NumbersTyped, QueuesTyped

(* A message lost or received leaves the others in their order. *)
LEMMA MessagesBehind ==
  ASSUME TypeOK, toClient # <<>>, toClient' = Tail(toClient)
  PROVE  /\ toClient' \in Seq(Message)
         /\ \A i \in DOMAIN toClient' :
               i \in Nat /\ i + 1 \in DOMAIN toClient /\ toClient'[i] = toClient[i + 1] /\ 1 < i + 1
         /\ 1 \in DOMAIN toClient /\ Head(toClient) = toClient[1]
BY QueuesTyped, TailOf

LEMMA PacketsBehind ==
  ASSUME TypeOK, toServer # <<>>, toServer' = Tail(toServer)
  PROVE  /\ toServer' \in Seq(Asking)
         /\ \A i \in DOMAIN toServer' :
               i \in Nat /\ i + 1 \in DOMAIN toServer /\ toServer'[i] = toServer[i + 1] /\ 1 < i + 1
         /\ 1 \in DOMAIN toServer /\ Head(toServer) = toServer[1]
BY QueuesTyped, TailOf

LEMMA LoseMessage ==
  ASSUME DeltaInd, toClient # <<>>, toClient' = Tail(toClient),
         UNCHANGED <<serverVars, clientVars, toServer>>
  PROVE  DeltaInd'
<1> USE DEF DeltaInd
<1>1. TypeOK'
    BY MessagesBehind DEF TypeOK, Message, serverVars, clientVars, snapVars
<1>2. UNCHANGED <<state, serverId, outgoingSequence, gamestateMessageNum, deltaMessage, frames,
                  nextSnapshotEntities, snapshotEntities, clServerId, serverMessageSequence,
                  snap, snapshots, parseEntitiesNum, parseEntities, toServer>>
    BY DEF serverVars, clientVars, snapVars
<1> USE <1>2
<1>3. MessagesInOrder'
    BY MessagesBehind DEF MessagesInOrder
<1>4. LevelsInOrder'
    BY MessagesBehind DEF LevelsInOrder
<1>5. GamestateOnce'
    BY MessagesBehind DEF GamestateOnce
<1>6. FramesInRing'
    BY DEF FramesInRing
<1>7. FramesKept'
    BY MessagesBehind DEF FramesKept, FrameKept, FrameIn
<1>8. SnapshotsRight'
    BY DEF SnapshotsRight, SnapshotRight, Has
<1>9. AskedHeld'
    BY DEF AskedHeld, Holds, Has
<1>10. SnapshotsOnWay'
    BY MessagesBehind DEF SnapshotsOnWay, OnWay, Has
<1> QED
    BY <1>1, <1>3, <1>4, <1>5, <1>6, <1>7, <1>8, <1>9, <1>10

LEMMA LosePacket ==
  ASSUME DeltaInd, toServer # <<>>, toServer' = Tail(toServer),
         UNCHANGED <<serverVars, clientVars, toClient>>
  PROVE  DeltaInd'
<1> USE DEF DeltaInd
<1>1. TypeOK'
    BY PacketsBehind DEF TypeOK, Asking, serverVars, clientVars, snapVars
<1>2. UNCHANGED <<state, serverId, outgoingSequence, gamestateMessageNum, deltaMessage, frames,
                  nextSnapshotEntities, snapshotEntities, clServerId, serverMessageSequence,
                  snap, snapshots, parseEntitiesNum, parseEntities, toClient>>
    BY DEF serverVars, clientVars, snapVars
<1> USE <1>2
<1>3. MessagesInOrder'
    BY DEF MessagesInOrder
<1>4. LevelsInOrder'
    BY PacketsBehind DEF LevelsInOrder
<1>5. GamestateOnce'
    BY PacketsBehind DEF GamestateOnce
<1>6. FramesInRing'
    BY DEF FramesInRing
<1>7. FramesKept'
    BY PacketsBehind DEF FramesKept, FrameKept, FrameIn
<1>8. SnapshotsRight'
    BY DEF SnapshotsRight, SnapshotRight, Has
<1>9. AskedHeld'
    BY PacketsBehind DEF AskedHeld, Holds, Has
<1>10. SnapshotsOnWay'
    BY DEF SnapshotsOnWay, OnWay, Has
<1> QED
    BY <1>1, <1>3, <1>4, <1>5, <1>6, <1>7, <1>8, <1>9, <1>10

LEMMA WriteStep ==
  ASSUME DeltaInd, CL_WritePacket
  PROVE  DeltaInd'
<1> USE DEF DeltaInd
<1>1. PICK delta \in {FALSE, MayAskForDelta} :
         toServer' = Append(toServer, [id |-> clServerId, ack |-> serverMessageSequence, delta |-> delta])
    BY DEF CL_WritePacket
<1> DEFINE p == [id |-> clServerId, ack |-> serverMessageSequence, delta |-> delta]
<1>2. p \in Asking /\ p.id = clServerId /\ p.ack = serverMessageSequence
      /\ (p.delta => snap > 0 /\ serverMessageSequence = snap)
  <2>1. delta \in BOOLEAN /\ (delta => snap > 0 /\ serverMessageSequence = snap)
    <3>1. snap # 0 => snap > 0
        BY NumbersTyped
    <3>2. CASE delta = FALSE
        BY <3>2
    <3>3. CASE delta = MayAskForDelta
        BY <3>1, <3>3 DEF MayAskForDelta
    <3> QED
        BY <1>1, <3>2, <3>3
  <2>2. clServerId \in Nat /\ serverMessageSequence \in Nat
      BY NumbersTyped
  <2> QED
      BY <2>1, <2>2 DEF Asking
<1> HIDE DEF p
<1>3. toServer' = Append(toServer, p)
    BY <1>1 DEF p
<1>4. /\ toServer' \in Seq(Asking)
      /\ \A i \in DOMAIN toServer' :
            i \in Nat /\ ((i \in DOMAIN toServer /\ toServer'[i] = toServer[i]) \/ toServer'[i] = p)
      /\ \A i, j \in DOMAIN toServer' : i < j => i \in DOMAIN toServer /\ toServer'[i] = toServer[i]
    BY <1>2, <1>3, QueuesTyped, AppendOf
<1>5. UNCHANGED <<state, serverId, outgoingSequence, gamestateMessageNum, deltaMessage, frames,
                  nextSnapshotEntities, snapshotEntities, clServerId, serverMessageSequence,
                  snap, snapshots, parseEntitiesNum, parseEntities, toClient>>
    BY DEF CL_WritePacket, serverVars, clientVars, snapVars
<1> USE <1>5
<1>6. TypeOK'
    BY <1>4 DEF TypeOK, Asking
<1>7. MessagesInOrder'
    BY DEF MessagesInOrder
<1>8. LevelsInOrder'
  <2>1. \A i \in DOMAIN toServer' : toServer'[i].id <= clServerId /\ toServer'[i].ack <= serverMessageSequence
      BY <1>2, <1>4, NumbersTyped DEF LevelsInOrder
  <2>2. \A i, j \in DOMAIN toServer' : i < j => toServer'[i].id <= toServer'[j].id
      BY <1>2, <1>4 DEF LevelsInOrder
  <2> QED
      BY <2>1, <2>2 DEF LevelsInOrder
<1>9. GamestateOnce'
  <2>1. ASSUME state # "CS_CONNECTED", clServerId = serverId, NEW i \in DOMAIN toServer'
        PROVE  /\ toServer'[i].id # serverId => toServer'[i].ack <= gamestateMessageNum
               /\ toServer'[i].id = serverId /\ toServer'[i].delta => toServer'[i].ack > gamestateMessageNum
    <3>1. CASE i \in DOMAIN toServer /\ toServer'[i] = toServer[i]
        BY <2>1, <3>1 DEF GamestateOnce
    <3>2. CASE toServer'[i] = p
        BY <2>1, <3>2, <1>2, NumbersTyped DEF GamestateOnce
    <3> QED
        BY <1>4, <3>1, <3>2
  <2>2. state = "CS_ACTIVE" => \A i \in DOMAIN toServer' : toServer'[i].id = serverId
      BY <1>2, <1>4 DEF GamestateOnce
  <2> QED
      BY <2>1, <2>2 DEF GamestateOnce
<1>10. FramesInRing'
    BY DEF FramesInRing
<1>11. FramesKept'
    BY <1>2, <1>4 DEF FramesKept, FrameKept, FrameIn
<1>12. SnapshotsRight'
    BY DEF SnapshotsRight, SnapshotRight, Has
<1>13. AskedHeld'
  <2>1. p.delta => Holds(p.ack)
      BY <1>2, NumbersTyped DEF Holds, SnapshotsRight
  <2>2. \A i \in DOMAIN toServer' : toServer'[i].id = serverId /\ toServer'[i].delta => Holds(toServer'[i].ack)
      BY <1>4, <2>1 DEF AskedHeld
  <2> QED
      BY <2>2 DEF AskedHeld, Holds, Has
<1>14. SnapshotsOnWay'
    BY DEF SnapshotsOnWay, OnWay, Has
<1> QED
    BY <1>6, <1>7, <1>8, <1>9, <1>10, <1>11, <1>12, <1>13, <1>14

LEMMA OthersStep ==
  ASSUME DeltaInd, SnapshotsOfOthers
  PROVE  DeltaInd'
<1> USE DEF DeltaInd
<1>1. /\ snapshotEntities' = Put(snapshotEntities, numSnapshotEntities, nextSnapshotEntities,
                                 MAX_SNAPSHOT_ENTITIES, Other)
      /\ nextSnapshotEntities' = nextSnapshotEntities + MAX_SNAPSHOT_ENTITIES
    BY DEF SnapshotsOfOthers
<1>2. UNCHANGED <<state, serverId, outgoingSequence, gamestateMessageNum, deltaMessage, frames,
                  clServerId, serverMessageSequence,
                  snap, snapshots, parseEntitiesNum, parseEntities, toClient, toServer>>
    BY DEF SnapshotsOfOthers, clientVars, snapVars
<1>3. TypeOK'
  <2>1. nextSnapshotEntities' \in Nat
      BY <1>1, NumbersTyped, Sizes
  <2>2. snapshotEntities' \in [0..(numSnapshotEntities - 1) -> Entities]
      BY <1>1, RingsTyped DEF Put, TypeOK, Entities, Other
  <2> QED
      BY <1>2, <2>1, <2>2 DEF TypeOK
<1>4. FramesInRing'
  <2>1. ASSUME NEW s \in FrameSlots, frames[s].first + frames[s].num <= nextSnapshotEntities,
               Intact(snapshotEntities, numSnapshotEntities, nextSnapshotEntities,
                      frames[s].first, frames[s].num, frames[s].ps)
        PROVE  Intact(snapshotEntities', numSnapshotEntities, nextSnapshotEntities',
                      frames[s].first, frames[s].num, frames[s].ps)
      BY <1>1, <2>1, NumbersTyped, RingsTyped, Sizes, PutKeeps
  <2>2. nextSnapshotEntities \in Nat /\ nextSnapshotEntities' \in Nat
        /\ nextSnapshotEntities <= nextSnapshotEntities'
        /\ \A s \in FrameSlots : frames[s].first \in Nat /\ frames[s].num \in Nat
      BY <1>1, NumbersTyped, RingsTyped, Sizes
  <2>3. \A s \in FrameSlots : frames[s].first + frames[s].num <= nextSnapshotEntities
                                  => frames[s].first + frames[s].num <= nextSnapshotEntities'
      BY <2>2
  <2> QED
      BY <1>2, <2>1, <2>3 DEF FramesInRing
<1> USE <1>2
<1>5. MessagesInOrder'
    BY DEF MessagesInOrder
<1>6. LevelsInOrder'
    BY DEF LevelsInOrder
<1>7. GamestateOnce'
    BY DEF GamestateOnce
<1>8. FramesKept'
    BY DEF FramesKept, FrameKept, FrameIn
<1>9. SnapshotsRight'
    BY DEF SnapshotsRight, SnapshotRight, Has
<1>10. AskedHeld'
    BY DEF AskedHeld, Holds, Has
<1>11. SnapshotsOnWay'
    BY DEF SnapshotsOnWay, OnWay, Has
<1> QED
    BY <1>3, <1>4, <1>5, <1>6, <1>7, <1>8, <1>9, <1>10, <1>11

LEMMA SpawnServerStep ==
  ASSUME DeltaInd, SV_SpawnServer
  PROVE  DeltaInd'
<1> USE DEF DeltaInd
<1>1. serverId' = serverId + 1 /\ state' = "CS_CONNECTED" /\ nextSnapshotEntities' = 0
      /\ snapshotEntities' = [s \in DOMAIN snapshotEntities |-> Other]
    BY DEF SV_SpawnServer
<1>2. UNCHANGED <<outgoingSequence, gamestateMessageNum, deltaMessage, frames,
                  clServerId, serverMessageSequence,
                  snap, snapshots, parseEntitiesNum, parseEntities, toClient, toServer>>
    BY DEF SV_SpawnServer, clientVars, snapVars
<1>3. TypeOK'
  <2>1. snapshotEntities' \in [0..(numSnapshotEntities - 1) -> Entities]
      BY <1>1, RingsTyped DEF Entities, Other
  <2> QED
      BY <1>1, <1>2, <2>1 DEF TypeOK
<1> USE <1>2
<1>4. MessagesInOrder'
    BY DEF MessagesInOrder
<1>5. LevelsInOrder'
    BY <1>1, Typed DEF LevelsInOrder
<1>6. GamestateOnce'
    BY <1>1, Typed DEF GamestateOnce, LevelsInOrder
<1>7. FramesInRing'
    BY <1>1 DEF FramesInRing
<1>8. FramesKept'
    BY DEF FramesKept, FrameKept, FrameIn
<1>9. SnapshotsRight'
    BY DEF SnapshotsRight, SnapshotRight, Has
<1>10. AskedHeld'
    BY <1>1, Typed DEF AskedHeld, Holds, Has, LevelsInOrder
<1>11. SnapshotsOnWay'
    BY DEF SnapshotsOnWay, OnWay, Has
<1> QED
    BY <1>3, <1>4, <1>5, <1>6, <1>7, <1>8, <1>9, <1>10, <1>11

LEMMA MoveStep ==
  ASSUME DeltaInd, toServer # <<>>, toServer' = Tail(toServer), UNCHANGED clientVars,
         NEW p, p = Head(toServer), IsCurrent(p), SV_UserMove(p)
  PROVE  DeltaInd'
<1> USE DEF DeltaInd
<1>1. /\ state # "CS_CONNECTED" /\ state' = "CS_ACTIVE" /\ p.id = serverId
      /\ deltaMessage' = IF state = "CS_ACTIVE" /\ p.delta THEN p.ack ELSE -1
    BY DEF SV_UserMove, IsCurrent
<1>2. UNCHANGED <<serverId, outgoingSequence, gamestateMessageNum, frames,
                  nextSnapshotEntities, snapshotEntities, clServerId, serverMessageSequence,
                  snap, snapshots, parseEntitiesNum, parseEntities, toClient>>
    BY DEF SV_UserMove, clientVars, snapVars
<1>3. 1 \in DOMAIN toServer /\ p = toServer[1]
    BY PacketsBehind
<1>4. TypeOK'
  <2>1. deltaMessage' \in Nat \cup {-1}
      BY <1>1, <1>3, Typed
  <2>2. toServer' \in Seq(Asking)
      BY PacketsBehind
  <2> QED
      BY <1>1, <1>2, <2>1, <2>2 DEF TypeOK, Asking
<1> USE <1>2
<1>5. MessagesInOrder'
  <2>1. deltaMessage' <= serverMessageSequence
      BY <1>1, <1>3, Typed DEF LevelsInOrder
  <2> QED
      BY <2>1 DEF MessagesInOrder
<1>6. LevelsInOrder'
    BY PacketsBehind DEF LevelsInOrder
<1>7. clServerId = serverId /\ \A i \in DOMAIN toServer : toServer[i].id = serverId
  <2>1. p.id <= clServerId /\ clServerId <= serverId
      BY <1>3 DEF LevelsInOrder
  <2>2. clServerId = serverId
      BY <1>1, <2>1, Typed
  <2>3. \A i \in DOMAIN toServer : i \in Nat \ {0} /\ toServer[i].id \in Nat
    <3>1. DOMAIN toServer = 1..Len(toServer)
        BY QueuesTyped, LenProperties
    <3> QED
        BY <3>1, Typed
  <2>4. \A i \in DOMAIN toServer : toServer[i].id <= serverId /\ (1 < i => serverId <= toServer[i].id)
      BY <1>1, <1>3, <2>2 DEF LevelsInOrder
  <2>5. \A i \in DOMAIN toServer : i = 1 \/ 1 < i
      BY <2>3
  <2> QED
      BY <1>1, <1>3, <2>2, <2>3, <2>4, <2>5, Typed
<1>8. GamestateOnce'
  <2>1. \A i \in DOMAIN toServer' : toServer'[i].id = serverId
      BY <1>7, PacketsBehind
  <2>2. deltaMessage' > 0 => deltaMessage' > gamestateMessageNum
      BY <1>1, <1>3, <1>7 DEF GamestateOnce
  <2> QED
      BY <1>1, <1>7, <2>1, <2>2, PacketsBehind DEF GamestateOnce
<1>9. FramesInRing'
    BY <1>1 DEF FramesInRing
<1>10. FramesKept'
    BY <1>1, <1>3, PacketsBehind DEF FramesKept, FrameKept, FrameIn
<1>11. SnapshotsRight'
    BY DEF SnapshotsRight, SnapshotRight, Has
<1>12. AskedHeld'
    BY <1>1, <1>3, PacketsBehind DEF AskedHeld, Holds, Has
<1>13. SnapshotsOnWay'
    BY DEF SnapshotsOnWay, OnWay, Has
<1> QED
    BY <1>4, <1>5, <1>6, <1>8, <1>9, <1>10, <1>11, <1>12, <1>13

LEMMA ResendStep ==
  ASSUME DeltaInd, toServer # <<>>, toServer' = Tail(toServer), UNCHANGED clientVars,
         NEW p, p = Head(toServer), ~IsCurrent(p), p.ack > gamestateMessageNum, SV_SendClientGameState
  PROVE  DeltaInd'
<1> USE DEF DeltaInd
<1> DEFINE m == [num |-> outgoingSequence, id |-> serverId, delta |-> 0, entities |-> 0,
                 base |-> Contents(<<>>, 1, NoFrame)]
<1>1. /\ state' = "CS_PRIMED" /\ gamestateMessageNum' = outgoingSequence
      /\ toClient' = Append(toClient, m) /\ outgoingSequence' = outgoingSequence + 1
      /\ p.id # serverId
    BY DEF SV_SendClientGameState, IsCurrent
<1>2. UNCHANGED <<serverId, deltaMessage, frames,
                  nextSnapshotEntities, snapshotEntities, clServerId, serverMessageSequence,
                  snap, snapshots, parseEntitiesNum, parseEntities>>
    BY DEF SV_SendClientGameState, clientVars, snapVars
<1>3. 1 \in DOMAIN toServer /\ p = toServer[1]
    BY PacketsBehind
<1>4. m \in Message /\ m.num = outgoingSequence /\ m.id = serverId /\ serverId > 0
  <2>1. Contents(<<>>, 1, NoFrame) = Whole(Other, 0)
      BY ContentsOfNothing DEF NoFrame
  <2>2. \A i : i \notin 1..0
      OBVIOUS
  <2>3. Whole(Other, 0) \in Bases
      BY <2>2 DEF Whole, Bases, Entities, Other
  <2> QED
      BY <2>1, <2>3, Typed DEF Message, LevelsInOrder
<1> HIDE DEF m
<1>5. /\ toClient' \in Seq(Message)
      /\ \A i \in DOMAIN toClient' :
            i \in Nat /\ ((i \in DOMAIN toClient /\ toClient'[i] = toClient[i]) \/ toClient'[i] = m)
      /\ \A i, j \in DOMAIN toClient' : i < j => i \in DOMAIN toClient /\ toClient'[i] = toClient[i]
    BY <1>1, <1>4, QueuesTyped, AppendOf
<1>6. TypeOK'
  <2>1. toServer' \in Seq(Asking)
      BY PacketsBehind
  <2>2. outgoingSequence' \in Nat /\ gamestateMessageNum' \in Nat \cup {-1}
      BY <1>1, Typed
  <2> QED
      BY <1>1, <1>2, <1>5, <2>1, <2>2 DEF TypeOK, Asking, Message
<1> USE <1>2
<1>7. MessagesInOrder'
  <2>1. outgoingSequence \in Nat /\ serverMessageSequence < outgoingSequence
        /\ \A i \in DOMAIN toClient : toClient[i].num \in Nat
      BY Typed DEF MessagesInOrder
  <2>2. \A i \in DOMAIN toClient' : serverMessageSequence < toClient'[i].num /\ toClient'[i].num < outgoingSequence + 1
      BY <1>4, <1>5, <2>1 DEF MessagesInOrder
  <2>3. \A i, j \in DOMAIN toClient' : i < j => toClient'[i].num < toClient'[j].num
    <3> SUFFICES ASSUME NEW i \in DOMAIN toClient', NEW j \in DOMAIN toClient', i < j
                 PROVE  toClient'[i].num < toClient'[j].num
        OBVIOUS
    <3>1. i \in DOMAIN toClient /\ toClient'[i] = toClient[i]
        BY <1>5
    <3>2. CASE j \in DOMAIN toClient /\ toClient'[j] = toClient[j]
        BY <3>1, <3>2 DEF MessagesInOrder
    <3>3. CASE toClient'[j] = m
        BY <3>1, <3>3, <1>4 DEF MessagesInOrder
    <3> QED
        BY <1>5, <3>2, <3>3
  <2>4. /\ snap <= serverMessageSequence /\ serverMessageSequence < outgoingSequence + 1
        /\ outgoingSequence < outgoingSequence + 1 /\ deltaMessage <= serverMessageSequence
      BY <2>1, NumbersTyped DEF MessagesInOrder
  <2> QED
      BY <1>1, <2>2, <2>3, <2>4 DEF MessagesInOrder
<1>8. LevelsInOrder'
  <2>1. \A i \in DOMAIN toClient' :
           toClient'[i].id # 0 => clServerId <= toClient'[i].id /\ toClient'[i].id <= serverId
      BY <1>4, <1>5, Typed DEF LevelsInOrder
  <2>2. \A i, j \in DOMAIN toClient' :
           i < j /\ toClient'[i].id # 0 /\ toClient'[j].id # 0 => toClient'[i].id <= toClient'[j].id
    <3> SUFFICES ASSUME NEW i \in DOMAIN toClient', NEW j \in DOMAIN toClient', i < j,
                        toClient'[i].id # 0, toClient'[j].id # 0
                 PROVE  toClient'[i].id <= toClient'[j].id
        OBVIOUS
    <3>1. i \in DOMAIN toClient /\ toClient'[i] = toClient[i]
        BY <1>5
    <3>2. CASE j \in DOMAIN toClient /\ toClient'[j] = toClient[j]
        BY <3>1, <3>2 DEF LevelsInOrder
    <3>3. CASE toClient'[j] = m
        BY <3>1, <3>3, <1>4 DEF LevelsInOrder
    <3> QED
        BY <1>5, <3>2, <3>3
  <2> QED
      BY <2>1, <2>2, PacketsBehind DEF LevelsInOrder
<1>9. state # "CS_ACTIVE" /\ clServerId # serverId
    BY <1>1, <1>3, Typed DEF GamestateOnce
<1>10. \A i \in DOMAIN toClient : toClient[i].id # serverId
  <2>1. p.ack <= serverMessageSequence
      BY <1>3 DEF LevelsInOrder
  <2>2. \A i \in DOMAIN toClient : serverMessageSequence < toClient[i].num
      BY DEF MessagesInOrder
  <2>3. \A i \in DOMAIN toClient : toClient[i].num # gamestateMessageNum
      BY <1>3, <2>1, <2>2, Typed
  <2> QED
      BY <2>3 DEF GamestateOnce
<1>11. GamestateOnce'
    BY <1>1, <1>4, <1>5, <1>9, <1>10, Typed DEF GamestateOnce
<1>12. FramesInRing'
  <2>1. \A s \in FrameSlots : frames[s].ps < outgoingSequence
      BY DEF FramesInRing
  <2> QED
      BY <1>1, <2>1, Typed DEF FramesInRing
<1>13. FramesKept'
  <2>1. \A b \in Nat : FrameKept(b) => FrameIn(frames', outgoingSequence', b)
    <3> SUFFICES ASSUME NEW b \in Nat, b > 0, outgoingSequence - b <= PACKET_BACKUP => frames[Slot(b)].ps = b,
                        outgoingSequence + 1 - b <= PACKET_BACKUP
                 PROVE  frames[Slot(b)].ps = b
        BY <1>1, NumbersTyped DEF FrameKept, FrameIn
    <3> QED
        BY NumbersTyped, Sizes
  <2>2. \A i \in DOMAIN toClient' : toClient'[i].id = 0 => toClient'[i].num \in Nat /\ FrameKept(toClient'[i].num)
      BY <1>4, <1>5, Typed DEF FramesKept
  <2>3. \A i \in DOMAIN toServer' : toServer'[i].delta => toServer'[i].ack \in Nat /\ FrameKept(toServer'[i].ack)
      BY PacketsBehind, Typed DEF FramesKept
  <2>4. deltaMessage > 0 => deltaMessage \in Nat /\ FrameKept(deltaMessage)
      BY NumbersTyped DEF FramesKept
  <2>5. snap > 0 => snap \in Nat /\ FrameKept(snap)
      BY NumbersTyped DEF FramesKept
  <2> QED
      BY <2>1, <2>2, <2>3, <2>4, <2>5 DEF FramesKept, FrameKept, FrameIn
<1>14. SnapshotsRight'
    BY DEF SnapshotsRight, SnapshotRight, Has
<1>15. AskedHeld'
    BY <1>1, PacketsBehind DEF AskedHeld, Holds, Has
<1>16. SnapshotsOnWay'
  <2> SUFFICES ASSUME NEW i \in DOMAIN toClient', toClient'[i].id = 0
               PROVE  OnWay(i)'
      BY DEF SnapshotsOnWay
  <2>1. i \in DOMAIN toClient /\ toClient'[i] = toClient[i]
      BY <1>4, <1>5
  <2>2. OnWay(i)
      BY <2>1 DEF SnapshotsOnWay
  <2>3. \A j \in DOMAIN toClient' : j < i => j \in DOMAIN toClient /\ toClient'[j] = toClient[j]
      BY <1>5
  <2> QED
      BY <2>1, <2>2, <2>3 DEF OnWay, Has
<1> QED
    BY <1>6, <1>7, <1>8, <1>11, <1>12, <1>13, <1>14, <1>15, <1>16

(* The number of a new message is in the slot of none that can be asked for. *)
LEMMA FrameStays ==
  ASSUME TypeOK, NEW b \in Int, b < outgoingSequence, FrameKept(b),
         outgoingSequence' = outgoingSequence + 1,
         NEW f, frames' = [frames EXCEPT ![Slot(outgoingSequence)] = f]
  PROVE  FrameIn(frames', outgoingSequence', b)
<1> SUFFICES ASSUME outgoingSequence + 1 - b <= PACKET_BACKUP
             PROVE  frames'[Slot(b)].ps = b
    BY NumbersTyped DEF FrameKept, FrameIn
<1>1. outgoingSequence - b <= PACKET_BACKUP /\ outgoingSequence - b < PACKET_BACKUP
    BY NumbersTyped, Sizes
<1>2. Slot(b) # Slot(outgoingSequence) /\ Slot(b) \in FrameSlots
    BY <1>1, NumbersTyped, Slots
<1> QED
    BY <1>1, <1>2, RingsTyped DEF FrameKept, FrameIn

(* The frame to encode from is what was sent, and the client has it. *)
LEMMA BaseRight ==
  ASSUME DeltaInd, deltaMessage > 0, state = "CS_ACTIVE", ~FrameTooOld(deltaMessage)
  PROVE  /\ frames[Slot(deltaMessage)].ps = deltaMessage /\ deltaMessage > gamestateMessageNum
         /\ outgoingSequence - deltaMessage < PACKET_BACKUP - 3
         /\ deltaMessage < outgoingSequence /\ Slot(deltaMessage) # Slot(outgoingSequence)
         /\ Slot(deltaMessage) \in FrameSlots
         /\ deltaMessage <= snap /\ Has(deltaMessage)
         /\ snapshots[Slot(deltaMessage)].num = frames[Slot(deltaMessage)].num
<1> USE DEF DeltaInd
<1>1. outgoingSequence - deltaMessage < PACKET_BACKUP - 3
    BY NumbersTyped, Sizes DEF FrameTooOld
<1>2. deltaMessage < outgoingSequence /\ serverMessageSequence < outgoingSequence
    BY NumbersTyped DEF MessagesInOrder
<1>3. frames[Slot(deltaMessage)].ps = deltaMessage
    BY <1>1, NumbersTyped, Sizes DEF FramesKept, FrameKept, FrameIn
<1>4. Slot(deltaMessage) # Slot(outgoingSequence) /\ Slot(deltaMessage) \in FrameSlots
    BY <1>1, <1>2, NumbersTyped, Sizes, Slots
<1>5. deltaMessage <= snap /\ Has(deltaMessage)
    BY <1>1, <1>2, NumbersTyped, Sizes DEF AskedHeld, Holds
<1>6. snapshots[Slot(deltaMessage)].num = frames[Slot(deltaMessage)].num
    BY <1>3, <1>4, <1>5 DEF SnapshotsRight, SnapshotRight, Has
<1> QED
    BY <1>1, <1>2, <1>3, <1>4, <1>5, <1>6 DEF GamestateOnce

(* No gamestate is on its way to a client that is in the game. *)
LEMMA NoGamestateOnWay ==
  ASSUME DeltaInd, state = "CS_ACTIVE", NEW i \in DOMAIN toClient
  PROVE  toClient[i].id = 0
<1> USE DEF DeltaInd
<1> SUFFICES ASSUME toClient[i].id # 0
             PROVE  FALSE
    OBVIOUS
<1>1. clServerId = serverId /\ gamestateMessageNum <= serverMessageSequence
    BY DEF GamestateOnce
<1>2. toClient[i].id = serverId
    BY <1>1, Typed DEF LevelsInOrder
<1>3. toClient[i].num = gamestateMessageNum /\ serverMessageSequence < toClient[i].num
    BY <1>2 DEF GamestateOnce, MessagesInOrder
<1> QED
    BY <1>1, <1>3, Typed

LEMMA SendSnapshotStep ==
  ASSUME DeltaInd, SV_SendClientSnapshot
  PROVE  DeltaInd'
<1> USE DEF DeltaInd
<1>1. PICK n \in VisibleCounts :
         LET o == outgoingSequence
             next == nextSnapshotEntities + n
             ring == Put(snapshotEntities, numSnapshotEntities, nextSnapshotEntities, n, o)
             base == frames'[Slot(deltaMessage)]
             full == \/ deltaMessage <= 0 \/ state # "CS_ACTIVE"
                     \/ FrameTooOld(deltaMessage)
                     \/ RolledOff(base, next)
             delta == IF full THEN 0 ELSE o - deltaMessage
         IN  /\ frames' = [frames EXCEPT ![Slot(o)] = [first |-> nextSnapshotEntities, num |-> n, ps |-> o]]
             /\ nextSnapshotEntities' = next
             /\ snapshotEntities' = ring
             /\ toClient' = Append(toClient,
                   [num |-> o, id |-> 0, delta |-> delta, entities |-> n,
                    base |-> Contents(ring, numSnapshotEntities, IF full THEN NoFrame ELSE base)])
             /\ outgoingSequence' = o + 1
    BY DEF SV_SendClientSnapshot
<1> DEFINE o == outgoingSequence
           f == [first |-> nextSnapshotEntities, num |-> n, ps |-> o]
           base == frames'[Slot(deltaMessage)]
           full == \/ deltaMessage <= 0 \/ state # "CS_ACTIVE"
                   \/ FrameTooOld(deltaMessage)
                   \/ RolledOff(base, nextSnapshotEntities')
           m == [num |-> o, id |-> 0, delta |-> IF full THEN 0 ELSE o - deltaMessage, entities |-> n,
                 base |-> Contents(snapshotEntities', numSnapshotEntities, IF full THEN NoFrame ELSE base)]
<1>2. UNCHANGED <<state, serverId, gamestateMessageNum, deltaMessage, clServerId, serverMessageSequence,
                  snap, snapshots, parseEntitiesNum, parseEntities, toServer>>
    BY DEF SV_SendClientSnapshot, clientVars, snapVars
<1>3. /\ frames' = [frames EXCEPT ![Slot(o)] = f]
      /\ nextSnapshotEntities' = nextSnapshotEntities + n
      /\ snapshotEntities' = Put(snapshotEntities, numSnapshotEntities, nextSnapshotEntities, n, o)
      /\ toClient' = Append(toClient, m) /\ outgoingSequence' = o + 1
    BY <1>1
<1>4. n \in Nat /\ n <= MAX_SNAPSHOT_ENTITIES /\ o \in Nat /\ o > 0
    BY Sizes, NumbersTyped DEF MessagesInOrder
<1>5. f.first = nextSnapshotEntities /\ f.num = n /\ f.ps = o /\ f \in Frames
    BY <1>4, NumbersTyped DEF Frames, Entities
<1> HIDE DEF f, m
<1>6. Slot(o) \in FrameSlots /\ frames'[Slot(o)] = f
      /\ \A s \in FrameSlots : s # Slot(o) => frames'[s] = frames[s]
    BY <1>3, <1>4, Slots, RingsTyped
<1>7. snapshotEntities' \in [0..(numSnapshotEntities - 1) -> Entities]
    BY <1>3, <1>4, RingsTyped DEF Put, TypeOK, Entities
<1>8. FramesInRing'
  <2> SUFFICES ASSUME NEW s \in FrameSlots
               PROVE  /\ frames'[s].ps \in Nat /\ frames'[s].ps < o + 1 /\ frames'[s].num <= MAX_SNAPSHOT_ENTITIES
                      /\ frames'[s].ps > 0 => Slot(frames'[s].ps) = s
                      /\ (state # "CS_CONNECTED" /\ frames'[s].ps > gamestateMessageNum) =>
                            /\ frames'[s].first + frames'[s].num <= nextSnapshotEntities'
                            /\ Intact(snapshotEntities', numSnapshotEntities, nextSnapshotEntities',
                                      frames'[s].first, frames'[s].num, frames'[s].ps)
      BY <1>2, <1>3 DEF FramesInRing
  <2>1. CASE s = Slot(o)
    <3>1. Intact(snapshotEntities', numSnapshotEntities, nextSnapshotEntities', nextSnapshotEntities, n, o)
        BY <1>3, <1>4, PutThere, RingsTyped, NumbersTyped, Sizes
    <3> QED
        BY <1>3, <1>4, <1>5, <1>6, <2>1, <3>1, NumbersTyped
  <2>2. CASE s # Slot(o)
    <3>1. frames'[s] = frames[s]
        BY <1>6, <2>2
    <3>2. frames[s].ps \in Nat /\ frames[s].ps < o /\ frames[s].num <= MAX_SNAPSHOT_ENTITIES
          /\ (frames[s].ps > 0 => Slot(frames[s].ps) = s)
        BY DEF FramesInRing
    <3>3. ASSUME state # "CS_CONNECTED", frames[s].ps > gamestateMessageNum
          PROVE  /\ frames[s].first + frames[s].num <= nextSnapshotEntities'
                 /\ Intact(snapshotEntities', numSnapshotEntities, nextSnapshotEntities',
                           frames[s].first, frames[s].num, frames[s].ps)
      <4>1. /\ frames[s].first + frames[s].num <= nextSnapshotEntities
            /\ Intact(snapshotEntities, numSnapshotEntities, nextSnapshotEntities,
                      frames[s].first, frames[s].num, frames[s].ps)
          BY <3>3 DEF FramesInRing
      <4>2. frames[s].first + frames[s].num <= nextSnapshotEntities'
          BY <1>3, <1>4, <4>1, NumbersTyped, RingsTyped
      <4>3. Intact(snapshotEntities', numSnapshotEntities, nextSnapshotEntities',
                   frames[s].first, frames[s].num, frames[s].ps)
          BY <1>3, <1>4, <4>1, PutKeeps, NumbersTyped, RingsTyped, Sizes
      <4> QED
          BY <4>2, <4>3
    <3> QED
        BY <1>4, <3>1, <3>2, <3>3
  <2> QED
      BY <2>1, <2>2
<1>9. ASSUME ~full
       PROVE  /\ base = frames[Slot(deltaMessage)] /\ deltaMessage > 0 /\ deltaMessage \in Nat
              /\ deltaMessage < o /\ o - deltaMessage < PACKET_BACKUP - 3
              /\ deltaMessage <= snap /\ Has(deltaMessage) /\ state = "CS_ACTIVE"
              /\ Contents(snapshotEntities', numSnapshotEntities, base)
                    = Whole(deltaMessage, snapshots[Slot(deltaMessage)].num)
  <2>1. deltaMessage > 0 /\ state = "CS_ACTIVE" /\ ~FrameTooOld(deltaMessage)
        /\ ~RolledOff(base, nextSnapshotEntities') /\ deltaMessage \in Nat
      BY <1>9, NumbersTyped
  <2>2. /\ frames[Slot(deltaMessage)].ps = deltaMessage /\ deltaMessage > gamestateMessageNum
        /\ o - deltaMessage < PACKET_BACKUP - 3
        /\ deltaMessage < o /\ Slot(deltaMessage) # Slot(o)
        /\ Slot(deltaMessage) \in FrameSlots
        /\ deltaMessage <= snap /\ Has(deltaMessage)
        /\ snapshots[Slot(deltaMessage)].num = frames[Slot(deltaMessage)].num
      BY <2>1, BaseRight
  <2>3. base = frames[Slot(deltaMessage)]
      BY <1>6, <2>2
  <2>4. base.first \in Nat /\ base.num \in Nat /\ base.ps = deltaMessage
      BY <2>2, <2>3, RingsTyped
  <2> HIDE DEF base, full
  <2>5. Intact(snapshotEntities', numSnapshotEntities, nextSnapshotEntities', base.first, base.num, base.ps)
      BY <1>2, <1>8, <2>1, <2>2, <2>3 DEF FramesInRing, base
  <2>6. nextSnapshotEntities' \in Nat /\ base.first > nextSnapshotEntities' - numSnapshotEntities
    <3>1. nextSnapshotEntities' \in Nat
        BY <1>3, <1>4, NumbersTyped
    <3> QED
        BY <2>1, <2>4, <3>1, Sizes DEF RolledOff
  <2>7. Contents(snapshotEntities', numSnapshotEntities, base) = Whole(base.ps, base.num)
      BY <2>4, <2>5, <2>6, ContentsWhole, Sizes
  <2> QED
      BY <2>1, <2>2, <2>3, <2>4, <2>7
<1>10. /\ m.num = o /\ m.id = 0 /\ m.entities = n /\ m.delta \in Nat
       /\ m.delta = 0 => m.base = Whole(Other, 0)
       /\ m.delta # 0 => /\ m.num - m.delta = deltaMessage /\ deltaMessage > 0 /\ m.delta < PACKET_BACKUP - 3
                         /\ deltaMessage <= snap /\ Has(deltaMessage) /\ state = "CS_ACTIVE"
                         /\ m.base = Whole(deltaMessage, snapshots[Slot(deltaMessage)].num)
  <2>1. CASE full
    <3>1. m.delta = 0 /\ m.base = Contents(snapshotEntities', numSnapshotEntities, NoFrame) /\ m.id = 0
          /\ m.num = o /\ m.entities = n
        BY <2>1 DEF m
    <3>2. m.base = Whole(Other, 0)
        BY <3>1, ContentsOfNothing DEF NoFrame
    <3> QED
        BY <3>1, <3>2
  <2>2. CASE ~full
    <3>1. m.delta = o - deltaMessage /\ m.base = Contents(snapshotEntities', numSnapshotEntities, base) /\ m.id = 0
          /\ m.num = o /\ m.entities = n
        BY <2>2 DEF m
    <3>2. /\ deltaMessage > 0 /\ deltaMessage \in Nat
          /\ deltaMessage < o /\ o - deltaMessage < PACKET_BACKUP - 3
          /\ deltaMessage <= snap /\ Has(deltaMessage) /\ state = "CS_ACTIVE"
          /\ m.base = Whole(deltaMessage, snapshots[Slot(deltaMessage)].num)
        BY <1>9, <2>2, <3>1
    <3>3. m.delta # 0 /\ m.delta \in Nat /\ m.num - m.delta = deltaMessage
        BY <1>4, <3>1, <3>2
    <3> QED
        BY <3>1, <3>2, <3>3
  <2> QED
      BY <2>1, <2>2
<1> HIDE DEF full, base, o
<1>11. m \in Message
  <2>1. \A b \in Nat, k \in Nat : Whole(b, k) \in Bases
    <3> SUFFICES ASSUME NEW b \in Nat, NEW k \in Nat
                 PROVE  Whole(b, k) \in Bases
        OBVIOUS
    <3>1. b \in Entities
        BY DEF Entities
    <3> DEFINE e == [i \in 1..k |-> b]
    <3>2. e \in Seq(Entities)
        BY <3>1
    <3> HIDE DEF e
    <3>3. [ps |-> b, entities |-> e] \in Bases
        BY <3>1, <3>2 DEF Bases
    <3> QED
        BY <3>3 DEF Whole, e
  <2>2. m.base \in Bases
    <3>1. CASE m.delta = 0
        BY <1>10, <2>1, <3>1 DEF Other
    <3>2. CASE m.delta # 0
      <4>1. snapshots[Slot(deltaMessage)].num \in Nat /\ deltaMessage \in Nat
          BY <1>10, <3>2, NumbersTyped, RingsTyped, Slots
      <4> QED
          BY <1>10, <2>1, <3>2, <4>1
    <3> QED
        BY <3>1, <3>2
  <2>3. DOMAIN m = {"num", "id", "delta", "entities", "base"}
        /\ m = [num |-> m.num, id |-> m.id, delta |-> m.delta, entities |-> m.entities, base |-> m.base]
      BY DEF m
  <2>4. m.num \in Nat /\ m.id \in Nat /\ m.delta \in Nat /\ m.entities \in Nat
      BY <1>4, <1>10
  <2> QED
      BY <2>2, <2>3, <2>4 DEF Message
<1>12. /\ toClient' \in Seq(Message)
       /\ \A i \in DOMAIN toClient' :
             i \in Nat /\ ((i \in DOMAIN toClient /\ toClient'[i] = toClient[i]) \/ toClient'[i] = m)
       /\ \A i, j \in DOMAIN toClient' : i < j => i \in DOMAIN toClient /\ toClient'[i] = toClient[i]
    BY <1>3, <1>11, QueuesTyped, AppendOf
<1>13. TypeOK'
  <2>1. outgoingSequence' \in Nat /\ nextSnapshotEntities' \in Nat
      BY <1>3, <1>4, NumbersTyped
  <2>2. frames' \in [FrameSlots -> Frames]
      BY <1>3, <1>5 DEF TypeOK
  <2> QED
      BY <1>2, <1>7, <1>12, <2>1, <2>2 DEF TypeOK, Message
<1> USE <1>2
<1>14. MessagesInOrder'
  <2>1. o \in Nat /\ serverMessageSequence < o /\ o = outgoingSequence
        /\ \A i \in DOMAIN toClient : toClient[i].num \in Nat
      BY Typed DEF MessagesInOrder, o
  <2>2. \A i \in DOMAIN toClient' : serverMessageSequence < toClient'[i].num /\ toClient'[i].num < o + 1
      BY <1>10, <1>12, <2>1 DEF MessagesInOrder
  <2>3. \A i, j \in DOMAIN toClient' : i < j => toClient'[i].num < toClient'[j].num
    <3> SUFFICES ASSUME NEW i \in DOMAIN toClient', NEW j \in DOMAIN toClient', i < j
                 PROVE  toClient'[i].num < toClient'[j].num
        OBVIOUS
    <3>1. i \in DOMAIN toClient /\ toClient'[i] = toClient[i]
        BY <1>12
    <3>2. CASE j \in DOMAIN toClient /\ toClient'[j] = toClient[j]
        BY <3>1, <3>2 DEF MessagesInOrder
    <3>3. CASE toClient'[j] = m
        BY <2>1, <3>1, <3>3, <1>10 DEF MessagesInOrder
    <3> QED
        BY <1>12, <3>2, <3>3
  <2>4. /\ snap <= serverMessageSequence /\ serverMessageSequence < o + 1
        /\ gamestateMessageNum < o + 1 /\ deltaMessage <= serverMessageSequence
      BY <2>1, NumbersTyped DEF MessagesInOrder
  <2> QED
      BY <1>3, <2>2, <2>3, <2>4 DEF MessagesInOrder
<1>15. LevelsInOrder'
  <2>1. \A i \in DOMAIN toClient' : toClient'[i].id # 0 => i \in DOMAIN toClient /\ toClient'[i] = toClient[i]
      BY <1>10, <1>12
  <2> QED
      BY <2>1 DEF LevelsInOrder
<1>16. GamestateOnce'
  <2>1. serverId > 0
      BY DEF LevelsInOrder
  <2>2. \A i \in DOMAIN toClient' : toClient'[i].id = serverId => i \in DOMAIN toClient /\ toClient'[i] = toClient[i]
      BY <1>10, <1>12, <2>1, NumbersTyped
  <2> QED
      BY <2>2 DEF GamestateOnce
<1>17. FramesKept'
  <2>1. outgoingSequence' = outgoingSequence + 1 /\ frames' = [frames EXCEPT ![Slot(outgoingSequence)] = f]
      BY <1>3 DEF o
  <2>2. \A b \in Int : b < outgoingSequence /\ FrameKept(b) => FrameIn(frames', outgoingSequence', b)
      BY <2>1, FrameStays
  <2>3. FrameIn(frames', outgoingSequence', m.num)
      BY <1>4, <1>5, <1>6, <1>10 DEF FrameIn
  <2>4. ASSUME NEW i \in DOMAIN toClient', toClient'[i].id = 0
        PROVE  FrameIn(frames', outgoingSequence', toClient'[i].num)
    <3>1. CASE toClient'[i] = m
        BY <2>3, <3>1
    <3>2. CASE i \in DOMAIN toClient /\ toClient'[i] = toClient[i]
      <4>1. toClient[i].num \in Int /\ toClient[i].num < outgoingSequence /\ FrameKept(toClient[i].num)
          BY <2>4, <3>2, Typed DEF FramesKept, MessagesInOrder
      <4>2. FrameIn(frames', outgoingSequence', toClient[i].num)
          BY <2>2, <3>2, <4>1
      <4> QED
          BY <3>2, <4>2
    <3> QED
        BY <1>12, <3>1, <3>2
  <2>5. \A i \in DOMAIN toServer : toServer[i].delta => toServer[i].ack \in Int
                                   /\ toServer[i].ack < outgoingSequence /\ FrameKept(toServer[i].ack)
      BY Typed DEF FramesKept, LevelsInOrder, MessagesInOrder
  <2>6. deltaMessage > 0 => deltaMessage \in Int /\ deltaMessage < outgoingSequence /\ FrameKept(deltaMessage)
      BY NumbersTyped DEF FramesKept, MessagesInOrder
  <2>7. snap > 0 => snap \in Int /\ snap < outgoingSequence /\ FrameKept(snap)
      BY NumbersTyped DEF FramesKept, MessagesInOrder
  <2> QED
      BY <2>2, <2>4, <2>5, <2>6, <2>7 DEF FramesKept, FrameKept
<1>18. \A b \in Nat : b > 0 /\ b < o /\ frames'[Slot(b)].ps = b => frames'[Slot(b)] = frames[Slot(b)]
  <2> SUFFICES ASSUME NEW b \in Nat, b > 0, b < o, frames'[Slot(b)].ps = b
               PROVE  frames'[Slot(b)] = frames[Slot(b)]
      OBVIOUS
  <2>1. Slot(b) # Slot(o)
      BY <1>4, <1>5, <1>6
  <2> QED
      BY <1>6, <2>1, Slots
<1>19. SnapshotsRight'
  <2>1. ASSUME NEW s \in FrameSlots, snapshots[s].valid
        PROVE  SnapshotRight(s)'
    <3>1. SnapshotRight(s)
        BY <2>1 DEF SnapshotsRight
    <3>2. snapshots[s].messageNum \in Nat /\ snapshots[s].messageNum > 0 /\ snapshots[s].messageNum < o
          /\ Slot(snapshots[s].messageNum) = s
        BY <3>1, RingsTyped, NumbersTyped DEF SnapshotRight, MessagesInOrder, o
    <3>3. frames'[s].ps = snapshots[s].messageNum => frames'[s].num = snapshots[s].num
        BY <1>18, <3>1, <3>2 DEF SnapshotRight
    <3> QED
        BY <3>1, <3>3 DEF SnapshotRight
  <2> QED
      BY <2>1 DEF SnapshotsRight, Has
<1>20. AskedHeld'
    BY DEF AskedHeld, Holds, Has
<1>21. SnapshotsOnWay'
  <2> SUFFICES ASSUME NEW i \in DOMAIN toClient', toClient'[i].id = 0
               PROVE  OnWay(i)'
      BY DEF SnapshotsOnWay
  <2>1. CASE i \in DOMAIN toClient /\ toClient'[i] = toClient[i]
    <3>1. OnWay(i)
        BY <2>1 DEF SnapshotsOnWay
    <3>2. \A j \in DOMAIN toClient' : j < i => j \in DOMAIN toClient /\ toClient'[j] = toClient[j]
        BY <1>12
    <3>3. toClient[i].num \in Nat /\ toClient[i].num > 0 /\ toClient[i].num < o
        BY <2>1, Typed DEF MessagesInOrder, o
    <3>4. frames'[Slot(toClient[i].num)].ps = toClient[i].num
             => frames'[Slot(toClient[i].num)].num = toClient[i].entities
        BY <1>18, <3>1, <3>3 DEF OnWay
    <3> QED
        BY <2>1, <3>1, <3>2, <3>4 DEF OnWay, Has
  <2>2. CASE toClient'[i] = m
    <3>1. frames'[Slot(m.num)].ps = m.num => frames'[Slot(m.num)].num = m.entities
        BY <1>5, <1>6, <1>10
    <3>2. m.delta # 0 => \A j \in DOMAIN toClient' : j < i => toClient'[j].id = 0
        BY <1>10, <1>12, NoGamestateOnWay
    <3> QED
        BY <1>4, <1>10, <2>2, <3>1, <3>2 DEF OnWay, Has
  <2> QED
      BY <1>12, <2>1, <2>2
<1> QED
    BY <1>8, <1>13, <1>14, <1>15, <1>16, <1>17, <1>19, <1>20, <1>21

LEMMA ExecuteStep ==
  ASSUME DeltaInd, SV_ExecuteClientMessage
  PROVE  DeltaInd'
<1>1. toServer # <<>> /\ toServer' = Tail(toServer) /\ UNCHANGED clientVars
    BY DEF SV_ExecuteClientMessage
<1> DEFINE p == Head(toServer)
<1>2. \/ ~IsCurrent(p) /\ p.ack > gamestateMessageNum /\ SV_SendClientGameState
      \/ ~IsCurrent(p) /\ p.ack <= gamestateMessageNum /\ UNCHANGED <<serverVars, toClient>>
      \/ IsCurrent(p) /\ SV_UserMove(p)
    BY DEF SV_ExecuteClientMessage
<1>3. CASE ~IsCurrent(p) /\ p.ack > gamestateMessageNum /\ SV_SendClientGameState
    BY <1>1, <1>3, ResendStep
<1>4. CASE UNCHANGED <<serverVars, toClient>>
    BY <1>1, <1>4, LosePacket
<1>5. CASE IsCurrent(p) /\ SV_UserMove(p)
    BY <1>1, <1>5, MoveStep
<1> QED
    BY <1>2, <1>3, <1>4, <1>5

(* The gamestate that the client receives is newer than all it has. *)
LEMMA ParseGamestateStep ==
  ASSUME DeltaInd, toClient # <<>>, toClient' = Tail(toClient), UNCHANGED <<serverVars, toServer>>,
         NEW m, m = Head(toClient), m.id # 0, serverMessageSequence' = m.num, CL_ParseGamestate(m)
  PROVE  DeltaInd'
<1> USE DEF DeltaInd
<1>1. /\ clServerId' = m.id /\ snap' = 0 /\ parseEntitiesNum' = 0
      /\ snapshots' = [s \in FrameSlots |-> NoSnapshot]
      /\ parseEntities' = [s \in DOMAIN parseEntities |-> Other]
    BY DEF CL_ParseGamestate
<1>2. UNCHANGED <<state, serverId, outgoingSequence, gamestateMessageNum, deltaMessage, frames,
                  nextSnapshotEntities, snapshotEntities, toServer>>
    BY DEF serverVars
<1>3. /\ 1 \in DOMAIN toClient /\ m = toClient[1]
      /\ m.num \in Nat /\ m.id \in Nat /\ serverMessageSequence < m.num /\ m.num < outgoingSequence
      /\ clServerId <= m.id /\ m.id <= serverId
    BY MessagesBehind, Typed DEF MessagesInOrder, LevelsInOrder
<1>4. \A i \in DOMAIN toClient' :
         i \in Nat /\ i + 1 \in DOMAIN toClient /\ toClient'[i] = toClient[i + 1] /\ 1 < i + 1
    BY MessagesBehind
<1>5. \A s \in FrameSlots : snapshots'[s].valid = FALSE
    BY <1>1 DEF NoSnapshot
<1>6. TypeOK'
  <2>1. NoSnapshot \in Snapshot
      BY DEF NoSnapshot, Snapshot, Entities, Other
  <2>2. snapshots' \in [FrameSlots -> Snapshot]
      BY <1>1, <2>1
  <2>3. parseEntities' \in [0..(MAX_PARSE_ENTITIES - 1) -> Entities]
      BY <1>1, RingsTyped DEF Entities, Other
  <2>4. toClient' \in Seq(Message)
      BY MessagesBehind
  <2> QED
      BY <1>1, <1>2, <1>3, <2>2, <2>3, <2>4 DEF TypeOK, Message, Snapshot
<1> USE <1>2
<1>7. m.id = serverId /\ state # "CS_CONNECTED" => m.num = gamestateMessageNum
    BY <1>3 DEF GamestateOnce
<1>8. clServerId < serverId
  <2> SUFFICES ASSUME clServerId = serverId
               PROVE  FALSE
      BY NumbersTyped DEF LevelsInOrder
  <2>1. state # "CS_CONNECTED" /\ m.id = serverId
      BY <1>3, NumbersTyped DEF GamestateOnce
  <2>2. gamestateMessageNum <= serverMessageSequence
      BY <2>1 DEF GamestateOnce
  <2> QED
      BY <1>3, <1>7, <2>1, <2>2, NumbersTyped
<1>9. \A i \in DOMAIN toServer : toServer[i].id # serverId /\ toServer[i].ack <= serverMessageSequence
    BY <1>8, Typed DEF LevelsInOrder
<1>10. MessagesInOrder'
  <2>1. 0 <= m.num /\ deltaMessage <= m.num
      BY <1>3, NumbersTyped DEF MessagesInOrder
  <2> QED
      BY <1>1, <1>3, <1>4, <2>1 DEF MessagesInOrder
<1>11. LevelsInOrder'
  <2>1. \A i \in DOMAIN toServer : toServer[i].id <= m.id /\ toServer[i].ack <= m.num
    <3>1. \A i \in DOMAIN toServer : /\ toServer[i].id \in Nat /\ toServer[i].ack \in Nat
                                     /\ toServer[i].id <= clServerId /\ toServer[i].ack <= serverMessageSequence
        BY QueuesTyped DEF LevelsInOrder
    <3>2. /\ clServerId \in Nat /\ serverMessageSequence \in Nat /\ m.id \in Nat /\ m.num \in Nat
          /\ clServerId <= m.id /\ serverMessageSequence < m.num
        BY <1>3, NumbersTyped
    <3> QED
        BY <3>1, <3>2
  <2>2. \A i \in DOMAIN toClient' :
           toClient'[i].id # 0 => m.id <= toClient'[i].id /\ toClient'[i].id <= serverId
      BY <1>3, <1>4 DEF LevelsInOrder
  <2>3. \A i, j \in DOMAIN toClient' :
           i < j /\ toClient'[i].id # 0 /\ toClient'[j].id # 0 => toClient'[i].id <= toClient'[j].id
      BY <1>4 DEF LevelsInOrder
  <2> QED
      BY <1>1, <1>3, <2>1, <2>2, <2>3 DEF LevelsInOrder
<1>12. state # "CS_ACTIVE"
    BY <1>8, NumbersTyped DEF GamestateOnce
<1>13. GamestateOnce'
  <2>1. state = "CS_CONNECTED" => /\ m.id < serverId
                                  /\ \A i \in DOMAIN toClient' : toClient'[i].id # serverId
      BY <1>3, <1>4, NumbersTyped DEF GamestateOnce
  <2>2. state # "CS_CONNECTED" =>
           \A i \in DOMAIN toClient' : toClient'[i].id = serverId => toClient'[i].num = gamestateMessageNum
      BY <1>4 DEF GamestateOnce
  <2>3. ASSUME state # "CS_CONNECTED", m.id = serverId
        PROVE  /\ gamestateMessageNum <= m.num
               /\ \A i \in DOMAIN toServer : toServer[i].ack <= gamestateMessageNum
      BY <1>3, <1>7, <1>9, <2>3, Typed
  <2> QED
      BY <1>1, <1>9, <1>12, <2>1, <2>2, <2>3 DEF GamestateOnce
<1>14. FramesInRing'
    BY DEF FramesInRing
<1>15. FramesKept'
    BY <1>1, <1>4 DEF FramesKept, FrameKept, FrameIn
<1>16. SnapshotsRight'
    BY <1>1, <1>5 DEF SnapshotsRight
<1>17. AskedHeld'
    BY <1>9, <1>12 DEF AskedHeld
<1>18. SnapshotsOnWay'
  <2> SUFFICES ASSUME NEW i \in DOMAIN toClient', toClient'[i].id = 0
               PROVE  OnWay(i)'
      BY DEF SnapshotsOnWay
  <2>1. OnWay(i + 1) /\ toClient'[i] = toClient[i + 1] /\ 1 < i + 1
      BY <1>4 DEF SnapshotsOnWay
  <2>2. toClient[i + 1].delta = 0
      BY <1>3, <2>1 DEF OnWay
  <2> QED
      BY <2>1, <2>2 DEF OnWay
<1> QED
    BY <1>6, <1>10, <1>11, <1>13, <1>14, <1>15, <1>16, <1>17, <1>18

(* The base of a snapshot that has come is there, and is decoded. *)
LEMMA HeadDecoded ==
  ASSUME DeltaInd, toClient # <<>>, NEW m, m = Head(toClient), m.id = 0
  PROVE  IsValid(m) /\ Decoded(m) = m.num
<1> USE DEF DeltaInd
<1>1. 1 \in DOMAIN toClient /\ m = toClient[1]
  <2>1. 1 \in 1..Len(toClient) /\ Head(toClient) = toClient[1]
      BY QueuesTyped, EmptySeq, LenProperties
  <2> QED
      BY <2>1, QueuesTyped, LenProperties
<1>2. m.num \in Nat /\ m.delta \in Nat /\ serverMessageSequence < m.num
    BY <1>1, Typed DEF MessagesInOrder
<1>3. OnWay(1)
    BY <1>1 DEF SnapshotsOnWay
<1>4. CASE m.delta = 0
  <2>1. m.base = Whole(Other, 0)
      BY <1>1, <1>3, <1>4 DEF OnWay
  <2>2. Contents(parseEntities, MAX_PARSE_ENTITIES, NoSnapshot) = Whole(Other, 0)
      BY ContentsOfNothing DEF NoSnapshot
  <2> QED
      BY <1>4, <2>1, <2>2 DEF IsValid, Decoded, Old
<1>5. CASE m.delta # 0
  <2> DEFINE b == m.num - m.delta
             t == snapshots[Slot(b)]
  <2>1. /\ b \in Int /\ b > 0 /\ m.delta < PACKET_BACKUP - 3 /\ b <= snap
        /\ t.valid /\ t.messageNum = b /\ m.base = Whole(b, t.num)
      BY <1>1, <1>2, <1>3, <1>5 DEF OnWay, Has
  <2>2. Old(m) = t
      BY <1>5 DEF Old
  <2>3. Slot(b) \in FrameSlots
      BY <2>1, Slots
  <2> HIDE DEF t
  <2>4. SnapshotRight(Slot(b)) /\ t.first \in Nat /\ t.num \in Nat
      BY <2>1, <2>3, RingsTyped DEF SnapshotsRight, t
  <2>5. /\ t.ps = b
        /\ parseEntitiesNum - t.first <= Room(serverMessageSequence - b + 1)
        /\ Intact(parseEntities, MAX_PARSE_ENTITIES, parseEntitiesNum, t.first, t.num, b)
      BY <2>1, <2>4 DEF SnapshotRight, t
  <2>6. parseEntitiesNum - t.first <= MAX_PARSE_ENTITIES - MAX_SNAPSHOT_ENTITIES
    <3> HIDE DEF b
    <3>1. serverMessageSequence - b + 1 <= PACKET_BACKUP - 1 /\ serverMessageSequence - b + 1 \in Int
      <4>1. serverMessageSequence \in Int /\ PACKET_BACKUP \in Int
          BY NumbersTyped, Sizes
      <4>2. b \in Int /\ serverMessageSequence < b + m.delta /\ m.delta \in Nat /\ m.delta < PACKET_BACKUP - 3
          BY <1>2, <2>1 DEF b
      <4> QED
          BY <4>1, <4>2
    <3>2. Room(serverMessageSequence - b + 1) <= Room(PACKET_BACKUP - 1)
        BY <3>1, RoomGrows, Sizes
    <3>3. Room(PACKET_BACKUP - 1) = MAX_PARSE_ENTITIES - MAX_SNAPSHOT_ENTITIES
        BY RoomGrows, Sizes
    <3>4. Room(serverMessageSequence - b + 1) \in Int
        BY <3>1, RoomGrows
    <3>5. parseEntitiesNum - t.first <= Room(PACKET_BACKUP - 1)
      <4>1. parseEntitiesNum - t.first \in Int
          BY <2>4, NumbersTyped
      <4>2. PACKET_BACKUP - 1 \in Int
          BY Sizes
      <4>3. Room(PACKET_BACKUP - 1) \in Int
          BY <4>2, RoomGrows
      <4> QED
          BY <2>5, <3>2, <3>4, <4>1, <4>3
    <3> QED
        BY <3>3, <3>5
  <2>7. t.first > parseEntitiesNum - MAX_PARSE_ENTITIES
    <3>1. /\ parseEntitiesNum \in Int /\ MAX_PARSE_ENTITIES \in Int
          /\ MAX_SNAPSHOT_ENTITIES \in Int /\ MAX_SNAPSHOT_ENTITIES > 0
        BY NumbersTyped, Sizes
    <3> QED
        BY <2>4, <2>6, <3>1
  <2>8. Contents(parseEntities, MAX_PARSE_ENTITIES, t) = Whole(b, t.num)
      BY <2>4, <2>5, <2>7, ContentsWhole, NumbersTyped, Sizes
  <2>9. IsValid(m)
      BY <2>1, <2>2, <2>6 DEF IsValid
  <2> QED
      BY <2>1, <2>2, <2>8, <2>9 DEF Decoded
<1> QED
    BY <1>4, <1>5

LEMMA SkippedAre ==
  ASSUME TypeOK, NEW m, m.num \in Nat
  PROVE  /\ \A i \in Skipped(m) : i \in Int /\ i > snap /\ i < m.num
         /\ \A i \in Int : i > snap /\ i > m.num - PACKET_BACKUP /\ i < m.num => i \in Skipped(m)
<1> DEFINE n == m.num
           p == PACKET_BACKUP
<1>1. n \in Int /\ snap \in Int /\ p \in Int
    BY NumbersTyped, Sizes
<1>2. Skipped(m) = MaxOf(snap + 1, n - (p - 1))..(n - 1)
    BY DEF Skipped
<1> HIDE DEF n, p
<1>3. CASE snap + 1 > n - (p - 1)
  <2>1. Skipped(m) = (snap + 1)..(n - 1)
      BY <1>2, <1>3 DEF MaxOf
  <2> QED
      BY <1>1, <1>3, <2>1 DEF n, p
<1>4. CASE ~(snap + 1 > n - (p - 1))
  <2>1. Skipped(m) = (n - (p - 1))..(n - 1)
      BY <1>2, <1>4 DEF MaxOf
  <2> QED
      BY <1>1, <1>4, <2>1 DEF n, p
<1> QED
    BY <1>3, <1>4

LEMMA ParseSnapshotStep ==
  ASSUME DeltaInd, toClient # <<>>, toClient' = Tail(toClient), UNCHANGED <<serverVars, toServer>>,
         NEW m, m = Head(toClient), m.id = 0, serverMessageSequence' = m.num, CL_ParseSnapshot(m)
  PROVE  DeltaInd'
<1> USE DEF DeltaInd
<1> DEFINE t == [valid |-> TRUE, messageNum |-> m.num, first |-> parseEntitiesNum, num |-> m.entities, ps |-> m.num]
           Cleared(s) == s \in {Slot(i) : i \in Skipped(m)}
<1>1. IsValid(m) /\ Decoded(m) = m.num
    BY HeadDecoded
<1>2. UNCHANGED <<state, serverId, outgoingSequence, gamestateMessageNum, deltaMessage, frames,
                  nextSnapshotEntities, snapshotEntities, toServer, clServerId>>
    BY DEF serverVars, CL_ParseSnapshot
<1>3. /\ parseEntities' = Put(parseEntities, MAX_PARSE_ENTITIES, parseEntitiesNum, m.entities, m.num)
      /\ parseEntitiesNum' = parseEntitiesNum + m.entities
      /\ snapshots' = [s \in FrameSlots |-> IF s = Slot(m.num) THEN t
                                            ELSE [snapshots[s] EXCEPT !.valid = @ /\ ~Cleared(s)]]
      /\ snap' = m.num
    BY <1>1 DEF CL_ParseSnapshot
<1>4. /\ 1 \in DOMAIN toClient /\ m = toClient[1] /\ m \in Message
      /\ m.num \in Nat /\ m.entities \in Nat /\ serverMessageSequence < m.num /\ m.num < outgoingSequence
      /\ snap < m.num /\ OnWay(1)
  <2>1. 1 \in DOMAIN toClient /\ m = toClient[1]
      BY MessagesBehind
  <2>2. m.num \in Nat /\ m.entities \in Nat
      BY <2>1, Typed
  <2>3. serverMessageSequence < m.num /\ m.num < outgoingSequence /\ OnWay(1)
      BY <2>1 DEF MessagesInOrder, SnapshotsOnWay
  <2>4. snap < m.num
      BY <2>2, <2>3, NumbersTyped DEF MessagesInOrder
  <2>5. m \in Message
      BY <2>1, QueuesTyped, ElementOfSeq, LenProperties
  <2> QED
      BY <2>1, <2>2, <2>3, <2>4, <2>5
<1>5. \A i \in DOMAIN toClient' :
         i \in Nat /\ i + 1 \in DOMAIN toClient /\ toClient'[i] = toClient[i + 1] /\ 1 < i + 1
    BY MessagesBehind
<1>6. Slot(m.num) \in FrameSlots /\ snapshots'[Slot(m.num)] = t
    BY <1>3, <1>4, Slots
<1>7. ASSUME NEW s \in FrameSlots, s # Slot(m.num)
      PROVE  /\ snapshots'[s].messageNum = snapshots[s].messageNum /\ snapshots'[s].first = snapshots[s].first
             /\ snapshots'[s].num = snapshots[s].num /\ snapshots'[s].ps = snapshots[s].ps
             /\ snapshots'[s].valid = (snapshots[s].valid /\ ~Cleared(s))
             /\ snapshots'[s] \in Snapshot
  <2>1. snapshots[s] \in Snapshot
      BY DEF TypeOK, Snapshot
  <2> HIDE DEF t, Cleared
  <2>2. snapshots'[s] = [snapshots[s] EXCEPT !.valid = snapshots[s].valid /\ ~Cleared(s)]
      BY <1>3, <1>7
  <2> QED
      BY <2>1, <2>2 DEF Snapshot
<1>8. /\ t.valid = TRUE /\ t.messageNum = m.num /\ t.first = parseEntitiesNum /\ t.num = m.entities /\ t.ps = m.num
      /\ t \in Snapshot
    BY <1>4, NumbersTyped DEF Snapshot, Entities
<1> HIDE DEF t
(* What was asked for stays. *)
<1>9. ASSUME NEW b \in Int, b <= snap, m.num < b + PACKET_BACKUP, Has(b)
      PROVE  /\ snapshots'[Slot(b)].valid /\ snapshots'[Slot(b)].messageNum = b
             /\ snapshots'[Slot(b)].num = snapshots[Slot(b)].num
  <2>1. Slot(b) \in FrameSlots
      BY Slots
  <2>2. Slot(b) # Slot(m.num)
      BY <1>4, <1>9, NumbersTyped, Sizes, Slots
  <2>3. ASSUME NEW i \in Skipped(m)
        PROVE  Slot(b) # Slot(i)
    <3>1. i \in Int /\ i > snap /\ i < m.num
        BY <1>4, SkippedAre
    <3>2. b < i /\ i - b < PACKET_BACKUP
      <4>1. snap \in Int /\ PACKET_BACKUP \in Int /\ m.num \in Int
          BY <1>4, NumbersTyped, Sizes
      <4> QED
          BY <1>9, <3>1, <4>1
    <3> QED
        BY <3>1, <3>2, Slots
  <2>4. ~Cleared(Slot(b))
      BY <2>3
  <2> HIDE DEF Cleared
  <2> QED
      BY <1>7, <1>9, <2>1, <2>2, <2>4 DEF Has
(* And what stays is not too old. *)
<1>10. ASSUME NEW s \in FrameSlots, s # Slot(m.num), snapshots[s].valid, ~Cleared(s)
       PROVE  snapshots[s].messageNum > m.num - PACKET_BACKUP
  <2>1. SnapshotRight(s)
      BY <1>10 DEF SnapshotsRight
  <2> DEFINE b == snapshots[s].messageNum
  <2>2. b \in Nat /\ b > snap - PACKET_BACKUP /\ Slot(b) = s
      BY <2>1, RingsTyped DEF SnapshotRight
  <2> HIDE DEF b
  <2> SUFFICES ASSUME b <= m.num - PACKET_BACKUP
               PROVE  FALSE
      BY <1>4, <2>2, Sizes DEF b
  <2>3. PICK i \in Int : /\ i > m.num - PACKET_BACKUP /\ i <= m.num
                         /\ i >= b + PACKET_BACKUP /\ Slot(i) = Slot(b)
      BY <1>4, <2>2, SlotAgain
  <2>4. i # m.num
      BY <1>10, <2>2, <2>3
  <2>5. i > snap
      BY <2>2, <2>3, NumbersTyped, Sizes
  <2>6. i \in Skipped(m)
    <3>1. i < m.num
        BY <1>4, <2>3, <2>4
    <3> QED
        BY <1>4, <2>3, <2>5, <3>1, SkippedAre
  <2> QED
      BY <1>10, <2>2, <2>3, <2>6
<1> HIDE DEF Cleared
<1>11. TypeOK'
  <2>1. snapshots' \in [FrameSlots -> Snapshot]
    <3>1. \A s \in FrameSlots : snapshots'[s] \in Snapshot
        BY <1>6, <1>7, <1>8
    <3>2. snapshots' = [s \in FrameSlots |-> snapshots'[s]]
        BY <1>3
    <3> QED
        BY <3>1, <3>2
  <2>2. parseEntities' \in [0..(MAX_PARSE_ENTITIES - 1) -> Entities]
      BY <1>3, <1>4, RingsTyped DEF Put, TypeOK, Entities
  <2>3. toClient' \in Seq(Message)
      BY MessagesBehind
  <2>4. parseEntitiesNum' \in Nat
      BY <1>3, <1>4, NumbersTyped
  <2> QED
      BY <1>2, <1>3, <1>4, <2>1, <2>2, <2>3, <2>4 DEF TypeOK, Message, Snapshot
<1> USE <1>2
<1>12. MessagesInOrder'
  <2>1. m.num <= m.num /\ deltaMessage <= m.num
      BY <1>4, NumbersTyped DEF MessagesInOrder
  <2> QED
      BY <1>3, <1>4, <1>5, <2>1 DEF MessagesInOrder
<1>13. LevelsInOrder'
  <2>1. \A i \in DOMAIN toServer : toServer[i].id <= clServerId /\ toServer[i].ack <= m.num
      BY <1>4, Typed DEF LevelsInOrder
  <2> QED
      BY <1>5, <2>1 DEF LevelsInOrder
<1>14. GamestateOnce'
  <2>1. state # "CS_CONNECTED" /\ clServerId = serverId => gamestateMessageNum < m.num
      BY <1>4, NumbersTyped DEF GamestateOnce
  <2>2. gamestateMessageNum < m.num => gamestateMessageNum <= m.num /\ m.num > gamestateMessageNum
      BY <1>4, NumbersTyped
  <2> QED
      BY <1>3, <1>5, <2>1, <2>2 DEF GamestateOnce
<1>15. FramesInRing'
    BY DEF FramesInRing
<1>16. FramesKept'
  <2>1. FrameKept(m.num)
      BY <1>4 DEF FramesKept
  <2> QED
      BY <1>3, <1>5, <2>1 DEF FramesKept, FrameKept, FrameIn
<1>17. parseEntitiesNum' = parseEntitiesNum + m.entities /\ m.entities \in Nat
    BY <1>3, <1>4
<1>18. SnapshotsRight'
  <2>1. ASSUME NEW s \in FrameSlots, snapshots'[s].valid
        PROVE  SnapshotRight(s)'
    <3>1. CASE s = Slot(m.num)
      <4>1. snapshots'[s] = t
          BY <1>6, <3>1
      <4>2. m.num > 0 /\ m.num <= m.num /\ m.num > m.num - PACKET_BACKUP
          BY <1>4, NumbersTyped, Sizes
      <4>3. m.entities <= MAX_SNAPSHOT_ENTITIES /\ (frames[s].ps = m.num => frames[s].num = m.entities)
          BY <1>4, <3>1 DEF OnWay
      <4>4. Intact(parseEntities', MAX_PARSE_ENTITIES, parseEntitiesNum', parseEntitiesNum, m.entities, m.num)
          BY <1>3, <1>4, PutThere, RingsTyped, NumbersTyped, Sizes
      <4>5. parseEntitiesNum + m.entities <= parseEntitiesNum'
            /\ parseEntitiesNum' - parseEntitiesNum = m.entities
          BY <1>3, <1>4, NumbersTyped
      <4>6. m.entities <= Room(m.num - m.num + 1)
        <5>1. m.num - m.num + 1 = 1
            BY <1>4
        <5> QED
            BY <4>3, <5>1, RoomGrows
      <4> QED
          BY <1>3, <1>8, <3>1, <4>1, <4>2, <4>3, <4>4, <4>5, <4>6 DEF SnapshotRight
    <3>2. CASE s # Slot(m.num)
      <4> DEFINE u == snapshots[s]
      <4>1. u.valid /\ ~Cleared(s)
          BY <1>7, <2>1, <3>2
      <4>2. SnapshotRight(s) /\ u.messageNum > m.num - PACKET_BACKUP
          BY <1>10, <3>2, <4>1 DEF SnapshotsRight
      <4>3. u.messageNum \in Nat /\ u.first \in Nat /\ u.num \in Nat
          BY RingsTyped
      <4> HIDE DEF u
      <4>4. /\ u.messageNum > 0 /\ u.messageNum <= snap /\ Slot(u.messageNum) = s /\ u.ps = u.messageNum
            /\ frames[s].ps = u.messageNum => frames[s].num = u.num
            /\ u.num <= MAX_SNAPSHOT_ENTITIES /\ u.first + u.num <= parseEntitiesNum
            /\ parseEntitiesNum - u.first <= Room(serverMessageSequence - u.messageNum + 1)
            /\ Intact(parseEntities, MAX_PARSE_ENTITIES, parseEntitiesNum, u.first, u.num, u.messageNum)
          BY <4>2 DEF SnapshotRight, u
      <4>5. u.messageNum <= m.num
          BY <1>4, <4>3, <4>4, NumbersTyped
      <4>6. u.first + u.num <= parseEntitiesNum'
        <5>1. parseEntitiesNum <= parseEntitiesNum' /\ parseEntitiesNum' \in Nat /\ parseEntitiesNum \in Nat
            BY <1>17, NumbersTyped
        <5>2. u.first + u.num \in Nat /\ u.first + u.num <= parseEntitiesNum
            BY <4>3, <4>4
        <5> QED
            BY <5>1, <5>2
      <4>7. parseEntitiesNum' - u.first <= Room(m.num - u.messageNum + 1)
        <5> DEFINE a == serverMessageSequence - u.messageNum + 1
                   b == m.num - u.messageNum + 1
        <5>1. a \in Int /\ b \in Int /\ a < b
          <6>1. serverMessageSequence \in Int /\ m.num \in Int /\ serverMessageSequence < m.num
              BY <1>4, NumbersTyped
          <6> QED
              BY <4>3, <6>1
        <5>2. parseEntitiesNum - u.first <= Room(a)
            BY <4>4
        <5> HIDE DEF a, b
        <5>3. Room(a) + MAX_SNAPSHOT_ENTITIES <= Room(b) /\ Room(a) \in Int /\ Room(b) \in Int
            BY <5>1, RoomGrows
        <5>4. m.entities <= MAX_SNAPSHOT_ENTITIES
            BY <1>4 DEF OnWay
        <5>5. parseEntitiesNum' - u.first <= Room(b)
          <6>1. /\ parseEntitiesNum \in Int /\ m.entities \in Int /\ MAX_SNAPSHOT_ENTITIES \in Int
                /\ parseEntitiesNum' = parseEntitiesNum + m.entities
              BY <1>17, NumbersTyped, Sizes
          <6> QED
              BY <4>3, <5>2, <5>3, <5>4, <6>1
        <5> QED
            BY <5>5 DEF b
      <4>8. Intact(parseEntities', MAX_PARSE_ENTITIES, parseEntitiesNum', u.first, u.num, u.messageNum)
          BY <1>3, <1>4, <4>3, <4>4, PutKeeps, RingsTyped, NumbersTyped, Sizes
      <4>9. /\ snapshots'[s].messageNum = u.messageNum /\ snapshots'[s].first = u.first
            /\ snapshots'[s].num = u.num /\ snapshots'[s].ps = u.ps
          BY <1>7, <3>2 DEF u
      <4>10. u.messageNum > m.num - PACKET_BACKUP
          BY <4>2 DEF u
      <4> QED
          BY <1>3, <4>4, <4>5, <4>6, <4>7, <4>8, <4>9, <4>10 DEF SnapshotRight
    <3> QED
        BY <3>1, <3>2
  <2>2. snapshots'[Slot(m.num)].valid /\ snapshots'[Slot(m.num)].messageNum = m.num
      BY <1>6, <1>8
  <2> QED
      BY <1>3, <2>1, <2>2 DEF SnapshotsRight, Has
<1>19. AskedHeld'
  <2>1. ASSUME NEW b \in Int, Holds(b), m.num < b + PACKET_BACKUP
        PROVE  snapshots'[Slot(b)].valid /\ snapshots'[Slot(b)].messageNum = b
    <3>1. b <= snap /\ Has(b)
        BY <1>4, <2>1, NumbersTyped, Sizes DEF Holds
    <3> QED
        BY <1>9, <2>1, <3>1
  <2>2. \A b \in Int : Holds(b) => b <= m.num
      BY <1>4, NumbersTyped DEF Holds
  <2>3. (state = "CS_ACTIVE" /\ deltaMessage > 0) => Holds(deltaMessage) /\ deltaMessage \in Int
      BY NumbersTyped DEF AskedHeld
  <2>4. \A i \in DOMAIN toServer :
           toServer[i].id = serverId /\ toServer[i].delta => Holds(toServer[i].ack) /\ toServer[i].ack \in Int
      BY Typed DEF AskedHeld
  <2> QED
      BY <1>3, <2>1, <2>2, <2>3, <2>4 DEF AskedHeld, Holds, Has
<1>20. SnapshotsOnWay'
  <2> SUFFICES ASSUME NEW i \in DOMAIN toClient', toClient'[i].id = 0
               PROVE  OnWay(i)'
      BY DEF SnapshotsOnWay
  <2> DEFINE k == toClient[i + 1]
             b == k.num - k.delta
  <2>1. OnWay(i + 1) /\ toClient'[i] = k /\ i + 1 \in DOMAIN toClient /\ 1 < i + 1 /\ i \in Nat
      BY <1>5 DEF SnapshotsOnWay
  <2>2. k.num \in Nat /\ k.delta \in Nat /\ m.num < k.num
      BY <1>4, <2>1, Typed DEF MessagesInOrder
  <2>3. ASSUME k.delta # 0
        PROVE  /\ b > 0 /\ k.delta < PACKET_BACKUP - 3 /\ b <= m.num
               /\ snapshots'[Slot(b)].valid /\ snapshots'[Slot(b)].messageNum = b
               /\ k.base = Whole(b, snapshots'[Slot(b)].num)
               /\ \A j \in DOMAIN toClient' : j < i => toClient'[j].id = 0
    <3>1. /\ b > 0 /\ k.delta < PACKET_BACKUP - 3 /\ b <= snap
          /\ Has(b) /\ k.base = Whole(b, snapshots[Slot(b)].num)
          /\ \A j \in DOMAIN toClient : j < i + 1 => toClient[j].id = 0
        BY <2>1, <2>3 DEF OnWay
    <3>2. b \in Int /\ m.num < b + PACKET_BACKUP /\ b <= m.num
      <4>1. snap \in Int /\ m.num \in Int /\ PACKET_BACKUP \in Int /\ snap < m.num
          BY <1>4, NumbersTyped, Sizes
      <4>2. b \in Int /\ b + k.delta = k.num
          BY <2>2
      <4> HIDE DEF b
      <4> QED
          BY <2>2, <3>1, <4>1, <4>2
    <3> HIDE DEF b, k
    <3>3. /\ snapshots'[Slot(b)].valid /\ snapshots'[Slot(b)].messageNum = b
          /\ snapshots'[Slot(b)].num = snapshots[Slot(b)].num
        BY <1>9, <3>1, <3>2
    <3>4. \A j \in DOMAIN toClient' : j < i => toClient'[j].id = 0
        BY <1>5, <2>1, <3>1
    <3> QED
        BY <3>1, <3>2, <3>3, <3>4
  <2>4. /\ k.entities <= MAX_SNAPSHOT_ENTITIES
        /\ frames[Slot(k.num)].ps = k.num => frames[Slot(k.num)].num = k.entities
        /\ k.delta = 0 => k.base = Whole(Other, 0)
      BY <2>1 DEF OnWay
  <2> HIDE DEF k
  <2> QED
      BY <1>3, <2>1, <2>3, <2>4 DEF OnWay, Has
<1> QED
    BY <1>11, <1>12, <1>13, <1>14, <1>15, <1>16, <1>18, <1>19, <1>20

LEMMA ParseStep ==
  ASSUME DeltaInd, CL_ParseServerMessage
  PROVE  DeltaInd'
<1>1. /\ toClient # <<>> /\ toClient' = Tail(toClient) /\ UNCHANGED <<serverVars, toServer>>
      /\ serverMessageSequence' = Head(toClient).num
    BY DEF CL_ParseServerMessage
<1>2. CASE Head(toClient).id # 0 /\ CL_ParseGamestate(Head(toClient))
    BY <1>1, <1>2, ParseGamestateStep
<1>3. CASE Head(toClient).id = 0 /\ CL_ParseSnapshot(Head(toClient))
    BY <1>1, <1>3, ParseSnapshotStep
<1> QED
    BY <1>2, <1>3 DEF CL_ParseServerMessage

-----------------------------------------------------------------------------
(* The theorems. *)
LEMMA DeltaInit == Init => DeltaInd
<1> SUFFICES ASSUME Init
             PROVE  DeltaInd
    OBVIOUS
<1> USE DEF Init
<1>1. \A i : i \notin DOMAIN toClient /\ i \notin DOMAIN toServer
    BY EmptySeq, LenProperties
<1>2. \A s \in FrameSlots : frames[s] = NoFrame /\ snapshots[s] = NoSnapshot
    OBVIOUS
<1>3. TypeOK
  <2>1. NoFrame \in Frames
      BY DEF NoFrame, Frames, Entities
  <2>2. NoSnapshot \in Snapshot
      BY DEF NoSnapshot, Snapshot, Entities
  <2>3. Other \in Entities
      BY DEF Entities
  <2>4. toClient \in Seq(Message) /\ toServer \in Seq(Asking)
      BY EmptySeq
  <2> QED
      BY <2>1, <2>2, <2>3, <2>4 DEF TypeOK, Snapshot, Message, Asking
<1>4. MessagesInOrder /\ LevelsInOrder /\ GamestateOnce /\ FramesKept /\ AskedHeld /\ SnapshotsOnWay
    BY <1>1 DEF MessagesInOrder, LevelsInOrder, GamestateOnce, FramesKept, AskedHeld, SnapshotsOnWay
<1>5. FramesInRing
    BY <1>2, Sizes DEF FramesInRing, NoFrame, Other
<1>6. SnapshotsRight
    BY <1>2 DEF SnapshotsRight, NoSnapshot
<1> QED
    BY <1>3, <1>4, <1>5, <1>6 DEF DeltaInd

LEMMA DeltaStep == DeltaInd /\ [Next]_vars => DeltaInd'
<1> SUFFICES ASSUME DeltaInd, [Next]_vars
             PROVE  DeltaInd'
    OBVIOUS
<1>1. CASE SV_SendClientSnapshot
    BY <1>1, SendSnapshotStep
<1>2. CASE SnapshotsOfOthers
    BY <1>2, OthersStep
<1>3. CASE SV_SpawnServer
    BY <1>3, SpawnServerStep
<1>4. CASE SV_ExecuteClientMessage
    BY <1>4, ExecuteStep
<1>5. CASE CL_WritePacket
    BY <1>5, WriteStep
<1>6. CASE CL_ParseServerMessage
    BY <1>6, ParseStep
<1>7. CASE Lose
    BY <1>7, LoseMessage, LosePacket DEF Lose
<1>8. CASE UNCHANGED vars
  <2>1. UNCHANGED <<state, serverId, outgoingSequence, gamestateMessageNum, deltaMessage, frames,
                    nextSnapshotEntities, snapshotEntities, clServerId, serverMessageSequence,
                    snap, snapshots, parseEntitiesNum, parseEntities, toClient, toServer>>
      BY <1>8 DEF vars, serverVars, clientVars, snapVars
  <2> QED
      BY <2>1 DEF DeltaInd, TypeOK, MessagesInOrder, LevelsInOrder, GamestateOnce, FramesInRing, FramesKept,
                  FrameKept, SnapshotsRight, SnapshotRight, AskedHeld, Holds, Has, SnapshotsOnWay, OnWay
<1> QED
    BY <1>1, <1>2, <1>3, <1>4, <1>5, <1>6, <1>7, <1>8 DEF Next

LEMMA DeltaAlways == Spec => []DeltaInd
BY DeltaInit, DeltaStep, PTL DEF Spec

(* The server encodes a snapshot from the frame it sent in the message that *)
(* the client acknowledged, or sends it whole (SV_WriteSnapshotToClient).   *)
THEOREM EncodedFromWhatWasSent == Spec => []IInv
<1>1. DeltaInd => IInv
  <2> SUFFICES ASSUME DeltaInd
               PROVE  BaseIsSent
      BY DEF IInv, DeltaInd
  <2> SUFFICES ASSUME deltaMessage > 0, state = "CS_ACTIVE", ~FrameTooOld(deltaMessage),
                      ~RolledOff(frames[Slot(deltaMessage)], nextSnapshotEntities)
               PROVE  /\ frames[Slot(deltaMessage)].ps = deltaMessage
                      /\ \A k \in 0..(frames[Slot(deltaMessage)].num - 1) :
                            snapshotEntities[(frames[Slot(deltaMessage)].first + k) % numSnapshotEntities]
                               = deltaMessage
      BY BaseRight DEF BaseIsSent
  <2> DEFINE f == frames[Slot(deltaMessage)]
  <2>1. f.ps = deltaMessage /\ deltaMessage > gamestateMessageNum /\ Slot(deltaMessage) \in FrameSlots
      BY BaseRight
  <2>2. f.first \in Nat /\ f.first > nextSnapshotEntities - numSnapshotEntities
      BY <2>1, NumbersTyped, RingsTyped, Sizes DEF RolledOff, DeltaInd
  <2>3. Intact(snapshotEntities, numSnapshotEntities, nextSnapshotEntities, f.first, f.num, f.ps)
      BY <2>1 DEF DeltaInd, FramesInRing
  <2> QED
      BY <2>1, <2>2, <2>3 DEF Intact
<1> QED
    BY <1>1, DeltaAlways, PTL

(* The base of every snapshot that reaches the client is there: the cases   *)
(* CL_ParseSnapshot calls invalid, too old or overwritten do not happen.    *)
THEOREM BasesAreHeld == Spec => []BaseHeld
<1>1. DeltaInd => BaseHeld
    BY HeadDecoded DEF BaseHeld
<1> QED
    BY <1>1, DeltaAlways, PTL

(* What CL_GetSnapshot gives is the snapshot of that number, with the       *)
(* entities and the playerState that the server put in it.                  *)
THEOREM SnapshotsAreFaithful == Spec => []SnapshotsFaithful
<1>1. DeltaInd => SnapshotsFaithful
  <2> SUFFICES ASSUME DeltaInd, NEW i \in 1..snap, Available(i)
               PROVE  LET s == snapshots[Slot(i)]
                      IN  /\ s.messageNum = i
                          /\ s.ps = i
                          /\ \A k \in 0..(s.num - 1) : parseEntities[(s.first + k) % MAX_PARSE_ENTITIES] = i
      BY DEF SnapshotsFaithful
  <2> DEFINE s == snapshots[Slot(i)]
  <2>1. i \in Int /\ i <= snap /\ snap \in Nat /\ Slot(i) \in FrameSlots /\ parseEntitiesNum \in Nat
      BY NumbersTyped, Slots DEF DeltaInd
  <2>2. snap - i < PACKET_BACKUP /\ s.valid /\ parseEntitiesNum - s.first < MAX_PARSE_ENTITIES
      BY DEF Available
  <2>3. /\ s.messageNum <= snap /\ s.messageNum > snap - PACKET_BACKUP /\ s.ps = s.messageNum
        /\ Slot(s.messageNum) = Slot(i)
        /\ Intact(parseEntities, MAX_PARSE_ENTITIES, parseEntitiesNum, s.first, s.num, s.messageNum)
      BY <2>1, <2>2 DEF DeltaInd, SnapshotsRight, SnapshotRight
  <2>4. s.messageNum \in Nat /\ s.first \in Nat
      BY <2>1, RingsTyped DEF DeltaInd
  <2> HIDE DEF s
  <2>5. s.messageNum = i
    <3>1. CASE s.messageNum < i
      <4>1. i - s.messageNum < PACKET_BACKUP
          BY <2>1, <2>3, <2>4, Sizes
      <4> QED
          BY <2>1, <2>3, <2>4, <3>1, <4>1, Slots
    <3>2. CASE i < s.messageNum
      <4>1. s.messageNum - i < PACKET_BACKUP
          BY <2>1, <2>2, <2>3, <2>4, Sizes
      <4> QED
          BY <2>1, <2>3, <2>4, <3>2, <4>1, Slots
    <3> QED
        BY <2>1, <2>4, <3>1, <3>2
  <2>6. s.first > parseEntitiesNum - MAX_PARSE_ENTITIES
      BY <2>1, <2>2, <2>4, Sizes
  <2>7. \A k \in 0..(s.num - 1) : parseEntities[(s.first + k) % MAX_PARSE_ENTITIES] = i
      BY <2>3, <2>5, <2>6 DEF Intact
  <2> QED
      BY <2>3, <2>5, <2>7 DEF s
<1> QED
    BY <1>1, DeltaAlways, PTL
==============================================================================
