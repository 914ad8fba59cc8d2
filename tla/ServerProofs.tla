---------------------------- MODULE ServerProofs -----------------------------
(***************************************************************************)
(* Proofs about parts of the server that share no state: the relay of      *)
(* voice, for any talkers, listeners and recordings; the rate limit, for   *)
(* any addresses, buckets, rates and clocks; downloads, for any files,     *)
(* windows and numbers of blocks; and connections, for any challenges,     *)
(* tables and times.                                                       *)
(***************************************************************************)
EXTENDS VoipRelay, LeakyBucket, Download, Connection, Remainders, WellFoundedInduction
-----------------------------------------------------------------------------
(* Voice. *)

(* The generation of the r-th recording of a talker. *)
GenerationOf(r) == IF r = 0 THEN 0 ELSE ((r - 1) % MaxGeneration) + 1

Talkers == [who : DOMAIN Recordings, recording : Nat, generation : 0..MaxGeneration,
            sequence : 0..MaxSequence, pending : 0..PacketFrames]

(* The records have their fields, the generation counts recordings. *)
TalkerShape ==
    /\ talker \in Talkers
    /\ talker.recording <= Recordings[talker.who]
    /\ talker.generation = GenerationOf(talker.recording)
    /\ talker.pending > 0 => talker.recording > 0
VoipRecords == [packet : [Ring -> Packet \cup {NoPacket}], index : Ring, queued : 0..QueueLength]
VoipShape ==
    /\ voip \in VoipRecords
    /\ listener \in [here : BOOLEAN, downloading : BOOLEAN, generation : 0..MaxGeneration, sequence : Nat]
    /\ snapshot \in Seq(Packet)
    /\ played \in Packet \cup {NoPacket}

(* A packet was recorded before what talker t would record now, and its    *)
(* generation is that of its recording. *)
Recorded(p, t) ==
    /\ p.generation = GenerationOf(p.recording)
    /\ \/ p.who < t.who
       \/ p.who = t.who /\ p.recording < t.recording
       \/ p.who = t.who /\ p.recording = t.recording /\ p.sequence + p.frames <= t.sequence

(* Every packet of sequence s was recorded before all of sequence u. *)
Precede(s, u) == \A i \in DOMAIN s, j \in DOMAIN u : RecordedAfter(u[j], s[i])

AllRecorded(s, t) == \A i \in DOMAIN s : s[i] \in Packet /\ Recorded(s[i], t)

(* The decoder's state is that of the packet decoded last, and all others  *)
(* were recorded after it. *)
DecoderKept ==
    played # NoPacket =>
        /\ listener.generation = played.generation /\ listener.sequence = NextSequence(played)
        /\ Recorded(played, talker)
        /\ Precede(<<played>>, snapshot) /\ Precede(<<played>>, Queued(voip))

VoipInd ==
    /\ TalkerShape /\ VoipShape
    /\ AllRecorded(snapshot, talker) /\ AllRecorded(Queued(voip), talker)
    /\ InOrder(snapshot) /\ InOrder(Queued(voip)) /\ Precede(snapshot, Queued(voip))
    /\ DecoderKept

LEMMA RingSlotInRing ==
  ASSUME NEW v, v.index \in Ring, NEW k \in Nat \ {0}
  PROVE  RingSlot(v, k) \in Ring
<1>1. v.index + k - 1 \in Int /\ QueueLength \in Nat \ {0}
    BY VoipAssumption DEF Ring
<1> QED
    BY <1>1, RemainderInRange DEF RingSlot, Ring

LEMMA RingSlotsDiffer ==
  ASSUME NEW v, v.index \in Ring, NEW k \in Nat \ {0}, NEW l \in Nat \ {0}, k < l, l - k < QueueLength
  PROVE  RingSlot(v, k) # RingSlot(v, l)
<1> DEFINE i == v.index + k - 1
           j == v.index + l - 1
<1>1. i \in Int /\ j \in Int /\ i < j /\ j - i < QueueLength /\ QueueLength \in Nat \ {0}
    BY VoipAssumption DEF Ring
<1>2. RingSlot(v, k) = i % QueueLength /\ RingSlot(v, l) = j % QueueLength
    BY DEF RingSlot
<1> HIDE DEF i, j
<1> QED
    BY <1>1, <1>2, RemaindersDiffer

(* Generations. *)
LEMMA GenerationInRange ==
  ASSUME NEW r \in Nat
  PROVE  GenerationOf(r) \in 0..MaxGeneration /\ (r > 0 => GenerationOf(r) \in 1..MaxGeneration)
<1>1. CASE r = 0
    BY <1>1, VoipAssumption DEF GenerationOf
<1>2. CASE r > 0
  <2>1. r - 1 \in Int /\ MaxGeneration \in Nat \ {0}
      BY VoipAssumption
  <2>2. (r - 1) % MaxGeneration \in 0..MaxGeneration - 1
      BY <2>1, RemainderInRange
  <2> QED
      BY <1>2, <2>1, <2>2 DEF GenerationOf
<1> QED
    BY <1>1, <1>2

LEMMA NextGenerationFollows ==
  ASSUME NEW r \in Nat
  PROVE  NextGeneration(GenerationOf(r)) = GenerationOf(r + 1)
<1> USE VoipAssumption
<1>1. CASE r = 0
  <2>1. (MaxGeneration * 0 + 0) % MaxGeneration = 0
      BY RemainderIs
  <2>2. MaxGeneration * 0 + 0 = 0 /\ r + 1 - 1 = 0
      BY <1>1
  <2> QED
      BY <1>1, <2>1, <2>2 DEF GenerationOf, NextGeneration
<1>2. CASE r > 0
  <2> DEFINE q == r - 1
             s == q % MaxGeneration
  <2>1. q \in Int /\ MaxGeneration \in Nat \ {0} /\ r + 1 - 1 = q + 1
      BY VoipAssumption
  <2>2. s \in 0..MaxGeneration - 1
      BY <2>1, RemainderInRange
  <2>3. (q + 1) % MaxGeneration = IF s = MaxGeneration - 1 THEN 0 ELSE s + 1
      BY <2>1, RemainderOfNext
  <2>4. GenerationOf(r) = s + 1
      BY <1>2 DEF GenerationOf
  <2>5. GenerationOf(r + 1) = ((q + 1) % MaxGeneration) + 1
      BY <1>2, <2>1 DEF GenerationOf
  <2> HIDE DEF q, s
  <2> QED
      BY <2>1, <2>2, <2>3, <2>4, <2>5 DEF NextGeneration
<1> QED
    BY <1>1, <1>2

LEMMA GenerationsDiffer ==
  ASSUME NEW r \in Nat \ {0}, NEW t \in Nat \ {0}, r < t, t - r < MaxGeneration
  PROVE  GenerationOf(r) # GenerationOf(t)
<1> DEFINE i == r - 1
           j == t - 1
<1>1. i \in Int /\ j \in Int /\ i < j /\ j - i < MaxGeneration /\ MaxGeneration \in Nat \ {0}
    BY VoipAssumption
<1>2. i % MaxGeneration # j % MaxGeneration
  <2> HIDE DEF i, j
  <2> QED
    BY <1>1, RemaindersDiffer
<1>3. i % MaxGeneration \in Int /\ j % MaxGeneration \in Int
    BY <1>1, RemainderInRange
<1> QED
    BY <1>2, <1>3 DEF GenerationOf

(* Talker u is talker t, or comes after it. *)
Later(t, u) ==
    \/ t.who < u.who
    \/ t.who = u.who /\ t.recording < u.recording
    \/ t.who = u.who /\ t.recording = u.recording /\ t.sequence <= u.sequence

(* What has been recorded stays so. *)
LEMMA RecordedStays ==
  ASSUME NEW t \in Talkers,
         NEW u \in Talkers,
         Later(t, u),
         NEW p \in Packet, Recorded(p, t)
  PROVE  Recorded(p, u)
<1>1. DOMAIN Recordings \subseteq Int
    BY VoipAssumption
<1>2. {t.who, u.who, p.who} \subseteq Int /\ {t.recording, u.recording, p.recording} \subseteq Int
      /\ {t.sequence, u.sequence, p.sequence, p.frames} \subseteq Int
    BY <1>1, VoipAssumption DEF Packet, Talkers
<1> QED
    BY <1>2 DEF Recorded, Later

LEMMA OutgoingIsNext ==
  ASSUME TalkerShape, talker.pending > 0
  PROVE  /\ Outgoing \in Packet
         /\ Outgoing.generation = GenerationOf(Outgoing.recording)
         /\ \A p \in Packet : Recorded(p, talker) => RecordedAfter(Outgoing, p)
<1>1. Outgoing \in Packet
  <2>1. talker.recording \in Nat \ {0} /\ talker.generation = GenerationOf(talker.recording)
      BY VoipAssumption DEF TalkerShape, Talkers
  <2>2. talker.generation \in 1..MaxGeneration
      BY <2>1, GenerationInRange
  <2>3. /\ talker.who \in DOMAIN Recordings /\ talker.sequence \in 0..MaxSequence
        /\ talker.pending \in 1..PacketFrames
      BY VoipAssumption DEF TalkerShape, Talkers
  <2> QED
      BY <2>1, <2>2, <2>3 DEF Outgoing, Packet
<1>2. DOMAIN Recordings \subseteq Int
    BY VoipAssumption
<1>3. ASSUME NEW p \in Packet, Recorded(p, talker) PROVE RecordedAfter(Outgoing, p)
    BY <1>2, <1>3 DEF Recorded, RecordedAfter, Outgoing, TalkerShape, Packet, Talkers
<1> QED
    BY <1>1, <1>3 DEF Outgoing, TalkerShape

LEMMA AllRecordedStay ==
  ASSUME NEW t \in Talkers, NEW u \in Talkers, Later(t, u), NEW s, AllRecorded(s, t)
  PROVE  AllRecorded(s, u)
BY RecordedStays DEF AllRecorded

LEMMA QueueUnchanged ==
  ASSUME UNCHANGED voip PROVE Queued(voip)' = Queued(voip)
BY DEF Queued, RingSlot

LEMMA DecoderStays ==
  ASSUME VoipShape, talker \in Talkers, talker' \in Talkers, Later(talker, talker'), DecoderKept,
         UNCHANGED <<voip, listener, snapshot, played>>
  PROVE  DecoderKept'
<1> SUFFICES ASSUME played # NoPacket
             PROVE  /\ listener.generation = played.generation /\ listener.sequence = NextSequence(played)
                    /\ Recorded(played, talker')
                    /\ Precede(<<played>>, snapshot) /\ Precede(<<played>>, Queued(voip))
    BY QueueUnchanged DEF DecoderKept, NextSequence, Precede, RecordedAfter, Recorded
<1>1. played \in Packet
    BY DEF VoipShape
<1> QED
    BY <1>1, RecordedStays DEF DecoderKept

(* A step of the talker alone. *)
LEMMA TalkerStep ==
  ASSUME VoipInd, TalkerShape', Later(talker, talker'), UNCHANGED <<voip, listener, snapshot, played>>
  PROVE  VoipInd'
<1>1. talker \in Talkers /\ talker' \in Talkers
    BY DEF VoipInd, TalkerShape
<1>2. AllRecorded(snapshot, talker') /\ AllRecorded(Queued(voip), talker')
    BY <1>1, AllRecordedStay DEF VoipInd
<1>3. DecoderKept'
    BY <1>1, DecoderStays DEF VoipInd
<1>4. Queued(voip)' = Queued(voip)
    BY QueueUnchanged
<1>5. VoipShape'
    BY DEF VoipInd, VoipShape
<1> QED
    BY <1>2, <1>3, <1>4, <1>5 DEF VoipInd, AllRecorded, InOrder, Precede, RecordedAfter, Recorded

LEMMA TalkersOrder ==
  ASSUME TalkerShape
  PROVE  /\ talker.who \in Nat /\ talker.recording \in Nat /\ talker.sequence \in Nat
         /\ talker.pending \in Nat /\ Later(talker, talker) /\ Recordings[talker.who] \in Nat
<1>1. DOMAIN Recordings \subseteq Nat
    BY VoipAssumption
<1> QED
    BY <1>1, VoipAssumption DEF TalkerShape, Talkers, Later

LEMMA FramesNat == PacketFrames \in Nat \ {0} /\ MaxSequence \in Nat /\ MaxGeneration \in Nat \ {0}
BY VoipAssumption

LEMMA NewGenerationStep ==
  ASSUME VoipInd, CL_VoipNewGeneration PROVE VoipInd'
<1> USE FramesNat
<1> DEFINE r == talker.recording + 1
           g == GenerationOf(r)
<1>0. TalkerShape /\ r \in Nat
    BY TalkersOrder DEF VoipInd
<1>1. talker' = [talker EXCEPT !.generation = g, !.sequence = 0, !.recording = r]
    BY <1>0, TalkersOrder, NextGenerationFollows DEF CL_VoipNewGeneration, TalkerShape
<1>2. r <= Recordings[talker.who]
    BY <1>0, TalkersOrder DEF CL_VoipNewGeneration
<1>3. g \in 0..MaxGeneration
    BY <1>0, GenerationInRange
<1>a. g = GenerationOf(r) /\ r = talker.recording + 1
    OBVIOUS
<1> HIDE DEF g, r
<1>b. talker.pending = 0
    BY DEF CL_VoipNewGeneration
<1>c. talker' = [who |-> talker.who, recording |-> r, generation |-> g, sequence |-> 0, pending |-> 0]
    BY <1>0, <1>1, <1>b DEF TalkerShape, Talkers
<1>4. /\ talker' \in Talkers /\ talker'.recording = r /\ talker'.who = talker.who
      /\ talker'.generation = g /\ talker'.pending = 0
    BY <1>0, <1>c, <1>3 DEF TalkerShape, Talkers
<1>5. TalkerShape'
    BY <1>0, <1>2, <1>4, <1>a DEF TalkerShape
<1>6. Later(talker, talker')
    BY <1>0, <1>4, <1>a, TalkersOrder DEF Later
<1> QED
    BY <1>5, <1>6, TalkerStep DEF CL_VoipNewGeneration

LEMMA CaptureStep ==
  ASSUME VoipInd, NEW frames \in 1..PacketFrames, CL_CaptureVoip(frames) PROVE VoipInd'
<1> USE FramesNat
<1>0. TalkerShape /\ talker' = [talker EXCEPT !.pending = frames] /\ talker.recording > 0
    BY DEF VoipInd, CL_CaptureVoip
<1>1. /\ talker' \in Talkers /\ talker'.recording = talker.recording /\ talker'.who = talker.who
      /\ talker'.generation = talker.generation /\ talker'.sequence = talker.sequence
    BY <1>0 DEF TalkerShape, Talkers
<1>2. TalkerShape'
    BY <1>0, <1>1 DEF TalkerShape
<1>3. Later(talker, talker')
    BY <1>0, <1>1, TalkersOrder DEF Later
<1> QED
    BY <1>2, <1>3, TalkerStep DEF CL_CaptureVoip

LEMMA VoiceDropStep ==
  ASSUME VoipInd, DropVoip PROVE VoipInd'
<1> USE FramesNat
<1>0. TalkerShape /\ talker' = [talker EXCEPT !.pending = 0]
    BY DEF VoipInd, DropVoip
<1>1. /\ talker' \in Talkers /\ talker'.recording = talker.recording /\ talker'.who = talker.who
      /\ talker'.generation = talker.generation /\ talker'.sequence = talker.sequence
      /\ talker'.pending = 0
    BY <1>0 DEF TalkerShape, Talkers
<1>2. TalkerShape'
    BY <1>0, <1>1 DEF TalkerShape
<1>3. Later(talker, talker')
    BY <1>0, <1>1, TalkersOrder DEF Later
<1> QED
    BY <1>2, <1>3, TalkerStep DEF DropVoip

LEMMA TalkerChangesStep ==
  ASSUME VoipInd, TalkerChanges PROVE VoipInd'
<1> USE FramesNat
<1>0. TalkerShape /\ talker' = NewTalker(talker.who + 1) /\ talker.who < Len(Recordings)
    BY DEF VoipInd, TalkerChanges
<1>1. talker.who + 1 \in DOMAIN Recordings /\ Recordings[talker.who + 1] \in Nat
    BY <1>0, TalkersOrder, VoipAssumption
<1> DEFINE w == talker.who + 1
<1>a. talker' = [who |-> w, recording |-> 0, generation |-> 0, sequence |-> 0, pending |-> 0]
    BY <1>0 DEF NewTalker
<1> HIDE DEF w
<1>b. talker' \in Talkers
    BY <1>1, <1>a DEF Talkers, w
<1>2. TalkerShape'
    BY <1>1, <1>a, <1>b DEF TalkerShape, GenerationOf, w
<1>3. Later(talker, talker')
    BY <1>0, TalkersOrder DEF NewTalker, Later
<1> QED
    BY <1>2, <1>3, TalkerStep DEF TalkerChanges

(* The queue grows at its end. *)
LEMMA QueueGrows ==
  ASSUME NEW v \in VoipRecords, HasRoom(v), NEW p \in Packet,
         NEW packet \in [Ring -> Packet \cup {NoPacket}],
         packet[RingSlot(v, v.queued + 1)] = p,
         \A i \in Ring : i # RingSlot(v, v.queued + 1) => packet[i] = v.packet[i],
         NEW w, w = [packet |-> packet, index |-> v.index, queued |-> v.queued + 1]
  PROVE  /\ w \in VoipRecords /\ DOMAIN Queued(w) = 1..v.queued + 1
         /\ Queued(w)[v.queued + 1] = p
         /\ \A k \in 1..v.queued : Queued(w)[k] = Queued(v)[k]
<1> DEFINE q == v.queued
<1>1. /\ v.packet \in [Ring -> Packet \cup {NoPacket}] /\ v.index \in Ring
      /\ q \in Nat /\ q < QueueLength /\ QueueLength \in Nat
    BY VoipAssumption DEF VoipRecords, HasRoom
<1>2. \A k \in 1..q : RingSlot(v, k) # RingSlot(v, q + 1) /\ RingSlot(v, k) \in Ring
    BY <1>1, RingSlotInRing, RingSlotsDiffer
<1>3. \A k \in Nat \ {0} : RingSlot(w, k) = RingSlot(v, k)
    BY DEF RingSlot
<1>4. w \in VoipRecords
    BY <1>1 DEF VoipRecords
<1>5. Queued(w) = [k \in 1..q + 1 |-> packet[RingSlot(w, k)]]
      /\ Queued(v) = [k \in 1..q |-> v.packet[RingSlot(v, k)]]
    BY DEF Queued
<1>6. Queued(w)[q + 1] = p
  <2>1. q + 1 \in 1..q + 1 /\ q + 1 \in Nat \ {0}
      BY <1>1
  <2>2. RingSlot(w, q + 1) = RingSlot(v, q + 1)
      BY <1>3, <2>1
  <2>3. Queued(w)[q + 1] = packet[RingSlot(w, q + 1)]
      BY <1>5, <2>1
  <2> QED
      BY <2>2, <2>3
<1>7. ASSUME NEW k \in 1..q PROVE Queued(w)[k] = Queued(v)[k]
  <2>1. Queued(w)[k] = packet[RingSlot(w, k)] /\ Queued(v)[k] = v.packet[RingSlot(v, k)]
      BY <1>1, <1>5
  <2>2. RingSlot(w, k) = RingSlot(v, k)
      BY <1>1, <1>3
  <2> QED
      BY <1>2, <2>1, <2>2
<1> QED
    BY <1>4, <1>5, <1>6, <1>7

(* What is written leaves from its beginning. *)
LEMMA QueueAdvances ==
  ASSUME NEW v \in VoipRecords, NEW n \in 0..v.queued,
         \A k \in 1..v.queued : Queued(v)[k] \in Packet
  PROVE  /\ Advanced(v, n) \in VoipRecords /\ DOMAIN Queued(Advanced(v, n)) = 1..v.queued - n
         /\ \A k \in 1..v.queued - n : Queued(Advanced(v, n))[k] = Queued(v)[n + k]
<1> DEFINE q == v.queued
           w == Advanced(v, n)
<1>1. /\ v.packet \in [Ring -> Packet \cup {NoPacket}] /\ v.index \in Ring
      /\ q \in 0..QueueLength /\ QueueLength \in Nat \ {0} /\ n \in 0..q
    BY VoipAssumption DEF VoipRecords
<1>2. v.index + n \in Int /\ Ring = 0..QueueLength - 1
    BY <1>1 DEF Ring
<1>3. (v.index + n) % QueueLength \in Ring
    BY <1>1, <1>2, RemainderInRange
<1>4. w = [packet |-> FreedFirst(v, n), index |-> (v.index + n) % QueueLength, queued |-> q - n]
    BY DEF Advanced
<1>5. FreedFirst(v, n) \in [Ring -> Packet \cup {NoPacket}]
    BY <1>1 DEF FreedFirst
<1>6. w \in VoipRecords
    BY <1>1, <1>3, <1>4, <1>5 DEF VoipRecords
<1> HIDE DEF w
<1>7. ASSUME NEW k \in 1..q - n PROVE RingSlot(w, k) = RingSlot(v, n + k)
  <2>1. RingSlot(w, k) = (((v.index + n) % QueueLength) + (k - 1)) % QueueLength
    <3>1. w.index = (v.index + n) % QueueLength
        BY <1>4
    <3>2. w.index \in Int
        BY <1>2, <1>3, <3>1
    <3>3. w.index + k - 1 = w.index + (k - 1)
        BY <1>1, <3>2
    <3> QED
        BY <3>1, <3>3 DEF RingSlot
  <2>2. (((v.index + n) % QueueLength) + (k - 1)) % QueueLength = ((v.index + n) + (k - 1)) % QueueLength
    <3>1. v.index + n \in Int /\ k - 1 \in Int /\ QueueLength \in Nat \ {0}
        BY <1>1, <1>2
    <3> QED
        BY <3>1, RemainderOfSum, Zenon
  <2>3. (v.index + n) + (k - 1) = v.index + (n + k) - 1
      BY <1>1, <1>2
  <2> QED
      BY <2>1, <2>2, <2>3 DEF RingSlot
<1>8. ASSUME NEW k \in 1..q - n PROVE FreedFirst(v, n)[RingSlot(v, n + k)] = v.packet[RingSlot(v, n + k)]
  <2>1. n + k \in Nat \ {0}
      BY <1>1
  <2>2. RingSlot(v, n + k) \in Ring
      BY <1>1, <2>1, RingSlotInRing
  <2>3. ASSUME NEW j \in 1..n PROVE RingSlot(v, j) # RingSlot(v, n + k)
    <3>1. j \in Nat \ {0} /\ j < n + k /\ (n + k) - j < QueueLength
        BY <1>1
    <3> QED
        BY <1>1, <2>1, <3>1, RingSlotsDiffer
  <2> QED
      BY <2>2, <2>3 DEF FreedFirst
<1>9. Queued(w) = [k \in 1..q - n |-> FreedFirst(v, n)[RingSlot(w, k)]]
    BY <1>4 DEF Queued
<1>10. ASSUME NEW k \in 1..q - n PROVE Queued(w)[k] = Queued(v)[n + k]
  <2>1. n + k \in 1..q
      BY <1>1
  <2>2. Queued(v)[n + k] = v.packet[RingSlot(v, n + k)]
      BY <2>1 DEF Queued
  <2>3. Queued(w)[k] = FreedFirst(v, n)[RingSlot(w, k)]
      BY <1>9
  <2> QED
      BY <2>2, <2>3, <1>7, <1>8
<1> QED
    BY <1>6, <1>9, <1>10 DEF w

(* What precedes the queue. *)
LEMMA VoiceSendStep ==
  ASSUME VoipInd, NEW heard \in BOOLEAN, SendVoip(heard) PROVE VoipInd'
<1> DEFINE sequence == talker.sequence + talker.pending
<1>0. /\ TalkerShape /\ VoipShape /\ talker.pending > 0 /\ sequence <= MaxSequence
      /\ talker' = [talker EXCEPT !.sequence = sequence, !.pending = 0]
      /\ UNCHANGED <<listener, snapshot, played>>
    BY DEF VoipInd, SendVoip
<1>1. sequence \in 0..MaxSequence /\ sequence > talker.sequence /\ talker.sequence \in Nat
      /\ talker.who \in Nat /\ talker.recording \in Nat
    BY <1>0, FramesNat, TalkersOrder
<1> HIDE DEF sequence
<1>2. talker' = [who |-> talker.who, recording |-> talker.recording, generation |-> talker.generation,
                 sequence |-> sequence, pending |-> 0]
    BY <1>0 DEF TalkerShape, Talkers
<1>3. talker' \in Talkers /\ talker \in Talkers
    BY <1>0, <1>1, <1>2, FramesNat DEF TalkerShape, Talkers
<1>4. TalkerShape'
    BY <1>0, <1>2, <1>3 DEF TalkerShape
<1>5. Later(talker, talker')
    BY <1>1, <1>2 DEF Later
<1>6. /\ Outgoing \in Packet /\ Recorded(Outgoing, talker')
      /\ \A p \in Packet : Recorded(p, talker) => RecordedAfter(Outgoing, p)
  <2>1. /\ Outgoing \in Packet /\ Outgoing.generation = GenerationOf(Outgoing.recording)
        /\ \A p \in Packet : Recorded(p, talker) => RecordedAfter(Outgoing, p)
      BY <1>0, <1>1, OutgoingIsNext DEF sequence
  <2> QED
      BY <1>1, <1>2, <2>1 DEF Recorded, Outgoing, sequence
<1>7. CASE UNCHANGED voip
  <2>1. AllRecorded(snapshot, talker') /\ AllRecorded(Queued(voip), talker')
      BY <1>3, <1>5, AllRecordedStay DEF VoipInd
  <2>2. DecoderKept'
      BY <1>0, <1>3, <1>5, <1>7, DecoderStays DEF VoipInd
  <2>3. Queued(voip)' = Queued(voip)
      BY <1>7, QueueUnchanged
  <2>4. VoipShape'
      BY <1>0, <1>7 DEF VoipShape
  <2> QED
      BY <1>0, <1>4, <1>7, <2>1, <2>2, <2>3, <2>4 DEF VoipInd, AllRecorded, InOrder, Precede, RecordedAfter, Recorded
<1>8. CASE HasRoom(voip) /\ voip' = [voip EXCEPT !.packet[RingSlot(voip, voip.queued + 1)] = Outgoing, !.queued = @ + 1]
  <2> DEFINE place == RingSlot(voip, voip.queued + 1)
             packet == [voip.packet EXCEPT ![place] = Outgoing]
             q == voip.queued
  <2>1. voip \in VoipRecords /\ voip.packet \in [Ring -> Packet \cup {NoPacket}] /\ voip.index \in Ring /\ q \in Nat
      BY <1>0, VoipAssumption DEF VoipShape, VoipRecords
  <2>2. place \in Ring
      BY <2>1, RingSlotInRing
  <2>3. voip' = [packet |-> packet, index |-> voip.index, queued |-> q + 1]
      BY <1>8, <2>1 DEF VoipRecords
  <2> HIDE DEF place
  <2>4. /\ packet \in [Ring -> Packet \cup {NoPacket}] /\ packet[place] = Outgoing
        /\ \A i \in Ring : i # place => packet[i] = voip.packet[i]
      BY <1>6, <2>1, <2>2
  <2> HIDE DEF packet
  <2>5. /\ voip' \in VoipRecords /\ DOMAIN Queued(voip') = 1..q + 1
        /\ Queued(voip')[q + 1] = Outgoing
        /\ \A k \in 1..q : Queued(voip')[k] = Queued(voip)[k]
    <3>1. packet[RingSlot(voip, voip.queued + 1)] = Outgoing
        BY <2>4 DEF place
    <3>2. \A i \in Ring : i # RingSlot(voip, voip.queued + 1) => packet[i] = voip.packet[i]
        BY <2>4 DEF place
    <3>3. HasRoom(voip) /\ voip \in VoipRecords /\ Outgoing \in Packet
          /\ packet \in [Ring -> Packet \cup {NoPacket}]
        BY <1>6, <1>8, <2>1, <2>4
    <3>4. voip' = [packet |-> packet, index |-> voip.index, queued |-> voip.queued + 1]
        BY <2>3
    <3>5. /\ voip' \in VoipRecords /\ DOMAIN Queued(voip') = 1..voip.queued + 1
          /\ Queued(voip')[voip.queued + 1] = Outgoing
          /\ \A k \in 1..voip.queued : Queued(voip')[k] = Queued(voip)[k]
      <4> HIDE DEF q
      <4> QED
        BY <3>1, <3>2, <3>3, <3>4, QueueGrows
    <3> QED
        BY <3>5
  <2>6. DOMAIN Queued(voip) = 1..q
      BY DEF Queued
  <2> HIDE DEF q
  <2>7. VoipShape'
      BY <1>0, <2>5 DEF VoipShape
  <2>8. \A k \in 1..q : Queued(voip)[k] \in Packet /\ Recorded(Queued(voip)[k], talker)
      BY <2>6 DEF VoipInd, AllRecorded
  <2>9. AllRecorded(snapshot, talker') /\ AllRecorded(Queued(voip), talker')
      BY <1>3, <1>5, AllRecordedStay DEF VoipInd
  <2>10. \A k \in 1..q + 1 : k \in 1..q \/ k = q + 1
      BY <2>1 DEF q
  <2>11. AllRecorded(Queued(voip'), talker')
      BY <1>6, <2>5, <2>6, <2>9, <2>10 DEF AllRecorded
  <2>12. InOrder(Queued(voip'))
    <3> SUFFICES ASSUME NEW i \in 1..q + 1, NEW j \in 1..q + 1, i < j
                 PROVE  RecordedAfter(Queued(voip')[j], Queued(voip')[i])
        BY <2>5 DEF InOrder
    <3>1. i \in 1..q
        BY <2>1 DEF q
    <3>2. CASE j \in 1..q
        BY <2>5, <2>6, <3>1, <3>2 DEF VoipInd, InOrder
    <3>3. CASE j = q + 1
        BY <1>6, <2>5, <2>8, <3>1, <3>3
    <3> QED
        BY <2>10, <3>2, <3>3
  <2>13. ASSUME NEW s, \A i \in DOMAIN s : s[i] \in Packet /\ Recorded(s[i], talker), Precede(s, Queued(voip))
         PROVE  Precede(s, Queued(voip'))
    <3> SUFFICES ASSUME NEW i \in DOMAIN s, NEW j \in 1..q + 1
                 PROVE  RecordedAfter(Queued(voip')[j], s[i])
        BY <2>5 DEF Precede
    <3>1. CASE j \in 1..q
        BY <2>5, <2>6, <2>13, <3>1 DEF Precede
    <3>2. CASE j = q + 1
        BY <1>6, <2>5, <2>13, <3>2
    <3> QED
        BY <2>10, <3>1, <3>2
  <2>14. Precede(snapshot, Queued(voip'))
      BY <2>13 DEF VoipInd, AllRecorded
  <2>15. DecoderKept'
    <3> SUFFICES ASSUME played # NoPacket
                 PROVE  /\ listener.generation = played.generation /\ listener.sequence = NextSequence(played)
                        /\ Recorded(played, talker')
                        /\ Precede(<<played>>, snapshot) /\ Precede(<<played>>, Queued(voip'))
        BY <1>0 DEF DecoderKept, NextSequence, Precede, RecordedAfter, Recorded
    <3>1. played \in Packet /\ Recorded(played, talker) /\ Precede(<<played>>, Queued(voip))
        BY <1>0 DEF VoipInd, DecoderKept, VoipShape
    <3>2. Recorded(played, talker')
        BY <1>3, <1>5, <3>1, RecordedStays
    <3>3. Precede(<<played>>, Queued(voip'))
        BY <2>13, <3>1
    <3> QED
        BY <3>2, <3>3 DEF VoipInd, DecoderKept
  <2> QED
      BY <1>0, <1>4, <2>7, <2>9, <2>11, <2>12, <2>14, <2>15 DEF VoipInd
<1> QED
    BY <1>7, <1>8 DEF SendVoip, SV_UserVoip

LEMMA WriteStep ==
  ASSUME VoipInd, NEW n \in 0..voip.queued, NEW comes \in BOOLEAN, SV_WriteVoipToClient(n, comes)
  PROVE  VoipInd'
<1> DEFINE q == voip.queued
           Q == Queued(voip)
           R == Queued(voip')
<1>1. /\ TalkerShape /\ VoipShape /\ voip' = Advanced(voip, n)
      /\ snapshot' = SubSeq(Q, 1, n) \/ snapshot' = <<>>
      /\ UNCHANGED <<talker, listener, played>>
    BY DEF VoipInd, SV_WriteVoipToClient
<1>2. voip \in VoipRecords /\ q \in Nat /\ n \in 0..q
    BY <1>1, VoipAssumption DEF VoipShape, VoipRecords
<1>3. DOMAIN Q = 1..q /\ \A k \in 1..q : Q[k] \in Packet /\ Recorded(Q[k], talker)
    BY DEF VoipInd, AllRecorded, Queued
<1>4. /\ voip' \in VoipRecords /\ DOMAIN R = 1..q - n
      /\ \A k \in 1..q - n : R[k] = Q[n + k]
    BY <1>1, <1>2, <1>3, QueueAdvances
<1>5. Q = [k \in 1..q |-> Q[k]]
    BY DEF Queued
<1> HIDE DEF q, Q, R
<1>6. Q \in Seq(Packet) /\ Len(Q) = q
    BY <1>2, <1>3, <1>5
<1>7. /\ snapshot' \in Seq(Packet) /\ DOMAIN snapshot' \subseteq 1..n
      /\ \A k \in DOMAIN snapshot' : snapshot'[k] = Q[k]
  <2>1. CASE snapshot' = <<>>
      BY <2>1
  <2>2. CASE snapshot' = SubSeq(Q, 1, n)
      BY <1>2, <1>6, <2>2
  <2> QED
      BY <1>1, <2>1, <2>2
<1>8. /\ \A k \in DOMAIN snapshot' : k \in 1..q /\ k \in 1..n
      /\ \A k \in 1..q - n : n + k \in 1..q
    BY <1>2, <1>7
<1>9. InOrder(Q)
    BY DEF VoipInd, Q
<1>10. TalkerShape' /\ VoipShape'
  <2>1. TalkerShape'
      BY <1>1 DEF TalkerShape
  <2> QED
      BY <1>1, <1>4, <1>7, <2>1 DEF VoipShape
<1>11. AllRecorded(snapshot', talker) /\ AllRecorded(R, talker)
    BY <1>3, <1>4, <1>7, <1>8 DEF AllRecorded
<1>12. InOrder(snapshot')
  <2> SUFFICES ASSUME NEW i \in DOMAIN snapshot', NEW j \in DOMAIN snapshot', i < j
               PROVE  RecordedAfter(snapshot'[j], snapshot'[i])
      BY DEF InOrder
  <2> QED
      BY <1>3, <1>7, <1>8, <1>9 DEF InOrder
<1>13. InOrder(R)
  <2> SUFFICES ASSUME NEW i \in 1..q - n, NEW j \in 1..q - n, i < j
               PROVE  RecordedAfter(R[j], R[i])
      BY <1>4 DEF InOrder
  <2>1. n + i < n + j /\ n + i \in DOMAIN Q /\ n + j \in DOMAIN Q
      BY <1>2, <1>3, <1>8
  <2> QED
      BY <1>4, <1>9, <2>1 DEF InOrder
<1>14. Precede(snapshot', R)
  <2> SUFFICES ASSUME NEW i \in DOMAIN snapshot', NEW j \in 1..q - n
               PROVE  RecordedAfter(R[j], snapshot'[i])
      BY <1>4 DEF Precede
  <2>1. i < n + j /\ i \in DOMAIN Q /\ n + j \in DOMAIN Q
      BY <1>2, <1>3, <1>8
  <2> QED
      BY <1>4, <1>7, <1>9, <2>1 DEF InOrder
<1>15. DecoderKept'
  <2> SUFFICES ASSUME played # NoPacket
               PROVE  /\ listener.generation = played.generation /\ listener.sequence = NextSequence(played)
                      /\ Recorded(played, talker)
                      /\ Precede(<<played>>, snapshot') /\ Precede(<<played>>, R)
      BY <1>1 DEF DecoderKept, NextSequence, Precede, RecordedAfter, Recorded, R
  <2>1. Precede(<<played>>, Q)
      BY DEF VoipInd, DecoderKept, Q
  <2>2. \A k \in 1..q : RecordedAfter(Q[k], played)
      BY <1>3, <2>1 DEF Precede
  <2>3. Precede(<<played>>, snapshot') /\ Precede(<<played>>, R)
      BY <1>4, <1>7, <1>8, <2>2 DEF Precede
  <2> QED
      BY <2>3 DEF VoipInd, DecoderKept
<1> QED
    BY <1>1, <1>10, <1>11, <1>12, <1>13, <1>14, <1>15 DEF VoipInd, R

LEMMA VoiceParseStep ==
  ASSUME VoipInd, NEW ignored \in BOOLEAN, CL_ParseVoip(ignored)
  PROVE  VoipInd'
<1> DEFINE p == Head(snapshot)
<1>1. /\ TalkerShape /\ VoipShape /\ snapshot # <<>> /\ snapshot' = Tail(snapshot)
      /\ UNCHANGED <<talker, voip>>
    BY DEF VoipInd, CL_ParseVoip
<1>2. /\ p \in Packet /\ p = snapshot[1] /\ 1 \in DOMAIN snapshot /\ snapshot' \in Seq(Packet)
      /\ \A i \in DOMAIN snapshot' : /\ snapshot'[i] = snapshot[i + 1] /\ i + 1 \in DOMAIN snapshot
                                      /\ i \in Nat /\ 1 < i + 1
    BY <1>1 DEF VoipShape
<1> HIDE DEF p
<1>3. Queued(voip)' = Queued(voip)
    BY <1>1, QueueUnchanged
<1>4. TalkerShape'
    BY <1>1 DEF TalkerShape
<1>5. AllRecorded(snapshot', talker)
    BY <1>2 DEF VoipInd, AllRecorded
<1>6. InOrder(snapshot')
  <2> SUFFICES ASSUME NEW i \in DOMAIN snapshot', NEW j \in DOMAIN snapshot', i < j
               PROVE  RecordedAfter(snapshot'[j], snapshot'[i])
      BY DEF InOrder
  <2>1. i + 1 < j + 1
      BY <1>2
  <2> QED
      BY <1>2, <2>1 DEF VoipInd, InOrder
<1>7. Precede(snapshot', Queued(voip))
    BY <1>2 DEF VoipInd, Precede
<1>8. Precede(<<p>>, snapshot') /\ Precede(<<p>>, Queued(voip)) /\ Recorded(p, talker)
  <2>1. \A i \in DOMAIN snapshot' : RecordedAfter(snapshot'[i], p)
      BY <1>2 DEF VoipInd, InOrder
  <2>2. \A j \in DOMAIN Queued(voip) : RecordedAfter(Queued(voip)[j], p)
      BY <1>2 DEF VoipInd, Precede
  <2> QED
      BY <1>2, <2>1, <2>2 DEF Precede, VoipInd, AllRecorded
<1>9. CASE UNCHANGED <<listener, played>>
  <2>1. VoipShape'
      BY <1>1, <1>2, <1>9 DEF VoipShape
  <2>2. DecoderKept'
    <3> SUFFICES ASSUME played # NoPacket
                 PROVE  /\ listener.generation = played.generation /\ listener.sequence = NextSequence(played)
                        /\ Recorded(played, talker)
                        /\ Precede(<<played>>, snapshot') /\ Precede(<<played>>, Queued(voip))
        BY <1>1, <1>3, <1>9 DEF DecoderKept, NextSequence, Precede, RecordedAfter, Recorded
    <3> QED
        BY <1>2 DEF VoipInd, DecoderKept, Precede
  <2> QED
      BY <1>1, <1>3, <1>4, <1>5, <1>6, <1>7, <2>1, <2>2 DEF VoipInd
<1>10. CASE /\ listener' = [listener EXCEPT !.generation = p.generation, !.sequence = NextSequence(p)]
            /\ played' = p
  <2>1. p.generation \in 0..MaxGeneration /\ NextSequence(p) \in Nat
      BY <1>2, VoipAssumption DEF Packet, NextSequence
  <2>2. listener' \in [here : BOOLEAN, downloading : BOOLEAN, generation : 0..MaxGeneration, sequence : Nat]
        /\ listener'.generation = p.generation /\ listener'.sequence = NextSequence(p)
      BY <1>1, <1>10, <2>1 DEF VoipShape
  <2>3. VoipShape'
      BY <1>1, <1>2, <1>10, <2>2 DEF VoipShape
  <2>4. DecoderKept'
      BY <1>1, <1>3, <1>8, <1>10, <2>2 DEF DecoderKept, NextSequence, Precede, RecordedAfter, Recorded
  <2> QED
      BY <1>1, <1>3, <1>4, <1>5, <1>6, <1>7, <2>3, <2>4 DEF VoipInd
<1> QED
    BY <1>9, <1>10 DEF CL_ParseVoip, p

LEMMA NothingQueued ==
  ASSUME NEW v, v.queued = 0
  PROVE  /\ \A t : AllRecorded(Queued(v), t)
         /\ InOrder(Queued(v)) /\ \A s : Precede(s, Queued(v))
<1>1. DOMAIN Queued(v) = {}
    BY DEF Queued
<1> QED
    BY <1>1 DEF AllRecorded, InOrder, Precede

LEMMA NothingSent ==
  /\ \A t : AllRecorded(<<>>, t)
  /\ InOrder(<<>>) /\ \A s : Precede(<<>>, s) /\ Precede(s, <<>>)
BY DEF AllRecorded, InOrder, Precede

LEMMA FreeClientStep ==
  ASSUME VoipInd, SV_FreeClient PROVE VoipInd'
<1>1. /\ TalkerShape /\ VoipShape /\ voip' = [voip EXCEPT !.packet = Freed(voip), !.queued = 0]
      /\ listener' = [listener EXCEPT !.here = FALSE, !.downloading = FALSE] /\ snapshot' = <<>>
      /\ UNCHANGED <<talker, played>>
    BY DEF VoipInd, SV_FreeClient
<1> DEFINE f == Freed(voip)
<1>2. f \in [Ring -> Packet \cup {NoPacket}]
    BY <1>1 DEF VoipShape, VoipRecords, Freed
<1> HIDE DEF f
<1>3. voip' = [packet |-> f, index |-> voip.index, queued |-> 0]
    BY <1>1 DEF VoipShape, VoipRecords, f
<1>4. voip' \in VoipRecords /\ voip'.queued = 0
    BY <1>1, <1>2, <1>3, VoipAssumption DEF VoipShape, VoipRecords
<1>5. /\ listener' \in [here : BOOLEAN, downloading : BOOLEAN, generation : 0..MaxGeneration, sequence : Nat]
      /\ listener'.generation = listener.generation /\ listener'.sequence = listener.sequence
    BY <1>1 DEF VoipShape
<1>6. TalkerShape' /\ VoipShape'
  <2>1. TalkerShape'
      BY <1>1 DEF TalkerShape
  <2> QED
      BY <1>1, <1>4, <1>5, <2>1 DEF VoipShape
<1>7. DecoderKept'
  <2>1. played # NoPacket => /\ listener.generation = played.generation
                            /\ listener.sequence = NextSequence(played) /\ Recorded(played, talker)
      BY DEF VoipInd, DecoderKept
  <2> QED
      BY <1>1, <1>4, <1>5, <2>1, NothingQueued, NothingSent DEF DecoderKept, NextSequence, Recorded
<1> QED
    BY <1>1, <1>4, <1>6, <1>7, NothingQueued, NothingSent DEF VoipInd

LEMMA EmptyVoipShape ==
  EmptyVoip \in VoipRecords /\ EmptyVoip.queued = 0
<1>1. [i \in Ring |-> NoPacket] \in [Ring -> Packet \cup {NoPacket}]
    OBVIOUS
<1>2. 0 \in Ring /\ 0 \in 0..QueueLength
    BY VoipAssumption DEF Ring
<1> QED
    BY <1>1, <1>2 DEF EmptyVoip, VoipRecords

LEMMA ConnectsStep ==
  ASSUME VoipInd, ListenerConnects PROVE VoipInd'
<1>1. /\ TalkerShape /\ voip' = EmptyVoip /\ snapshot' = <<>> /\ played' = NoPacket /\ UNCHANGED talker
      /\ listener' = [here |-> TRUE, downloading |-> FALSE, generation |-> 0, sequence |-> 0]
    BY DEF VoipInd, ListenerConnects
<1>2. TalkerShape'
    BY <1>1 DEF TalkerShape
<1>3. listener' \in [here : BOOLEAN, downloading : BOOLEAN, generation : 0..MaxGeneration, sequence : Nat]
    BY <1>1, FramesNat
<1>4. VoipShape'
    BY <1>1, <1>3, EmptyVoipShape DEF VoipShape
<1>5. DecoderKept'
    BY <1>1 DEF DecoderKept
<1> QED
    BY <1>1, <1>2, <1>4, <1>5, EmptyVoipShape, NothingQueued, NothingSent DEF VoipInd

LEMMA VoiceDownloadStep ==
  ASSUME VoipInd, DownloadChanges PROVE VoipInd'
<1>1. /\ TalkerShape /\ VoipShape /\ listener' = [listener EXCEPT !.downloading = ~@]
      /\ UNCHANGED <<talker, voip, snapshot, played>>
    BY DEF VoipInd, DownloadChanges
<1>2. /\ listener' \in [here : BOOLEAN, downloading : BOOLEAN, generation : 0..MaxGeneration, sequence : Nat]
      /\ listener'.generation = listener.generation /\ listener'.sequence = listener.sequence
    BY <1>1 DEF VoipShape
<1>3. TalkerShape' /\ VoipShape'
  <2>1. TalkerShape'
      BY <1>1 DEF TalkerShape
  <2> QED
      BY <1>1, <1>2, <2>1 DEF VoipShape
<1>4. Queued(voip)' = Queued(voip)
    BY <1>1, QueueUnchanged
<1>5. DecoderKept'
    BY <1>1, <1>2, <1>4 DEF VoipInd, DecoderKept, NextSequence, Precede, RecordedAfter, Recorded
<1> QED
    BY <1>1, <1>3, <1>4, <1>5 DEF VoipInd, AllRecorded, InOrder, Precede, RecordedAfter, Recorded

LEMMA VoipInitInd ==
  ASSUME VoipInit PROVE VoipInd
<1>1. 1 \in DOMAIN Recordings /\ Recordings[1] \in Nat
    BY VoipAssumption
<1>2. TalkerShape
    BY <1>1, FramesNat DEF VoipInit, NewTalker, TalkerShape, Talkers, GenerationOf
<1>3. listener \in [here : BOOLEAN, downloading : BOOLEAN, generation : 0..MaxGeneration, sequence : Nat]
    BY FramesNat DEF VoipInit
<1>4. VoipShape
    BY <1>3, EmptyVoipShape DEF VoipInit, VoipShape
<1>5. DecoderKept
    BY DEF VoipInit, DecoderKept
<1> QED
    BY <1>2, <1>4, <1>5, EmptyVoipShape, NothingQueued, NothingSent DEF VoipInd, VoipInit

LEMMA VoipNextInd ==
  ASSUME VoipInd, [VoipNext]_voipVars PROVE VoipInd'
<1>1. CASE UNCHANGED voipVars
  <2>1. UNCHANGED <<talker, voip, listener, snapshot, played>>
      BY <1>1 DEF voipVars
  <2>2. TalkerShape' /\ Later(talker, talker')
      BY <2>1, TalkersOrder DEF VoipInd, TalkerShape
  <2> QED
      BY <2>1, <2>2, TalkerStep
<1>2. CASE VoipNext
    BY <1>2, NewGenerationStep, CaptureStep, VoiceSendStep, VoiceDropStep, WriteStep, VoiceParseStep, TalkerChangesStep,
       FreeClientStep, ConnectsStep, VoiceDownloadStep DEF VoipNext
<1> QED
    BY <1>1, <1>2

LEMMA VoipInvariant == VoipSpec => []VoipInd
<1> QED
    BY VoipInitInd, VoipNextInd, PTL DEF VoipSpec

(* The queue, what is on the way and what is pending, one after another. *)
LEMMA OneAfterAnother ==
  ASSUME NEW s \in Seq(Packet), NEW t \in Seq(Packet), InOrder(s), InOrder(t), Precede(s, t)
  PROVE  /\ s \o t \in Seq(Packet) /\ InOrder(s \o t)
         /\ \A u \in Seq(Packet) : Precede(s, u) /\ Precede(t, u) => Precede(s \o t, u)
<1> DEFINE w == s \o t
<1>1. /\ w \in Seq(Packet) /\ Len(w) = Len(s) + Len(t) /\ DOMAIN w = 1..Len(s) + Len(t)
      /\ \A i \in DOMAIN s : w[i] = s[i]
      /\ \A i \in DOMAIN w : i \notin DOMAIN s => w[i] = t[i - Len(s)] /\ i - Len(s) \in DOMAIN t
    OBVIOUS
<1>2. DOMAIN s = 1..Len(s) /\ Len(s) \in Nat /\ Len(t) \in Nat
    OBVIOUS
<1> HIDE DEF w
<1>3. ASSUME NEW i \in DOMAIN w, NEW j \in DOMAIN w, i < j PROVE RecordedAfter(w[j], w[i])
  <2>1. CASE i \in DOMAIN s /\ j \in DOMAIN s
      BY <1>1, <1>3, <2>1 DEF InOrder
  <2>2. CASE i \in DOMAIN s /\ j \notin DOMAIN s
      BY <1>1, <2>2 DEF Precede
  <2>3. CASE i \notin DOMAIN s
    <3>1. j \notin DOMAIN s /\ i - Len(s) < j - Len(s)
        BY <1>1, <1>2, <1>3, <2>3
    <3> QED
        BY <1>1, <2>3, <3>1 DEF InOrder
  <2> QED
      BY <2>1, <2>2, <2>3
<1>4. InOrder(w)
    BY <1>3 DEF InOrder
<1>5. ASSUME NEW u \in Seq(Packet), Precede(s, u), Precede(t, u) PROVE Precede(w, u)
    BY <1>1, <1>5 DEF Precede
<1> QED
    BY <1>1, <1>4, <1>5 DEF w

LEMMA NothingOrOne ==
  ASSUME NEW p \in Packet
  PROVE  <<p>> \in Seq(Packet) /\ InOrder(<<p>>) /\ <<>> \in Seq(Packet) /\ InOrder(<<>>)
BY DEF InOrder

LEMMA NoneInSeq == <<>> \in Seq(Packet)
OBVIOUS

LEMMA RelayHolds ==
  ASSUME VoipInd PROVE RelayInv
<1> DEFINE Q == Queued(voip)
           P == IF played = NoPacket THEN <<>> ELSE <<played>>
           O == IF talker.pending = 0 THEN <<>> ELSE <<Outgoing>>
<1>1. TalkerShape /\ VoipShape
    BY DEF VoipInd
<1>2. DOMAIN Q = 1..voip.queued /\ voip.queued \in Nat /\ Q = [k \in 1..voip.queued |-> Q[k]]
    BY <1>1, VoipAssumption DEF Queued, VoipShape, VoipRecords
<1>3. \A k \in 1..voip.queued : Q[k] \in Packet /\ Recorded(Q[k], talker)
    BY <1>2 DEF VoipInd, AllRecorded
<1>4. \A i \in DOMAIN snapshot : snapshot[i] \in Packet /\ Recorded(snapshot[i], talker)
    BY DEF VoipInd, AllRecorded
<1>5. VoipTypeOK
  <2>1. /\ talker.who \in DOMAIN Recordings /\ talker.recording \in 0..Recordings[talker.who]
        /\ talker.generation \in 0..MaxGeneration /\ talker.sequence \in Nat
        /\ talker.pending \in 0..PacketFrames
      BY <1>1, TalkersOrder, FramesNat DEF TalkerShape, Talkers
  <2>2. /\ \A i \in Ring : voip.packet[i] = NoPacket \/ voip.packet[i] \in Packet
        /\ voip.index \in Ring /\ voip.queued \in 0..QueueLength
      BY <1>1 DEF VoipShape, VoipRecords
  <2> QED
      BY <1>1, <1>4, <2>1, <2>2 DEF VoipTypeOK, VoipShape
<1> HIDE DEF Q
<1>6. Q \in Seq(Packet) /\ InOrder(Q) /\ Precede(snapshot, Q)
    BY <1>2, <1>3 DEF VoipInd, Q
<1>7. snapshot \in Seq(Packet) /\ InOrder(snapshot)
    BY <1>1 DEF VoipInd, VoipShape
<1>8. P \in Seq(Packet) /\ InOrder(P) /\ Precede(P, snapshot) /\ Precede(P, Q)
  <2>1. CASE played = NoPacket
      BY <2>1, NothingSent
  <2>2. CASE played # NoPacket
      BY <1>1, <2>2, NothingOrOne DEF VoipInd, DecoderKept, Q, VoipShape
  <2> QED
      BY <2>1, <2>2
<1>9. O \in Seq(Packet) /\ InOrder(O) /\ Precede(P, O) /\ Precede(snapshot, O) /\ Precede(Q, O)
  <2>1. CASE talker.pending = 0
      BY <2>1, NothingSent, NoneInSeq
  <2>2. CASE talker.pending # 0
    <3>1. Outgoing \in Packet /\ \A p \in Packet : Recorded(p, talker) => RecordedAfter(Outgoing, p)
        BY <1>1, <2>2, TalkersOrder, OutgoingIsNext
    <3>2. Precede(snapshot, <<Outgoing>>) /\ Precede(Q, <<Outgoing>>)
        BY <1>2, <1>3, <1>4, <3>1 DEF Precede
    <3>3. Precede(P, <<Outgoing>>)
      <4>1. CASE played = NoPacket
          BY <4>1, NothingSent
      <4>2. CASE played # NoPacket
          BY <1>1, <3>1, <4>2 DEF VoipInd, DecoderKept, VoipShape, Precede
      <4> QED
          BY <4>1, <4>2
    <3> QED
        BY <2>2, <3>1, <3>2, <3>3, NothingOrOne
  <2> QED
      BY <2>1, <2>2
<1> HIDE DEF P, O
<1>10. P \o snapshot \in Seq(Packet) /\ InOrder(P \o snapshot)
       /\ Precede(P \o snapshot, Q) /\ Precede(P \o snapshot, O)
    BY <1>6, <1>7, <1>8, <1>9, OneAfterAnother
<1> DEFINE A == P \o snapshot
<1> HIDE DEF A
<1>11. A \o Q \in Seq(Packet) /\ InOrder(A \o Q) /\ Precede(A \o Q, O)
    BY <1>6, <1>9, <1>10, OneAfterAnother DEF A
<1> DEFINE B == A \o Q
<1> HIDE DEF B
<1>12. InOrder(B \o O)
    BY <1>9, <1>11, OneAfterAnother DEF B
<1>13. \A k \in 1..voip.queued : Q[k] # NoPacket
    BY <1>3, VoipAssumption
<1> QED
    BY <1>5, <1>12, <1>13 DEF RelayInv, A, B, P, O, Q

LEMMA DecodedHolds ==
  ASSUME VoipInd PROVE DecodedRight
<1> DEFINE p == Head(snapshot)
           missing == p.sequence - (played.sequence + played.frames)
<1> SUFFICES ASSUME snapshot # <<>>, played # NoPacket, p.who = played.who,
                    p.recording - played.recording < MaxGeneration
             PROVE  IF p.recording = played.recording /\ missing < DecodedPackets
                    THEN Continues(p) /\ Difference(p) = missing
                    ELSE ~Continues(p)
    BY DEF DecodedRight
<1>1. /\ p \in Packet /\ played \in Packet /\ RecordedAfter(p, played)
      /\ p.generation = GenerationOf(p.recording) /\ played.generation = GenerationOf(played.recording)
      /\ listener.generation = played.generation /\ listener.sequence = NextSequence(played)
  <2>1. p = snapshot[1] /\ 1 \in DOMAIN snapshot
      BY DEF VoipInd, VoipShape
  <2> QED
      BY <2>1 DEF VoipInd, VoipShape, AllRecorded, Recorded, DecoderKept, Precede
<1> HIDE DEF p
<1>2. /\ p.sequence \in Int /\ played.sequence \in Int /\ played.frames \in Int /\ p.who \in Int
      /\ p.recording \in Nat \ {0} /\ played.recording \in Nat \ {0} /\ DecodedPackets \in Nat
    BY <1>1, VoipAssumption DEF Packet
<1>3. CASE p.recording = played.recording
  <2>1. missing >= 0 /\ Difference(p) = missing /\ p.generation = listener.generation
      BY <1>1, <1>2, <1>3 DEF RecordedAfter, Difference, NextSequence
  <2> QED
      BY <1>2, <1>3, <2>1 DEF Continues
<1>4. CASE p.recording # played.recording
  <2>1. played.recording < p.recording
      BY <1>1, <1>2, <1>4 DEF RecordedAfter
  <2>2. p.generation # listener.generation
      BY <1>1, <1>2, <2>1, GenerationsDiffer
  <2> QED
      BY <1>4, <2>2 DEF Continues
<1> QED
    BY <1>3, <1>4

(* The packets kept for a listener are in memory, in the order of their    *)
(* recording and after all that went on before, whatever finds no room or  *)
(* is lost (SV_UserVoip, SV_WriteVoipToClient).                            *)
THEOREM VoiceRelayedInOrder == VoipSpec => []RelayInv
<1> QED
    BY VoipInvariant, RelayHolds, PTL

(* The decoder goes on from packet to packet within a recording, with the  *)
(* frames that are missing concealed, and else begins anew (CL_ParseVoip), *)
(* for rings, generations and packets of any size.                         *)
THEOREM VoiceDecodedRight == VoipSpec => []DecodedRight
<1> QED
    BY VoipInvariant, DecodedHolds, PTL

-----------------------------------------------------------------------------
(* Rates. *)

(* The chains are links between buckets, whatever these count, so what is  *)
(* said of them is said of any buckets bs and heads ch.                    *)
Bucket == [address : Addresses \cup {Unused}, lastTime : Int, burst : 0..Burst,
           hash : Hashes \cup {None}, prev : Numbers \cup {None}, next : Numbers \cup {None}]

BucketsTyped(bs, ch) ==
    /\ bs \in [Numbers -> Bucket] /\ ch \in [Hashes -> Numbers \cup {None}]
    /\ \A b \in Numbers : IF bs[b].address = Unused THEN bs[b] = EmptyBucket
                          ELSE bs[b].hash = HashFor[bs[b].address]

Used(bs, b) == b \in Numbers /\ bs[b].address # Unused

(* Links lead to and fro between buckets of one hash, and no chain begins  *)
(* in the middle. *)
Linked(bs, ch) ==
    /\ \A b, c \in Numbers : Used(bs, b) /\ bs[b].next = c
                                => Used(bs, c) /\ bs[c].prev = b /\ bs[c].hash = bs[b].hash
    /\ \A b, c \in Numbers : Used(bs, b) /\ bs[b].prev = c => Used(bs, c) /\ bs[c].next = b
    /\ \A h \in Hashes, b \in Numbers : ch[h] = b => Used(bs, b) /\ bs[b].hash = h /\ bs[b].prev = None
    /\ \A b \in Numbers : Used(bs, b) /\ bs[b].prev = None => ch[bs[b].hash] = b

(* Whatever the links do not lead out of holds all buckets of the hash.    *)
ClosedUnder(bs, first, S) ==
    /\ first \in S \cup {None}
    /\ \A b \in S : bs[b].next \in S \cup {None}
AllReached(bs, ch) ==
    \A h \in Hashes : \A S \in SUBSET Numbers :
        ClosedUnder(bs, ch[h], S) => \A b \in Numbers : Used(bs, b) /\ bs[b].hash = h => b \in S

OneEach(bs) ==
    \A b, c \in Numbers : bs[b].address \in Addresses \ OtherTypes /\ bs[b].address = bs[c].address => b = c

Chained(bs, ch) == BucketsTyped(bs, ch) /\ Linked(bs, ch) /\ AllReached(bs, ch) /\ OneEach(bs)

(* An address owes o, which leaks away, and the bucket of the address      *)
(* counted u a time d ago.                                                 *)
Account(u, o, d) == (o = 0 \/ o + d < (u + 1) * Period) /\ o >= u * Period - d

(* Bucket k did so at time r, which is what its lastTime means.            *)
Keeps(k, o, t, r) == k.lastTime = Signed(r) /\ Account(k.burst, o, t - r)

Accounted(bs, os, t) ==
    \A a \in Addresses \ OtherTypes :
        /\ \A b \in Numbers : bs[b].address = a => \E r \in 0..t : Keeps(bs[b], os[a], t, r)
        /\ (\A b \in Numbers : bs[b].address # a) => os[a] < Period

BucketInd ==
    /\ time \in 0..MaxTime /\ owed \in [Addresses \ OtherTypes -> Nat]
    /\ Chained(buckets, chain)
    /\ Accounted(buckets, owed, time)

(* Without bucket b, as TakenOut makes them. *)
Unlinked(bs, ch, b, cs, dh) ==
    /\ cs \in [Numbers -> Bucket] /\ dh \in [Hashes -> Numbers \cup {None}]
    /\ cs[b] = EmptyBucket
    /\ \A c \in Numbers \ {b} :
          /\ cs[c].address = bs[c].address /\ cs[c].lastTime = bs[c].lastTime
          /\ cs[c].burst = bs[c].burst /\ cs[c].hash = bs[c].hash
          /\ cs[c].next = IF c = bs[b].prev THEN bs[b].next ELSE bs[c].next
          /\ cs[c].prev = IF c = bs[b].next THEN bs[b].prev ELSE bs[c].prev
    /\ \A h \in Hashes : dh[h] = IF bs[b].prev = None /\ Used(bs, b) /\ h = bs[b].hash THEN bs[b].next ELSE ch[h]

LEMMA NoneIsNoNumber == None \notin Numbers
BY BucketAssumption DEF None, Numbers

LEMMA EmptyIsBucket == EmptyBucket \in Bucket /\ EmptyBucket.address = Unused
BY BucketAssumption DEF EmptyBucket, Bucket

(* A bucket not in use is linked to nothing. *)
LEMMA UnlinkingNothing ==
  ASSUME NEW bs, NEW ch, Chained(bs, ch), NEW b \in Numbers, ~Used(bs, b), NEW cs, NEW dh, Unlinked(bs, ch, b, cs, dh)
  PROVE  cs = bs /\ dh = ch
<1>1. bs \in [Numbers -> Bucket] /\ ch \in [Hashes -> Numbers \cup {None}] /\ bs[b] = EmptyBucket
    BY DEF Chained, BucketsTyped, Used
<1>2. bs[b].prev = None /\ bs[b].next = None
    BY <1>1 DEF EmptyBucket
<1>3. \A c \in Numbers : cs[c] = bs[c]
  <2> TAKE c \in Numbers
  <2>1. CASE c = b
      BY <1>1, <2>1 DEF Unlinked
  <2>2. CASE c # b
    <3>1. cs[c] \in Bucket /\ bs[c] \in Bucket
        BY <1>1 DEF Unlinked
    <3>2. /\ cs[c].address = bs[c].address /\ cs[c].lastTime = bs[c].lastTime
          /\ cs[c].burst = bs[c].burst /\ cs[c].hash = bs[c].hash
          /\ cs[c].next = bs[c].next /\ cs[c].prev = bs[c].prev
        BY <1>2, <2>2, NoneIsNoNumber DEF Unlinked
    <3> QED
        BY <3>1, <3>2 DEF Bucket
  <2> QED
      BY <2>1, <2>2
<1>4. \A h \in Hashes : dh[h] = ch[h]
    BY DEF Unlinked
<1> QED
    BY <1>1, <1>3, <1>4 DEF Unlinked

LEMMA UnlinkKeepsTyped ==
  ASSUME NEW bs, NEW ch, Chained(bs, ch), NEW b \in Numbers, NEW cs, NEW dh, Unlinked(bs, ch, b, cs, dh), Used(bs, b)
  PROVE  BucketsTyped(cs, dh) /\ OneEach(cs)
<1>1. BucketsTyped(bs, ch) /\ OneEach(bs)
    BY DEF Chained
<1>2. \A c \in Numbers : IF cs[c].address = Unused THEN cs[c] = EmptyBucket ELSE cs[c].hash = HashFor[cs[c].address]
  <2> TAKE c \in Numbers
  <2>1. CASE c = b
      BY <2>1, EmptyIsBucket DEF Unlinked
  <2>2. CASE c # b /\ bs[c].address # Unused
      BY <1>1, <2>2 DEF Unlinked, BucketsTyped
  <2>3. CASE c # b /\ bs[c].address = Unused
    <3>1. c # bs[b].prev /\ c # bs[b].next
        BY <2>3 DEF Chained, Linked, Used
    <3>2. cs[c] \in Bucket /\ bs[c] \in Bucket /\ bs[c] = EmptyBucket
        BY <1>1, <2>3 DEF Unlinked, BucketsTyped
    <3>3. /\ cs[c].address = bs[c].address /\ cs[c].lastTime = bs[c].lastTime
          /\ cs[c].burst = bs[c].burst /\ cs[c].hash = bs[c].hash
          /\ cs[c].next = bs[c].next /\ cs[c].prev = bs[c].prev
        BY <2>3, <3>1 DEF Unlinked
    <3>4. cs[c] = bs[c]
        BY <3>2, <3>3 DEF Bucket
    <3> QED
        BY <3>2, <3>4, EmptyIsBucket
  <2> QED
      BY <2>1, <2>2, <2>3
<1>3. OneEach(cs)
  <2>1. cs[b].address = Unused /\ Unused \notin Addresses
      BY EmptyIsBucket, BucketAssumption DEF Unlinked
  <2>2. \A c \in Numbers : c # b => cs[c].address = bs[c].address
      BY DEF Unlinked
  <2> QED
      BY <1>1, <2>1, <2>2 DEF OneEach
<1> QED
    BY <1>2, <1>3 DEF BucketsTyped, Unlinked

LEMMA UnlinkKeepsLinks ==
  ASSUME NEW bs, NEW ch, Chained(bs, ch), NEW b \in Numbers, NEW cs, NEW dh, Unlinked(bs, ch, b, cs, dh), Used(bs, b)
  PROVE  Linked(cs, dh)
<1> DEFINE p == bs[b].prev
           n == bs[b].next
<1>1. Linked(bs, ch) /\ p \in Numbers \cup {None} /\ n \in Numbers \cup {None} /\ None \notin Numbers
    BY NoneIsNoNumber DEF Chained, BucketsTyped, Bucket
<1>2. /\ \A c \in Numbers : Used(cs, c) <=> Used(bs, c) /\ c # b
      /\ \A c \in Numbers : c # b => cs[c].hash = bs[c].hash
      /\ \A c \in Numbers : c # b => cs[c].next = IF c = p THEN n ELSE bs[c].next
      /\ \A c \in Numbers : c # b => cs[c].prev = IF c = n THEN p ELSE bs[c].prev
      /\ \A h \in Hashes : dh[h] = IF p = None /\ h = bs[b].hash THEN n ELSE ch[h]
    BY EmptyIsBucket DEF Unlinked, Used
<1>3. Used(bs, b) /\ bs[b].hash \in Hashes
  <2>1. bs[b].hash = HashFor[bs[b].address] /\ bs[b].address \in Addresses
      BY DEF Chained, BucketsTyped, Bucket, Used
  <2> QED
      BY <2>1, BucketAssumption
<1> HIDE DEF p, n
<1>5. /\ p \in Numbers => Used(bs, p) /\ bs[p].next = b /\ bs[p].hash = bs[b].hash
      /\ n \in Numbers => Used(bs, n) /\ bs[n].prev = b /\ bs[n].hash = bs[b].hash
      /\ p = None => ch[bs[b].hash] = b
      /\ p = b <=> n = b
    BY <1>1, <1>3 DEF Linked, p, n
<1>6. ASSUME NEW c \in Numbers, NEW d \in Numbers, Used(cs, c), cs[c].next = d
      PROVE  Used(cs, d) /\ cs[d].prev = c /\ cs[d].hash = cs[c].hash
  <2>1. c # b /\ Used(bs, c)
      BY <1>2, <1>6
  <2>2. CASE c = p
      BY <1>1, <1>2, <1>5, <1>6, <2>1, <2>2
  <2>3. CASE c # p
    <3>1. bs[c].next = d /\ Used(bs, d) /\ bs[d].prev = c /\ bs[d].hash = bs[c].hash
        BY <1>1, <1>2, <1>6, <2>1, <2>3 DEF Linked
    <3>2. d # b
        BY <2>3, <3>1 DEF p
    <3>3. d # n
        BY <1>5, <2>1, <3>1
    <3> QED
        BY <1>2, <2>1, <3>1, <3>2, <3>3
  <2> QED
      BY <2>2, <2>3
<1>7. ASSUME NEW c \in Numbers, NEW d \in Numbers, Used(cs, c), cs[c].prev = d
      PROVE  Used(cs, d) /\ cs[d].next = c
  <2>1. c # b /\ Used(bs, c)
      BY <1>2, <1>7
  <2>2. CASE c = n
      BY <1>1, <1>2, <1>5, <1>7, <2>1, <2>2
  <2>3. CASE c # n
    <3>1. bs[c].prev = d /\ Used(bs, d) /\ bs[d].next = c
        BY <1>1, <1>2, <1>7, <2>1, <2>3 DEF Linked
    <3>2. d # b
        BY <2>3, <3>1 DEF n
    <3>3. d # p
        BY <1>5, <2>1, <3>1
    <3> QED
        BY <1>2, <2>1, <3>1, <3>2, <3>3
  <2> QED
      BY <2>2, <2>3
<1>8. ASSUME NEW h \in Hashes, NEW c \in Numbers, dh[h] = c
      PROVE  Used(cs, c) /\ cs[c].hash = h /\ cs[c].prev = None
  <2>1. CASE p = None /\ h = bs[b].hash
      BY <1>1, <1>2, <1>5, <1>8, <2>1
  <2>2. CASE ~(p = None /\ h = bs[b].hash)
    <3>1. ch[h] = c /\ Used(bs, c) /\ bs[c].hash = h /\ bs[c].prev = None
        BY <1>1, <1>2, <1>8, <2>2 DEF Linked
    <3>2. c # b
        BY <2>2, <3>1 DEF p
    <3>3. c # n
        BY <1>1, <1>5, <3>1
    <3> QED
        BY <1>2, <3>1, <3>2, <3>3
  <2> QED
      BY <2>1, <2>2
<1>9. ASSUME NEW c \in Numbers, Used(cs, c), cs[c].prev = None
      PROVE  dh[cs[c].hash] = c
  <2>1. c # b /\ Used(bs, c) /\ cs[c].hash = bs[c].hash
      BY <1>2, <1>9
  <2>2. CASE c = n
      BY <1>1, <1>2, <1>3, <1>5, <1>9, <2>1, <2>2
  <2>3. CASE c # n
    <3>1. ch[bs[c].hash] = c
        BY <1>1, <1>2, <1>9, <2>1, <2>3 DEF Linked
    <3>2. bs[c].hash \in Hashes
      <4>1. bs[c].hash = HashFor[bs[c].address] /\ bs[c].address \in Addresses
          BY <2>1 DEF Chained, BucketsTyped, Bucket, Used
      <4> QED
          BY <4>1, BucketAssumption
    <3> QED
        BY <1>2, <1>5, <2>1, <3>1, <3>2
  <2> QED
      BY <2>2, <2>3
<1> QED
    BY <1>6, <1>7, <1>8, <1>9 DEF Linked

LEMMA UnlinkKeepsReached ==
  ASSUME NEW bs, NEW ch, Chained(bs, ch), NEW b \in Numbers, NEW cs, NEW dh, Unlinked(bs, ch, b, cs, dh), Used(bs, b)
  PROVE  AllReached(cs, dh)
<1> DEFINE p == bs[b].prev
           n == bs[b].next
<1>1. /\ Linked(bs, ch) /\ p \in Numbers \cup {None} /\ n \in Numbers \cup {None} /\ None \notin Numbers
      /\ ch \in [Hashes -> Numbers \cup {None}] /\ \A c \in Numbers : bs[c].next \in Numbers \cup {None}
    BY NoneIsNoNumber DEF Chained, BucketsTyped, Bucket
<1>2. /\ \A c \in Numbers : Used(cs, c) <=> Used(bs, c) /\ c # b
      /\ \A c \in Numbers : c # b => cs[c].hash = bs[c].hash
      /\ \A c \in Numbers : c # b => cs[c].next = IF c = p THEN n ELSE bs[c].next
      /\ \A h \in Hashes : dh[h] = IF p = None /\ h = bs[b].hash THEN n ELSE ch[h]
    BY EmptyIsBucket DEF Unlinked, Used
<1>3. /\ p \in Numbers => Used(bs, p) /\ bs[p].next = b /\ bs[p].hash = bs[b].hash
      /\ n \in Numbers => Used(bs, n) /\ bs[n].prev = b /\ bs[n].hash = bs[b].hash
      /\ p = None => ch[bs[b].hash] = b
      /\ p = b <=> n = b
    BY <1>1 DEF Linked
<1> SUFFICES ASSUME NEW h \in Hashes, NEW S \in SUBSET Numbers, ClosedUnder(cs, dh[h], S)
             PROVE  \A c \in Numbers : Used(cs, c) /\ cs[c].hash = h => c \in S
    BY DEF AllReached
<1> DEFINE H == {c \in S : Used(bs, c) /\ bs[c].hash = h /\ c # b}
           T == H \cup {c \in {b} : bs[b].hash = h /\ (p = None \/ p \in S)}
<1>4. b \in T <=> bs[b].hash = h /\ (p = None \/ p \in S)
    OBVIOUS
<1>5. \A c \in Numbers : c # b => (c \in T <=> c \in S /\ Used(bs, c) /\ bs[c].hash = h)
    OBVIOUS
<1>6. T \in SUBSET Numbers
    OBVIOUS
<1> HIDE DEF H, T, p, n
<1>7. ch[h] \in T \cup {None}
  <2> SUFFICES ASSUME ch[h] # None PROVE ch[h] \in T
      OBVIOUS
  <2>1. ch[h] \in Numbers /\ Used(bs, ch[h]) /\ bs[ch[h]].hash = h /\ bs[ch[h]].prev = None
      BY <1>1 DEF Linked
  <2>2. CASE ch[h] = b
      BY <1>4, <2>1, <2>2 DEF p
  <2>3. CASE ch[h] # b
      BY <1>1, <1>2, <1>3, <1>5, <2>1, <2>3 DEF ClosedUnder
  <2> QED
      BY <2>2, <2>3
<1>8. ASSUME NEW c \in T PROVE bs[c].next \in T \cup {None}
  <2>1. CASE c = b
    <3>1. bs[b].hash = h /\ (p = None \/ p \in S)
        BY <1>4, <2>1
    <3>2. CASE n = b \/ n = None
        BY <2>1, <3>2 DEF n
    <3>3. CASE n # b /\ n # None
      <4>1. n \in S
        <5>1. CASE p = None
            BY <1>2, <3>1, <3>3, <5>1 DEF ClosedUnder
        <5>2. CASE p # None
            BY <1>1, <1>2, <1>3, <3>1, <3>3, <5>2 DEF ClosedUnder
        <5> QED
            BY <5>1, <5>2
      <4> QED
          BY <1>1, <1>3, <1>5, <2>1, <3>1, <3>3, <4>1 DEF n
    <3> QED
        BY <3>2, <3>3
  <2>2. CASE c # b
    <3>1. c \in Numbers /\ c \in S /\ Used(bs, c) /\ bs[c].hash = h
        BY <1>5, <1>6, <2>2
    <3> DEFINE x == bs[c].next
    <3>2. CASE x = None
        BY <3>2
    <3>3. CASE x # None
      <4>1. x \in Numbers /\ Used(bs, x) /\ bs[x].prev = c /\ bs[x].hash = h
          BY <1>1, <3>1, <3>3 DEF Linked
      <4>2. CASE x = b
          BY <1>4, <3>1, <4>1, <4>2 DEF p
      <4>3. CASE x # b
        <5>1. c # p
            BY <1>1, <1>3, <3>1, <4>3
        <5>2. cs[c].next = x
            BY <1>2, <2>2, <3>1, <5>1
        <5>3. x \in S
            BY <3>1, <3>3, <5>2 DEF ClosedUnder
        <5> QED
            BY <1>5, <4>1, <4>3, <5>3
      <4> QED
          BY <4>2, <4>3
    <3> QED
        BY <3>2, <3>3
  <2> QED
      BY <2>1, <2>2
<1>9. \A c \in Numbers : Used(bs, c) /\ bs[c].hash = h => c \in T
    BY <1>6, <1>7, <1>8 DEF Chained, AllReached, ClosedUnder
<1> QED
    BY <1>2, <1>5, <1>9

LEMMA OutKeeps ==
  ASSUME NEW bs, NEW ch, Chained(bs, ch), NEW b \in Numbers, NEW cs, NEW dh, Unlinked(bs, ch, b, cs, dh)
  PROVE  Chained(cs, dh)
<1>1. CASE Used(bs, b)
    BY <1>1, UnlinkKeepsTyped, UnlinkKeepsLinks, UnlinkKeepsReached DEF Chained
<1>2. CASE ~Used(bs, b)
  <2>1. cs = bs /\ dh = ch
      BY <1>2, UnlinkingNothing
  <2> QED
      BY <2>1
<1> QED
    BY <1>1, <1>2

(* ... and with it again, as GivenTo makes them. *)
LinkedIn(bs, ch, a, b, cs, dh) ==
    /\ cs \in [Numbers -> Bucket] /\ dh \in [Hashes -> Numbers \cup {None}]
    /\ cs[b].address = a /\ cs[b].hash = HashFor[a] /\ cs[b].prev = None /\ cs[b].next = ch[HashFor[a]]
    /\ \A c \in Numbers \ {b} :
          /\ cs[c].address = bs[c].address /\ cs[c].lastTime = bs[c].lastTime
          /\ cs[c].burst = bs[c].burst /\ cs[c].hash = bs[c].hash /\ cs[c].next = bs[c].next
          /\ cs[c].prev = IF c = ch[HashFor[a]] THEN b ELSE bs[c].prev
    /\ \A h \in Hashes : dh[h] = IF h = HashFor[a] THEN b ELSE ch[h]

LEMMA GiveKeepsTyped ==
  ASSUME NEW bs, NEW ch, Chained(bs, ch), NEW b \in Numbers, bs[b] = EmptyBucket,
         NEW a \in Addresses, a \in OtherTypes \/ \A c \in Numbers : bs[c].address # a,
         NEW cs, NEW dh, LinkedIn(bs, ch, a, b, cs, dh)
  PROVE  BucketsTyped(cs, dh) /\ OneEach(cs)
<1>1. BucketsTyped(bs, ch) /\ OneEach(bs) /\ Linked(bs, ch)
    BY DEF Chained
<1>2. HashFor[a] \in Hashes /\ a # Unused
    BY BucketAssumption
<1>3. \A c \in Numbers : IF cs[c].address = Unused THEN cs[c] = EmptyBucket ELSE cs[c].hash = HashFor[cs[c].address]
  <2> TAKE c \in Numbers
  <2>1. CASE c = b
      BY <1>2, <2>1 DEF LinkedIn
  <2>2. CASE c # b /\ bs[c].address # Unused
      BY <1>1, <2>2 DEF LinkedIn, BucketsTyped
  <2>3. CASE c # b /\ bs[c].address = Unused
    <3>1. c # ch[HashFor[a]]
        BY <1>1, <1>2, <2>3 DEF Linked, Used
    <3>2. cs[c] \in Bucket /\ bs[c] \in Bucket /\ bs[c] = EmptyBucket
        BY <1>1, <2>3 DEF LinkedIn, BucketsTyped
    <3>3. /\ cs[c].address = bs[c].address /\ cs[c].lastTime = bs[c].lastTime
          /\ cs[c].burst = bs[c].burst /\ cs[c].hash = bs[c].hash
          /\ cs[c].next = bs[c].next /\ cs[c].prev = bs[c].prev
        BY <2>3, <3>1 DEF LinkedIn
    <3>4. cs[c] = bs[c]
        BY <3>2, <3>3 DEF Bucket
    <3> QED
        BY <3>2, <3>4, EmptyIsBucket
  <2> QED
      BY <2>1, <2>2, <2>3
<1>4. OneEach(cs)
  <2>1. cs[b].address = a /\ \A c \in Numbers : c # b => cs[c].address = bs[c].address
      BY DEF LinkedIn
  <2> QED
      BY <1>1, <2>1 DEF OneEach
<1> QED
    BY <1>3, <1>4 DEF BucketsTyped, LinkedIn

LEMMA GiveKeepsLinks ==
  ASSUME NEW bs, NEW ch, Chained(bs, ch), NEW b \in Numbers, bs[b] = EmptyBucket,
         NEW a \in Addresses, NEW cs, NEW dh, LinkedIn(bs, ch, a, b, cs, dh)
  PROVE  Linked(cs, dh)
<1> DEFINE g == HashFor[a]
           n == ch[g]
<1>1. Linked(bs, ch) /\ g \in Hashes /\ n \in Numbers \cup {None} /\ None \notin Numbers
    BY NoneIsNoNumber, BucketAssumption DEF Chained, BucketsTyped
<1>2. a # Unused /\ ~Used(bs, b)
    BY BucketAssumption, EmptyIsBucket DEF Used
<1>3. /\ \A c \in Numbers : Used(cs, c) <=> Used(bs, c) \/ c = b
      /\ cs[b].hash = g /\ cs[b].prev = None /\ cs[b].next = n
      /\ \A c \in Numbers : c # b => cs[c].hash = bs[c].hash /\ cs[c].next = bs[c].next
      /\ \A c \in Numbers : c # b => cs[c].prev = IF c = n THEN b ELSE bs[c].prev
      /\ \A h \in Hashes : dh[h] = IF h = g THEN b ELSE ch[h]
    BY <1>2 DEF LinkedIn, Used
<1> HIDE DEF g, n
<1>4. n \in Numbers => Used(bs, n) /\ bs[n].hash = g /\ bs[n].prev = None
    BY <1>1 DEF Linked, n
<1>5. ASSUME NEW c \in Numbers, NEW d \in Numbers, Used(cs, c), cs[c].next = d
      PROVE  Used(cs, d) /\ cs[d].prev = c /\ cs[d].hash = cs[c].hash
  <2>1. CASE c = b
      BY <1>1, <1>2, <1>3, <1>4, <1>5, <2>1
  <2>2. CASE c # b
    <3>1. Used(bs, d) /\ bs[d].prev = c /\ bs[d].hash = bs[c].hash
        BY <1>1, <1>3, <1>5, <2>2 DEF Linked
    <3>2. d # n
        BY <1>1, <1>4, <3>1
    <3> QED
        BY <1>2, <1>3, <2>2, <3>1, <3>2
  <2> QED
      BY <2>1, <2>2
<1>6. ASSUME NEW c \in Numbers, NEW d \in Numbers, Used(cs, c), cs[c].prev = d
      PROVE  Used(cs, d) /\ cs[d].next = c
  <2>1. c # b /\ Used(bs, c)
      BY <1>1, <1>3, <1>6
  <2>2. CASE c = n
      BY <1>1, <1>3, <1>6, <2>1, <2>2
  <2>3. CASE c # n
    <3>1. Used(bs, d) /\ bs[d].next = c
        BY <1>1, <1>3, <1>6, <2>1, <2>3 DEF Linked
    <3> QED
        BY <1>2, <1>3, <3>1
  <2> QED
      BY <2>2, <2>3
<1>7. ASSUME NEW h \in Hashes, NEW c \in Numbers, dh[h] = c
      PROVE  Used(cs, c) /\ cs[c].hash = h /\ cs[c].prev = None
  <2>1. CASE h = g
      BY <1>3, <1>7, <2>1
  <2>2. CASE h # g
    <3>1. Used(bs, c) /\ bs[c].hash = h /\ bs[c].prev = None
        BY <1>1, <1>3, <1>7, <2>2 DEF Linked
    <3>2. c # b /\ c # n
        BY <1>2, <1>4, <2>2, <3>1
    <3> QED
        BY <1>3, <3>1, <3>2
  <2> QED
      BY <2>1, <2>2
<1>8. ASSUME NEW c \in Numbers, Used(cs, c), cs[c].prev = None
      PROVE  dh[cs[c].hash] = c
  <2>1. CASE c = b
      BY <1>1, <1>3, <2>1
  <2>2. CASE c # b
    <3>1. c # n /\ Used(bs, c) /\ cs[c].hash = bs[c].hash
        BY <1>1, <1>3, <1>8, <2>2
    <3>2. ch[bs[c].hash] = c
        BY <1>1, <1>3, <1>8, <2>2, <3>1 DEF Linked
    <3>3. bs[c].hash \in Hashes
      <4>1. bs[c].hash = HashFor[bs[c].address] /\ bs[c].address \in Addresses
          BY <3>1 DEF Chained, BucketsTyped, Bucket, Used
      <4> QED
          BY <4>1, BucketAssumption
    <3> QED
        BY <1>3, <3>1, <3>2, <3>3 DEF n
  <2> QED
      BY <2>1, <2>2
<1> QED
    BY <1>5, <1>6, <1>7, <1>8 DEF Linked

LEMMA GiveKeepsReached ==
  ASSUME NEW bs, NEW ch, Chained(bs, ch), NEW b \in Numbers, bs[b] = EmptyBucket,
         NEW a \in Addresses, NEW cs, NEW dh, LinkedIn(bs, ch, a, b, cs, dh)
  PROVE  AllReached(cs, dh)
<1> DEFINE g == HashFor[a]
           n == ch[g]
<1>1. /\ Linked(bs, ch) /\ g \in Hashes /\ None \notin Numbers
      /\ ch \in [Hashes -> Numbers \cup {None}] /\ \A c \in Numbers : bs[c].next \in Numbers \cup {None}
    BY NoneIsNoNumber, BucketAssumption DEF Chained, BucketsTyped, Bucket
<1>2. a # Unused /\ ~Used(bs, b)
    BY BucketAssumption, EmptyIsBucket DEF Used
<1>3. /\ \A c \in Numbers : Used(cs, c) <=> Used(bs, c) \/ c = b
      /\ cs[b].hash = g /\ cs[b].next = n
      /\ \A c \in Numbers : c # b => cs[c].hash = bs[c].hash /\ cs[c].next = bs[c].next
      /\ \A h \in Hashes : dh[h] = IF h = g THEN b ELSE ch[h]
    BY <1>2 DEF LinkedIn, Used
<1> SUFFICES ASSUME NEW h \in Hashes, NEW S \in SUBSET Numbers, ClosedUnder(cs, dh[h], S)
             PROVE  \A c \in Numbers : Used(cs, c) /\ cs[c].hash = h => c \in S
    BY DEF AllReached
<1> DEFINE T == {c \in S : Used(bs, c)}
<1>4. T \in SUBSET Numbers /\ \A c \in Numbers : c \in T <=> c \in S /\ Used(bs, c)
    OBVIOUS
<1> HIDE DEF T, g
<1>5. h = g => b \in S
    BY <1>1, <1>3 DEF ClosedUnder
<1>6. ch[h] \in S \cup {None}
  <2>1. CASE h = g
    <3>1. cs[b].next = ch[h]
        BY <1>3, <2>1
    <3> QED
        BY <1>5, <2>1, <3>1 DEF ClosedUnder
  <2>2. CASE h # g
      BY <1>3, <2>2 DEF ClosedUnder
  <2> QED
      BY <2>1, <2>2
<1>7. ch[h] \in T \cup {None}
  <2>1. ch[h] \in Numbers => Used(bs, ch[h])
      BY <1>1 DEF Linked
  <2> QED
      BY <1>1, <1>4, <1>6, <2>1
<1>8. ASSUME NEW c \in T PROVE bs[c].next \in T \cup {None}
  <2>1. c \in S /\ c \in Numbers /\ Used(bs, c) /\ c # b
      BY <1>2, <1>4
  <2>2. bs[c].next \in S \cup {None}
      BY <1>3, <2>1 DEF ClosedUnder
  <2>3. bs[c].next \in Numbers => Used(bs, bs[c].next)
      BY <1>1, <2>1 DEF Linked
  <2> QED
      BY <1>1, <1>4, <2>1, <2>2, <2>3
<1>9. \A c \in Numbers : Used(bs, c) /\ bs[c].hash = h => c \in T
    BY <1>4, <1>7, <1>8 DEF Chained, AllReached, ClosedUnder
<1> QED
    BY <1>2, <1>3, <1>4, <1>5, <1>9

LEMMA GiveKeeps ==
  ASSUME NEW bs, NEW ch, Chained(bs, ch), NEW b \in Numbers, bs[b] = EmptyBucket,
         NEW a \in Addresses, a \in OtherTypes \/ \A c \in Numbers : bs[c].address # a,
         NEW cs, NEW dh, LinkedIn(bs, ch, a, b, cs, dh)
  PROVE  Chained(cs, dh)
BY GiveKeepsTyped, GiveKeepsLinks, GiveKeepsReached DEF Chained

(* What a bucket counts is nothing to the chains. *)
LEMMA CountKeeps ==
  ASSUME NEW bs, NEW ch, Chained(bs, ch), NEW b \in Numbers, Used(bs, b), NEW cs \in [Numbers -> Bucket],
         \A c \in Numbers \ {b} : cs[c] = bs[c],
         cs[b].address = bs[b].address, cs[b].hash = bs[b].hash, cs[b].prev = bs[b].prev, cs[b].next = bs[b].next
  PROVE  Chained(cs, ch)
<1>1. \A c \in Numbers : cs[c].address = bs[c].address /\ cs[c].hash = bs[c].hash
                         /\ cs[c].prev = bs[c].prev /\ cs[c].next = bs[c].next
    OBVIOUS
<1>2. \A c : Used(cs, c) <=> Used(bs, c)
    BY <1>1 DEF Used
<1>3. BucketsTyped(cs, ch)
  <2>1. ch \in [Hashes -> Numbers \cup {None}]
      BY DEF Chained, BucketsTyped
  <2>2. \A c \in Numbers : IF cs[c].address = Unused THEN cs[c] = EmptyBucket ELSE cs[c].hash = HashFor[cs[c].address]
      BY <1>1 DEF Chained, BucketsTyped, Used
  <2> QED
      BY <2>1, <2>2 DEF BucketsTyped
<1>4. Linked(cs, ch)
  <2>1. Linked(bs, ch)
      BY DEF Chained
  <2> QED
      BY <1>1, <1>2, <2>1 DEF Linked
<1>5. AllReached(cs, ch)
  <2> SUFFICES ASSUME NEW h \in Hashes, NEW S \in SUBSET Numbers, ClosedUnder(cs, ch[h], S)
               PROVE  \A c \in Numbers : Used(cs, c) /\ cs[c].hash = h => c \in S
      BY DEF AllReached
  <2>1. ClosedUnder(bs, ch[h], S)
      BY <1>1 DEF ClosedUnder
  <2>2. \A c \in Numbers : Used(bs, c) /\ bs[c].hash = h => c \in S
      BY <2>1 DEF Chained, AllReached
  <2> QED
      BY <1>1, <1>2, <2>2
<1>6. OneEach(cs)
    BY <1>1 DEF Chained, OneEach
<1> QED
    BY <1>3, <1>4, <1>5, <1>6 DEF Chained

(* The clock. *)
LEMMA RatesAreNumbers ==
  /\ Burst \in Nat \ {0} /\ Period \in Nat \ {0} /\ HalfRange \in Nat \ {0} /\ MaxTime \in 0..(2 * HalfRange - 1)
  /\ (Burst + 1) * Period <= HalfRange
<1>1. (Burst + 1) * Period >= Period
    BY BucketAssumption
<1> QED
    BY <1>1, BucketAssumption

LEMMA SignedIs ==
  ASSUME NEW t \in Int
  PROVE  Signed(t) \in Int /\ \E k \in Int : Signed(t) = t + (2 * HalfRange) * k
<1> DEFINE n == 2 * HalfRange
           u == t % n
           q == t \div n
<1>1. n \in Nat \ {0}
    BY RatesAreNumbers
<1>2. t = n * q + u /\ u \in 0..(n - 1) /\ q \in Int
    BY <1>1, Z3
<1>3. Signed(t) = IF u >= HalfRange THEN u - n ELSE u
    BY DEF Signed
<1> HIDE DEF n, u, q
<1>4. u \in Int /\ n \in Int /\ Signed(t) \in Int
    BY <1>1, <1>2, <1>3
<1>5. CASE u >= HalfRange
  <2>1. PICK k \in Int : k = -q - 1
      BY <1>2
  <2>2. n * k = -(n * q) - n /\ n * q \in Int
      BY <1>2, <1>4, <2>1
  <2>3. Signed(t) = t + n * k
      BY <1>2, <1>3, <1>4, <1>5, <2>2
  <2> QED
      BY <1>4, <2>3 DEF n
<1>6. CASE ~(u >= HalfRange)
  <2>1. PICK k \in Int : k = -q
      BY <1>2
  <2>2. n * k = -(n * q) /\ n * q \in Int
      BY <1>2, <1>4, <2>1
  <2>3. Signed(t) = t + n * k
      BY <1>2, <1>3, <1>4, <1>6, <2>2
  <2> QED
      BY <1>4, <2>3 DEF n
<1> QED
    BY <1>5, <1>6

LEMMA SignedPeriod ==
  ASSUME NEW t \in Int, NEW k \in Int
  PROVE  Signed(t + (2 * HalfRange) * k) = Signed(t)
<1>1. 2 * HalfRange \in Nat \ {0}
    BY RatesAreNumbers
<1>2. (t + (2 * HalfRange) * k) % (2 * HalfRange) = t % (2 * HalfRange)
    BY <1>1, RemainderPeriod, Zenon
<1> QED
    BY <1>2, Zenon DEF Signed

(* What is computed with the clock is what would be with the time. *)
LEMMA SignedOfSum ==
  ASSUME NEW t \in Int, NEW x \in Int
  PROVE  Signed(Signed(t) + x) = Signed(t + x)
<1>1. PICK k \in Int : Signed(t) = t + (2 * HalfRange) * k
    BY SignedIs
<1> DEFINE y == (2 * HalfRange) * k
<1>2. y \in Int /\ Signed(t) = t + y
    BY <1>1, RatesAreNumbers
<1>3. Signed((t + x) + y) = Signed(t + x)
  <2>1. t + x \in Int
      OBVIOUS
  <2> QED
      BY <2>1, SignedPeriod, Zenon
<1> HIDE DEF y
<1>4. Signed(t) + x = (t + x) + y
    BY <1>2
<1> QED
    BY <1>3, <1>4

LEMMA SignedOfDifference ==
  ASSUME NEW t \in Int, NEW r \in Int
  PROVE  Signed(Signed(t) - Signed(r)) = Signed(t - r)
<1>1. PICK k \in Int : Signed(r) = r + (2 * HalfRange) * k
    BY SignedIs
<1> DEFINE y == (2 * HalfRange) * k
           z == (2 * HalfRange) * (-k)
<1>2. y \in Int /\ z = -y /\ Signed(r) = r + y /\ Signed(r) \in Int /\ Signed(t) \in Int
    BY <1>1, SignedIs, RatesAreNumbers
<1>3. Signed((t - r) + z) = Signed(t - r)
  <2>1. t - r \in Int /\ -k \in Int
      OBVIOUS
  <2> QED
      BY <2>1, SignedPeriod, Zenon
<1> HIDE DEF y, z
<1>4. Signed(t) - Signed(r) = Signed(t) + (-r - y) /\ t + (-r - y) = (t - r) + z /\ -r - y \in Int
    BY <1>2
<1>5. Signed(Signed(t) + (-r - y)) = Signed(t + (-r - y))
    BY <1>4, SignedOfSum, Zenon
<1> QED
    BY <1>3, <1>4, <1>5

LEMMA SignedOfFew ==
  ASSUME NEW d \in 0..(2 * HalfRange - 1)
  PROVE  Signed(d) = IF d >= HalfRange THEN d - 2 * HalfRange ELSE d
<1>1. 2 * HalfRange \in Nat \ {0} /\ d \in Int
    BY RatesAreNumbers
<1>2. ((2 * HalfRange) * 0 + d) % (2 * HalfRange) = d
    BY <1>1, RemainderIs
<1>3. (2 * HalfRange) * 0 + d = d
    BY <1>1
<1> QED
    BY <1>2, <1>3 DEF Signed

(* The interval since r. *)
LEMMA IntervalSince ==
  ASSUME time \in 0..MaxTime, NEW r \in 0..time
  PROVE  /\ time - r \in Nat
         /\ Signed(Now - Signed(r)) = IF time - r >= HalfRange THEN time - r - 2 * HalfRange ELSE time - r
<1>1. time \in Int /\ r \in Int /\ time - r \in 0..(2 * HalfRange - 1)
    BY RatesAreNumbers
<1>2. Signed(Signed(time) - Signed(r)) = Signed(time - r)
    BY <1>1, SignedOfDifference
<1> QED
    BY <1>1, <1>2, SignedOfFew DEF Now

(* What leaks in time d: e periods, and m of the next. *)
LEMMA PeriodsLeaked ==
  ASSUME NEW d \in Nat
  PROVE  /\ d \div Period \in Nat /\ d % Period \in 0..(Period - 1)
         /\ d = Period * (d \div Period) + (d % Period)
<1>1. Period \in Nat \ {0}
    BY RatesAreNumbers
<1> QED
    BY <1>1, Z3

LEMMA AccountLeaks ==
  ASSUME NEW u \in 0..Burst, NEW o \in Nat, NEW d \in Nat, Account(u, o, d), d \div Period <= u
  PROVE  u - d \div Period \in 0..Burst /\ Account(u - d \div Period, o, d % Period)
<1> DEFINE e == d \div Period
           m == d % Period
<1>1. e \in Nat /\ m \in Nat /\ d = Period * e + m
    BY PeriodsLeaked
<1>2. Period \in Nat /\ Burst \in Nat /\ u \in Nat /\ u <= Burst
    BY RatesAreNumbers
<1> HIDE DEF e, m
<1>3. (u - e + 1) * Period = (u + 1) * Period - Period * e /\ (u - e) * Period = u * Period - Period * e
    BY <1>1, <1>2
<1>4. (u + 1) * Period \in Int /\ Period * e \in Int /\ u * Period \in Int
    BY <1>1, <1>2
<1>5. e <= u
    BY DEF e
<1>6. o = 0 \/ o + m < (u + 1) * Period - Period * e
    BY <1>1, <1>4 DEF Account
<1>7. o >= u * Period - Period * e - m
    BY <1>1, <1>4 DEF Account
<1>8. Account(u - e, o, m)
    BY <1>3, <1>6, <1>7 DEF Account
<1>9. u - e \in 0..Burst
    BY <1>1, <1>2, <1>5
<1> QED
    BY <1>8, <1>9 DEF e, m

LEMMA AccountOver ==
  ASSUME NEW u \in 0..Burst, NEW o \in Nat, NEW d \in Nat, Account(u, o, d), d \div Period > u \/ d >= HalfRange
  PROVE  o = 0
<1> DEFINE e == d \div Period
           m == d % Period
<1>1. e \in Nat /\ m \in Nat /\ d = Period * e + m
    BY PeriodsLeaked
<1>2. Period \in Nat /\ Burst \in Nat /\ u \in Nat /\ u <= Burst /\ HalfRange \in Nat
    BY RatesAreNumbers
<1>3. e > u \/ d >= HalfRange
    OBVIOUS
<1> HIDE DEF e, m
<1>4. d >= (u + 1) * Period
  <2>1. CASE e > u
    <3>1. Period * e >= (u + 1) * Period
      <4>1. Period * e = (u + 1) * Period + Period * (e - u - 1)
          BY <1>1, <1>2
      <4>2. Period * (e - u - 1) >= 0
          BY <1>1, <1>2, <2>1
      <4>3. (u + 1) * Period \in Int /\ Period * (e - u - 1) \in Int
          BY <1>1, <1>2
      <4> QED
          BY <4>1, <4>2, <4>3
    <3>2. Period * e \in Int /\ (u + 1) * Period \in Int
        BY <1>1, <1>2
    <3> QED
        BY <1>1, <3>1, <3>2
  <2>2. CASE d >= HalfRange
    <3>1. (Burst + 1) * Period = (u + 1) * Period + (Burst - u) * Period
        BY <1>2
    <3>2. (Burst - u) * Period >= 0
        BY <1>2
    <3>3. (u + 1) * Period \in Int /\ (Burst - u) * Period \in Int /\ (Burst + 1) * Period \in Int
        BY <1>2
    <3> QED
        BY <1>2, <2>2, <3>1, <3>2, <3>3, RatesAreNumbers
  <2> QED
      BY <1>3, <2>1, <2>2
<1>5. (u + 1) * Period \in Int
    BY <1>2
<1> QED
    BY <1>4, <1>5 DEF Account

LEMMA AccountGrants ==
  ASSUME NEW u \in Nat, NEW o \in Nat, NEW d \in 0..(Period - 1), Account(u, o, d)
  PROVE  Account(u + 1, o + Period, d)
<1>1. Period \in Nat
    BY RatesAreNumbers
<1>2. (u + 1 + 1) * Period = (u + 1) * Period + Period /\ (u + 1) * Period = u * Period + Period
    BY <1>1
<1>3. u * Period \in Int /\ u * Period >= 0
    BY <1>1
<1> QED
    BY <1>1, <1>2, <1>3 DEF Account

LEMMA AccountRefuses ==
  ASSUME NEW o \in Nat, NEW d \in 0..(Period - 1), Account(Burst, o, d)
  PROVE  o > (Burst - 1) * Period
<1>1. Period \in Nat /\ Burst \in Nat
    BY RatesAreNumbers
<1>2. (Burst - 1) * Period = Burst * Period - Period /\ Burst * Period \in Int
    BY <1>1
<1> QED
    BY <1>1, <1>2 DEF Account

LEMMA AccountBegins == Account(0, 0, 0) /\ \A o \in Nat : o < Period => Account(0, o, 0)
BY RatesAreNumbers DEF Account

(* One who asks after a bucket is taken for quiet owes less than a period. *)
LEMMA AccountExpires ==
  ASSUME NEW u \in 0..Burst, NEW o \in Nat, NEW d \in Nat, Account(u, o, d), d > Burst * Period \/ d >= HalfRange
  PROVE  o < Period
<1>1. Period \in Nat /\ Period > 0 /\ Burst \in Nat /\ u \in Nat /\ u <= Burst /\ HalfRange \in Nat
    BY RatesAreNumbers
<1>2. (Burst + 1) * Period = Burst * Period + Period /\ (Burst + 1) * Period <= HalfRange
    BY <1>1, RatesAreNumbers
<1>3. (u + 1) * Period = u * Period + Period /\ u * Period \in Int /\ Burst * Period \in Int
    BY <1>1
<1>4. u * Period <= Burst * Period
    BY <1>1
<1> QED
    BY <1>1, <1>2, <1>3, <1>4 DEF Account

LEMMA LeastNumber ==
  ASSUME NEW S \in SUBSET Numbers, S # {}
  PROVE  Min(S) \in S
<1> DEFINE R == OpToRel(<, Nat)
<1>1. S \in SUBSET Nat
    BY BucketAssumption DEF Numbers
<1>2. R = {ss \in Nat \X Nat : ss[1] < ss[2]}
    BY DEF OpToRel
<1>3. IsWellFoundedOn(R, Nat)
    BY NatLessThanWellFounded
<1> HIDE DEF R
<1>4. PICK d \in S : \A e \in S : ~(<<e, d>> \in R)
    BY <1>1, <1>3, WFMin
<1>5. \A e \in S : d <= e
  <2>1. \A e \in S : ~(e < d)
      BY <1>1, <1>2, <1>4
  <2> QED
      BY <1>1, <2>1
<1> QED
    BY <1>5 DEF Min

(* SVC_RateLimit, of any bucket and of one with an account. *)
LEMMA LeakedIsBucket ==
  ASSUME time \in 0..MaxTime, NEW k \in Bucket
  PROVE  /\ Leaked(k) \in Bucket
         /\ Leaked(k).address = k.address /\ Leaked(k).hash = k.hash
         /\ Leaked(k).prev = k.prev /\ Leaked(k).next = k.next
<1> DEFINE i == Signed(Now - k.lastTime)
           e == i \div Period
           l == Signed(Now - (i % Period))
<1>1. Now \in Int /\ k.lastTime \in Int /\ k.burst \in 0..Burst /\ Burst \in Nat \ {0} /\ Period \in Nat \ {0}
    BY SignedIs, RatesAreNumbers DEF Now, Bucket
<1>2. i \in Int
  <2>1. Now - k.lastTime \in Int
      BY <1>1
  <2> QED
      BY <2>1, SignedIs
<1>3. ~(i < 0) => e \in Nat
    BY <1>2, PeriodsLeaked
<1>4. l \in Int
  <2>1. i % Period \in 0..(Period - 1)
      BY <1>1, <1>2, RemainderInRange
  <2> HIDE DEF i
  <2>2. Now - (i % Period) \in Int
      BY <1>1, <2>1
  <2> QED
      BY <2>2, SignedIs
<1>5. Leaked(k) = IF e > k.burst \/ i < 0 THEN [k EXCEPT !.burst = 0, !.lastTime = Now]
                  ELSE [k EXCEPT !.burst = @ - e, !.lastTime = l]
    BY DEF Leaked
<1> HIDE DEF i, e, l
<1>6. CASE e > k.burst \/ i < 0
  <2>1. Leaked(k) = [k EXCEPT !.burst = 0, !.lastTime = Now] /\ 0 \in 0..Burst
      BY <1>1, <1>5, <1>6
  <2> QED
      BY <1>1, <2>1 DEF Bucket
<1>7. CASE ~(e > k.burst \/ i < 0)
  <2>1. Leaked(k) = [k EXCEPT !.burst = k.burst - e, !.lastTime = l] /\ k.burst - e \in 0..Burst
      BY <1>1, <1>3, <1>5, <1>7
  <2> HIDE DEF Leaked
  <2> DEFINE u == k.burst - e
  <2> HIDE DEF u
  <2>2. Leaked(k) = [k EXCEPT !.burst = u, !.lastTime = l] /\ u \in 0..Burst
      BY <2>1 DEF u
  <2> QED
      BY <1>4, <2>2 DEF Bucket
<1> QED
    BY <1>6, <1>7

LEMMA LeakedKeeps ==
  ASSUME time \in 0..MaxTime, NEW k \in Bucket, NEW o \in Nat, NEW r \in 0..time, Keeps(k, o, time, r)
  PROVE  \E q \in 0..time : /\ time - q \in 0..(Period - 1)
                            /\ Keeps(Leaked(k), o, time, q)
<1> DEFINE d == time - r
           i == Signed(Now - k.lastTime)
           e == i \div Period
           m == i % Period
<1>1. /\ time \in Nat /\ k.burst \in 0..Burst /\ Burst \in Nat \ {0} /\ Period \in Nat \ {0} /\ HalfRange \in Nat \ {0}
      /\ r \in Int /\ k.lastTime \in Int
    BY RatesAreNumbers DEF Bucket
<1>2. d \in Nat /\ (i = IF d >= HalfRange THEN d - 2 * HalfRange ELSE d) /\ d < 2 * HalfRange
  <2>1. k.lastTime = Signed(r)
      BY DEF Keeps
  <2>2. d < 2 * HalfRange
      BY <1>1, RatesAreNumbers
  <2> QED
      BY <2>1, <2>2, IntervalSince
<1>3. Account(k.burst, o, d)
    BY DEF Keeps
<1>4. Leaked(k) = IF e > k.burst \/ i < 0 THEN [k EXCEPT !.burst = 0, !.lastTime = Now]
                  ELSE [k EXCEPT !.burst = @ - e, !.lastTime = Signed(Now - m)]
    BY DEF Leaked
<1>5. d < HalfRange => i = d /\ e = d \div Period /\ m = d % Period
  <2>1. e = i \div Period /\ m = i % Period
      OBVIOUS
  <2> HIDE DEF d, i, e, m
  <2>2. d < HalfRange => i = d
      BY <1>1, <1>2
  <2> QED
      BY <2>1, <2>2
<1>6. i < 0 <=> d >= HalfRange
    BY <1>1, <1>2
<1>7. CASE e > k.burst \/ i < 0
  <2>1. d \div Period > k.burst \/ d >= HalfRange
      BY <1>1, <1>2, <1>5, <1>6, <1>7
  <2>2. o = 0
      BY <1>1, <1>2, <1>3, <2>1, AccountOver
  <2>3. Leaked(k).burst = 0 /\ Leaked(k).lastTime = Signed(time)
      BY <1>4, <1>7 DEF Bucket, Now
  <2>4. time - time = 0 /\ time \in 0..time /\ 0 \in 0..(Period - 1)
      BY <1>1
  <2>5. Keeps(Leaked(k), o, time, time)
      BY <2>2, <2>3, <2>4, AccountBegins DEF Keeps
  <2> QED
      BY <2>4, <2>5
<1>8. CASE ~(e > k.burst \/ i < 0)
  <2>1. d < HalfRange
      BY <1>1, <1>2, <1>6, <1>8
  <2>2. i = d /\ e = d \div Period /\ m = d % Period
      BY <1>5, <2>1
  <2>3. e \in Nat /\ m \in 0..(Period - 1) /\ d = Period * e + m
      BY <1>2, <2>2, PeriodsLeaked
  <2>4. e <= k.burst
      BY <1>1, <1>8, <2>3
  <2>5. k.burst - e \in 0..Burst /\ Account(k.burst - e, o, m)
      BY <1>1, <1>2, <1>3, <2>2, <2>4, AccountLeaks
  <2>6. Leaked(k).burst = k.burst - e /\ Leaked(k).lastTime = Signed(Now - m)
      BY <1>4, <1>8 DEF Bucket
  <2>7. Period * e >= 0 /\ Period * e \in Int
      BY <1>1, <2>3
  <2> HIDE DEF i, e, m
  <2>8. PICK q \in 0..time : q = time - m
    <3>1. m \in Int /\ d \in Int /\ m <= d /\ 0 <= m
        BY <1>2, <2>3, <2>7
    <3>2. time - m \in 0..time
        BY <1>1, <3>1
    <3> QED
        BY <3>2
  <2>9. time - q = m
      BY <1>1, <2>3, <2>8
  <2>10. Signed(Now - m) = Signed(q)
    <3>1. time \in Int /\ -m \in Int /\ m \in Int
        BY <1>1, <2>3
    <3>2. Signed(Signed(time) + (-m)) = Signed(time + (-m))
        BY <3>1, SignedOfSum, Zenon
    <3>3. Signed(time) + (-m) = Now - m /\ time + (-m) = q
        BY <3>1, <2>8, SignedIs DEF Now
    <3> QED
        BY <3>2, <3>3
  <2>11. Keeps(Leaked(k), o, time, q)
      BY <2>5, <2>6, <2>9, <2>10 DEF Keeps
  <2> QED
      BY <2>3, <2>9, <2>11
<1> QED
    BY <1>7, <1>8

(* What SVC_RateLimit makes of bucket k. *)
Rated(k) == [Leaked(k) EXCEPT !.burst = IF Granted(Leaked(k)) THEN @ + 1 ELSE @]

LEMMA RatedIsBucket ==
  ASSUME time \in 0..MaxTime, NEW k \in Bucket
  PROVE  /\ Rated(k) \in Bucket
         /\ Rated(k).address = k.address /\ Rated(k).hash = k.hash
         /\ Rated(k).prev = k.prev /\ Rated(k).next = k.next
         /\ Rated(k).lastTime = Leaked(k).lastTime
         /\ Rated(k).burst = IF Granted(Leaked(k)) THEN Leaked(k).burst + 1 ELSE Leaked(k).burst
<1> DEFINE l == Leaked(k)
           u == IF Granted(l) THEN l.burst + 1 ELSE l.burst
<1>1. l \in Bucket /\ l.address = k.address /\ l.hash = k.hash /\ l.prev = k.prev /\ l.next = k.next
    BY LeakedIsBucket
<1>2. Rated(k) = [l EXCEPT !.burst = u]
    BY <1>1 DEF Rated, Bucket
<1>3. u \in 0..Burst
  <2>1. l.burst \in 0..Burst /\ Burst \in Nat
      BY <1>1, RatesAreNumbers DEF Bucket
  <2> QED
      BY <2>1 DEF Granted
<1> HIDE DEF l, u
<1>4. Rated(k) \in Bucket /\ Rated(k).burst = u /\ Rated(k).lastTime = l.lastTime
      /\ Rated(k).address = l.address /\ Rated(k).hash = l.hash /\ Rated(k).prev = l.prev /\ Rated(k).next = l.next
    BY <1>1, <1>2, <1>3 DEF Bucket
<1> QED
    BY <1>1, <1>4 DEF u, l

Owing(os, a, k) == IF Granted(Leaked(k)) /\ a \notin OtherTypes THEN [os EXCEPT ![a] = @ + Period] ELSE os

LEMMA RateKeeps ==
  ASSUME time \in 0..MaxTime, NEW bs, NEW ch, Chained(bs, ch),
         NEW os \in [Addresses \ OtherTypes -> Nat], Accounted(bs, os, time),
         NEW a \in Addresses, NEW b \in Numbers, bs[b].address = a,
         NEW cs, cs = [bs EXCEPT ![b] = Rated(bs[b])], NEW ps, ps = Owing(os, a, bs[b])
  PROVE  Chained(cs, ch) /\ ps \in [Addresses \ OtherTypes -> Nat] /\ Accounted(cs, ps, time)
<1> DEFINE k == bs[b]
<1>1. bs \in [Numbers -> Bucket] /\ k \in Bucket /\ Used(bs, b) /\ Period \in Nat
    BY BucketAssumption, RatesAreNumbers DEF Chained, BucketsTyped, Used
<1>2. /\ Rated(k) \in Bucket
      /\ Rated(k).address = k.address /\ Rated(k).hash = k.hash
      /\ Rated(k).prev = k.prev /\ Rated(k).next = k.next
      /\ Rated(k).lastTime = Leaked(k).lastTime
      /\ Rated(k).burst = IF Granted(Leaked(k)) THEN Leaked(k).burst + 1 ELSE Leaked(k).burst
    BY <1>1, RatedIsBucket
<1>3. cs \in [Numbers -> Bucket] /\ cs[b] = Rated(k) /\ \A c \in Numbers \ {b} : cs[c] = bs[c]
    BY <1>1, <1>2
<1>4. Chained(cs, ch)
    BY <1>1, <1>2, <1>3, CountKeeps
<1>5. ps \in [Addresses \ OtherTypes -> Nat] /\ \A x \in Addresses \ OtherTypes : x # a => ps[x] = os[x]
    BY <1>1 DEF Owing
<1>6. \A c \in Numbers : cs[c].address = bs[c].address
    BY <1>2, <1>3
<1>7. ASSUME NEW x \in Addresses \ OtherTypes, NEW c \in Numbers, cs[c].address = x
      PROVE  \E q \in 0..time : Keeps(cs[c], ps[x], time, q)
  <2>1. PICK r \in 0..time : Keeps(bs[c], os[x], time, r)
      BY <1>6, <1>7 DEF Accounted
  <2>2. CASE c # b
    <3>1. x # a
        BY <1>6, <1>7, <2>2 DEF Chained, OneEach
    <3> QED
        BY <1>3, <1>5, <2>1, <2>2, <3>1
  <2>3. CASE c = b
    <3>1. x = a /\ cs[c] = Rated(k) /\ Keeps(k, os[a], time, r) /\ os[a] \in Nat
        BY <1>3, <1>6, <1>7, <2>1, <2>3
    <3>2. PICK q \in 0..time : time - q \in 0..(Period - 1) /\ Keeps(Leaked(k), os[a], time, q)
        BY <1>1, <3>1, LeakedKeeps
    <3>3. Leaked(k).burst \in Nat
      <4>1. Leaked(k) \in Bucket
          BY <1>1, LeakedIsBucket
      <4> QED
          BY <4>1, RatesAreNumbers DEF Bucket
    <3>4. CASE Granted(Leaked(k))
      <4>1. ps[a] = os[a] + Period
          BY <1>7, <3>1, <3>4 DEF Owing
      <4>2. Account(Leaked(k).burst, os[a], time - q) /\ Leaked(k).lastTime = Signed(q)
          BY <3>2 DEF Keeps
      <4>3. Account(Leaked(k).burst + 1, os[a] + Period, time - q)
          BY <3>1, <3>2, <3>3, <4>2, AccountGrants
      <4>4. Rated(k).burst = Leaked(k).burst + 1 /\ Rated(k).lastTime = Signed(q)
          BY <1>2, <3>4, <4>2
      <4>5. Keeps(Rated(k), ps[a], time, q)
          BY <4>1, <4>3, <4>4 DEF Keeps
      <4> QED
          BY <3>1, <4>5
    <3>5. CASE ~Granted(Leaked(k))
      <4>1. ps[a] = os[a]
          BY <3>5 DEF Owing
      <4>2. Account(Leaked(k).burst, os[a], time - q) /\ Leaked(k).lastTime = Signed(q)
          BY <3>2 DEF Keeps
      <4>3. Keeps(Rated(k), ps[a], time, q)
          BY <1>2, <3>5, <4>1, <4>2 DEF Keeps
      <4> QED
          BY <3>1, <4>3
    <3> QED
        BY <3>4, <3>5
  <2> QED
      BY <2>2, <2>3
<1>8. ASSUME NEW x \in Addresses \ OtherTypes, \A c \in Numbers : cs[c].address # x
      PROVE  ps[x] < Period
  <2>1. x # a /\ \A c \in Numbers : bs[c].address # x
      BY <1>6, <1>8
  <2> QED
      BY <1>5, <2>1 DEF Accounted
<1> QED
    BY <1>4, <1>5, <1>7, <1>8 DEF Accounted

(* TakenOut and GivenTo. *)
LEMMA TakenOutIs ==
  ASSUME Chained(buckets, chain), NEW b \in Numbers
  PROVE  Unlinked(buckets, chain, b, TakenOut(b).buckets, TakenOut(b).chain)
<1> DEFINE p == buckets[b].prev
           n == buckets[b].next
           cs == TakenOut(b).buckets
           dh == TakenOut(b).chain
<1>1. /\ buckets \in [Numbers -> Bucket] /\ chain \in [Hashes -> Numbers \cup {None}]
      /\ p \in Numbers \cup {None} /\ n \in Numbers \cup {None}
    BY DEF Chained, BucketsTyped, Bucket
<1>2. Used(buckets, b) => buckets[b].hash \in Hashes
  <2>1. Used(buckets, b) => buckets[b].hash = HashFor[buckets[b].address] /\ buckets[b].address \in Addresses
      BY DEF Chained, BucketsTyped, Bucket, Used
  <2> QED
      BY <2>1, BucketAssumption
<1>3. cs = [c \in Numbers |-> IF c = b THEN EmptyBucket
                              ELSE [buckets[c] EXCEPT !.next = IF c = p THEN n ELSE @,
                                                      !.prev = IF c = n THEN p ELSE @]]
    BY DEF TakenOut
<1>4. dh = IF p # None \/ buckets[b].address = Unused THEN chain ELSE [chain EXCEPT ![buckets[b].hash] = n]
    BY DEF TakenOut
<1> HIDE DEF cs, dh, p, n
<1>5. cs[b] = EmptyBucket
    BY <1>3
<1>6. ASSUME NEW c \in Numbers, c # b
      PROVE  /\ cs[c] \in Bucket
             /\ cs[c].address = buckets[c].address /\ cs[c].lastTime = buckets[c].lastTime
             /\ cs[c].burst = buckets[c].burst /\ cs[c].hash = buckets[c].hash
             /\ cs[c].next = IF c = p THEN n ELSE buckets[c].next
             /\ cs[c].prev = IF c = n THEN p ELSE buckets[c].prev
  <2> DEFINE x == IF c = p THEN n ELSE buckets[c].next
             y == IF c = n THEN p ELSE buckets[c].prev
  <2>1. buckets[c] \in Bucket /\ cs[c] = [buckets[c] EXCEPT !.next = x, !.prev = y]
      BY <1>1, <1>3, <1>6 DEF Bucket
  <2>2. x \in Numbers \cup {None} /\ y \in Numbers \cup {None}
      BY <1>1, <2>1 DEF Bucket
  <2> HIDE DEF x, y
  <2>3. cs[c] \in Bucket /\ cs[c].next = x /\ cs[c].prev = y
        /\ cs[c].address = buckets[c].address /\ cs[c].lastTime = buckets[c].lastTime
        /\ cs[c].burst = buckets[c].burst /\ cs[c].hash = buckets[c].hash
      BY <2>1, <2>2 DEF Bucket
  <2> QED
      BY <2>3 DEF x, y
<1>7. cs \in [Numbers -> Bucket]
  <2>1. \A c \in Numbers : cs[c] \in Bucket
      BY <1>5, <1>6, EmptyIsBucket
  <2>2. cs = [c \in Numbers |-> cs[c]]
      BY <1>3
  <2> QED
      BY <2>1, <2>2
<1>8. dh \in [Hashes -> Numbers \cup {None}]
    BY <1>1, <1>2, <1>4 DEF Used
<1>9. \A h \in Hashes : dh[h] = IF p = None /\ Used(buckets, b) /\ h = buckets[b].hash THEN n ELSE chain[h]
    BY <1>1, <1>2, <1>4 DEF Used
<1>10. Unlinked(buckets, chain, b, cs, dh)
    BY <1>5, <1>6, <1>7, <1>8, <1>9 DEF Unlinked, p, n
<1> QED
    BY <1>10 DEF cs, dh

LEMMA GivenToIs ==
  ASSUME time \in 0..MaxTime, NEW s, Chained(s.buckets, s.chain), NEW a \in Addresses, NEW b \in Numbers
  PROVE  /\ LinkedIn(s.buckets, s.chain, a, b, GivenTo(a, b, s).buckets, GivenTo(a, b, s).chain)
         /\ GivenTo(a, b, s).buckets[b].lastTime = Now /\ GivenTo(a, b, s).buckets[b].burst = 0
<1> DEFINE h == HashFor[a]
           n == s.chain[h]
           cs == GivenTo(a, b, s).buckets
           dh == GivenTo(a, b, s).chain
           bs == s.buckets
           new == [address |-> a, lastTime |-> Now, burst |-> 0, hash |-> h, prev |-> None, next |-> n]
<1>1. /\ bs \in [Numbers -> Bucket] /\ s.chain \in [Hashes -> Numbers \cup {None}]
      /\ h \in Hashes /\ n \in Numbers \cup {None}
    BY BucketAssumption DEF Chained, BucketsTyped
<1>2. cs = [c \in Numbers |-> IF c = b THEN new ELSE IF c = n THEN [bs[c] EXCEPT !.prev = b] ELSE bs[c]]
    BY DEF GivenTo
<1>3. dh = [s.chain EXCEPT ![h] = b]
    BY DEF GivenTo
<1>4. Now \in Int /\ 0 \in 0..Burst
  <2>1. time \in Int /\ 0 \in 0..Burst
      BY RatesAreNumbers
  <2> QED
      BY <2>1, SignedIs DEF Now
<1>5. new \in Bucket
    BY <1>1, <1>4 DEF Bucket
<1>6. /\ new.address = a /\ new.lastTime = Now /\ new.burst = 0 /\ new.hash = h
      /\ new.prev = None /\ new.next = n
    OBVIOUS
<1> HIDE DEF cs, dh, bs, n, h, new
<1>7. cs[b] = new
    BY <1>2
<1>8. ASSUME NEW c \in Numbers, c # b
      PROVE  /\ cs[c] \in Bucket
             /\ cs[c].address = bs[c].address /\ cs[c].lastTime = bs[c].lastTime
             /\ cs[c].burst = bs[c].burst /\ cs[c].hash = bs[c].hash /\ cs[c].next = bs[c].next
             /\ cs[c].prev = IF c = n THEN b ELSE bs[c].prev
  <2>1. bs[c] \in Bucket /\ cs[c] = IF c = n THEN [bs[c] EXCEPT !.prev = b] ELSE bs[c]
      BY <1>1, <1>2, <1>8
  <2> QED
      BY <2>1 DEF Bucket
<1>9. cs \in [Numbers -> Bucket]
  <2>1. \A c \in Numbers : cs[c] \in Bucket
      BY <1>5, <1>7, <1>8
  <2>2. cs = [c \in Numbers |-> cs[c]]
      BY <1>2
  <2> QED
      BY <2>1, <2>2
<1>10. dh \in [Hashes -> Numbers \cup {None}] /\ \A g \in Hashes : dh[g] = IF g = h THEN b ELSE s.chain[g]
    BY <1>1, <1>3
<1>11. /\ LinkedIn(bs, s.chain, a, b, cs, dh)
       /\ cs[b].lastTime = Now /\ cs[b].burst = 0
    BY <1>6, <1>7, <1>8, <1>9, <1>10 DEF LinkedIn, n, h
<1> QED
    BY <1>11 DEF cs, dh, bs

(* The bucket of a quiet address goes to a. *)
LEMMA GiveAccounted ==
  ASSUME BucketInd, NEW a \in Addresses, a \in OtherTypes \/ \A c \in Numbers : buckets[c].address # a,
         NEW b \in Numbers, buckets[b].address = Unused \/ Expired(b),
         NEW s, s = GivenTo(a, b, TakenOut(b))
  PROVE  Chained(s.buckets, s.chain) /\ Accounted(s.buckets, owed, time) /\ s.buckets[b].address = a
<1> DEFINE out == TakenOut(b)
           bs == out.buckets
           cs == s.buckets
<1>1. /\ time \in 0..MaxTime /\ owed \in [Addresses \ OtherTypes -> Nat] /\ Chained(buckets, chain)
      /\ Accounted(buckets, owed, time) /\ time \in Nat
    BY RatesAreNumbers DEF BucketInd
<1>2. Unlinked(buckets, chain, b, bs, out.chain) /\ Chained(bs, out.chain)
    BY <1>1, TakenOutIs, OutKeeps
<1>3. LinkedIn(bs, out.chain, a, b, cs, s.chain) /\ cs[b].lastTime = Now /\ cs[b].burst = 0
    BY <1>1, <1>2, GivenToIs
<1>4. bs[b] = EmptyBucket /\ \A c \in Numbers : c # b => bs[c].address = buckets[c].address
                                                         /\ bs[c].lastTime = buckets[c].lastTime
                                                         /\ bs[c].burst = buckets[c].burst
    BY <1>2 DEF Unlinked
<1>5. a # Unused
    BY BucketAssumption
<1> HIDE DEF out, bs, cs
<1>6. a \in OtherTypes \/ \A c \in Numbers : bs[c].address # a
    BY <1>4, <1>5, EmptyIsBucket
<1>7. Chained(cs, s.chain)
    BY <1>2, <1>3, <1>4, <1>6, GiveKeeps
<1>8. cs[b].address = a /\ \A c \in Numbers : c # b => cs[c].address = buckets[c].address
                                                       /\ cs[c].lastTime = buckets[c].lastTime
                                                       /\ cs[c].burst = buckets[c].burst
    BY <1>3, <1>4 DEF LinkedIn
<1>9. ASSUME NEW x \in Addresses \ OtherTypes, NEW c \in Numbers, cs[c].address = x
      PROVE  \E q \in 0..time : Keeps(cs[c], owed[x], time, q)
  <2>1. CASE c = b
    <3>1. x = a /\ owed[x] < Period /\ owed[x] \in Nat
        BY <1>1, <1>8, <1>9, <2>1 DEF Accounted
    <3>2. time - time = 0 /\ time \in 0..time /\ Now = Signed(time)
        BY <1>1 DEF Now
    <3>3. Account(0, owed[x], 0)
        BY <3>1, AccountBegins
    <3>4. Keeps(cs[c], owed[x], time, time)
        BY <1>3, <2>1, <3>2, <3>3 DEF Keeps
    <3> QED
        BY <3>2, <3>4
  <2>2. CASE c # b
    <3>1. PICK q \in 0..time : Keeps(buckets[c], owed[x], time, q)
        BY <1>1, <1>8, <1>9, <2>2 DEF Accounted
    <3>2. Keeps(cs[c], owed[x], time, q)
        BY <1>8, <2>2, <3>1 DEF Keeps
    <3> QED
        BY <3>2
  <2> QED
      BY <2>1, <2>2
<1>10. ASSUME NEW x \in Addresses \ OtherTypes, \A c \in Numbers : cs[c].address # x
       PROVE  owed[x] < Period
  <2>1. \A c \in Numbers : c # b => buckets[c].address # x
      BY <1>8, <1>10
  <2>2. CASE buckets[b].address # x
      BY <1>1, <2>1, <2>2 DEF Accounted
  <2>3. CASE buckets[b].address = x
    <3> DEFINE k == buckets[b]
    <3>1. Expired(b)
        BY <2>3, BucketAssumption
    <3>2. PICK r \in 0..time : Keeps(k, owed[x], time, r)
        BY <1>1, <2>3 DEF Accounted
    <3> DEFINE d == time - r
               i == Signed(Now - k.lastTime)
    <3>3. k.lastTime = Signed(r) /\ Account(k.burst, owed[x], d)
        BY <3>2 DEF Keeps
    <3>4. d \in Nat /\ i = IF d >= HalfRange THEN d - 2 * HalfRange ELSE d
        BY <1>1, <3>3, IntervalSince
    <3>5. i > Burst * Period \/ i < 0
        BY <3>1 DEF Expired, Interval
    <3>6. k.burst \in 0..Burst
        BY <1>1 DEF Chained, BucketsTyped, Bucket
    <3>7. owed[x] \in Nat
        BY <1>1
    <3> HIDE DEF d, i, k
    <3>8. HalfRange \in Nat /\ Burst * Period \in Int
        BY RatesAreNumbers
    <3>9. d > Burst * Period \/ d >= HalfRange
        BY <3>4, <3>5, <3>8
    <3> QED
        BY <3>3, <3>4, <3>6, <3>7, <3>9, AccountExpires
  <2> QED
      BY <2>2, <2>3
<1> QED
    BY <1>7, <1>8, <1>9, <1>10 DEF Accounted, cs

(* SVC_BucketForAddress finds the bucket there is. *)
LEMMA ChainsHold ==
  ASSUME Chained(buckets, chain), NEW h \in Hashes
  PROVE  InChain(h) = {b \in InUse : HashFor[buckets[b].address] = h}
<1>1. BucketsTyped(buckets, chain) /\ Linked(buckets, chain) /\ AllReached(buckets, chain)
    BY DEF Chained
<1> DEFINE T == {b \in InUse : HashFor[buckets[b].address] = h}
<1>2. \A b \in Numbers : b \in T <=> Used(buckets, b) /\ buckets[b].hash = h
    BY <1>1 DEF BucketsTyped, InUse, Used
<1>3. T \in SUBSET Numbers
    BY DEF InUse
<1>4. \A S \in SUBSET Numbers : Leads(h, S) <=> ClosedUnder(buckets, chain[h], S)
    BY DEF Leads, ClosedUnder
<1> HIDE DEF T
<1>5. \A b \in T : b \in InChain(h)
  <2> TAKE b \in T
  <2>1. \A S \in SUBSET Numbers : Leads(h, S) => b \in S
      BY <1>1, <1>2, <1>3, <1>4 DEF AllReached
  <2> QED
      BY <1>3, <2>1 DEF InChain
<1>6. Leads(h, T)
  <2>1. chain[h] \in T \cup {None}
      BY <1>1, <1>2 DEF Linked, BucketsTyped
  <2>2. \A b \in T : buckets[b].next \in T \cup {None}
    <3> TAKE b \in T
    <3>1. buckets[b].next \in Numbers \cup {None}
        BY <1>1, <1>3 DEF BucketsTyped, Bucket
    <3> QED
        BY <1>1, <1>2, <1>3, <3>1 DEF Linked
  <2> QED
      BY <2>1, <2>2 DEF Leads
<1>7. \A b \in InChain(h) : b \in T
    BY <1>3, <1>6 DEF InChain
<1> QED
    BY <1>5, <1>7 DEF T

LEMMA KnownIs ==
  ASSUME Chained(buckets, chain), NEW a \in Addresses
  PROVE  Known(a) = IF a \in OtherTypes THEN {} ELSE {b \in Numbers : buckets[b].address = a}
<1>1. a # Unused /\ HashFor[a] \in Hashes
    BY BucketAssumption
<1>2. InChain(HashFor[a]) = {b \in InUse : HashFor[buckets[b].address] = HashFor[a]}
    BY <1>1, ChainsHold
<1> QED
    BY <1>1, <1>2 DEF Known, InUse

LEMMA RateLimitIs ==
  ASSUME NEW b, NEW s
  PROVE  /\ SVC_RateLimit(b, s).buckets = [s.buckets EXCEPT ![b] = Rated(s.buckets[b])]
         /\ SVC_RateLimit(b, s).chain = s.chain /\ SVC_RateLimit(b, s).bucket = b
         /\ SVC_RateLimit(b, s).granted = Granted(Leaked(s.buckets[b]))
BY DEF SVC_RateLimit, Rated

LEMMA AskStep ==
  ASSUME BucketInd, NEW a \in Addresses, SVC_RateLimitAddress(a)
  PROVE  BucketInd'
<1>1. /\ time \in 0..MaxTime /\ owed \in [Addresses \ OtherTypes -> Nat] /\ Chained(buckets, chain)
      /\ Accounted(buckets, owed, time)
    BY DEF BucketInd
<1>2. /\ buckets' = Answer(a).buckets /\ chain' = Answer(a).chain /\ time' = time
      /\ owed' = IF Answer(a).granted /\ a \notin OtherTypes THEN [owed EXCEPT ![a] = @ + Period] ELSE owed
    BY DEF SVC_RateLimitAddress
<1>3. ASSUME NEW b \in Numbers, NEW s, Answer(a) = SVC_RateLimit(b, s), s.buckets[b].address = a,
             Chained(s.buckets, s.chain), Accounted(s.buckets, owed, time)
      PROVE  BucketInd'
  <2>1. /\ buckets' = [s.buckets EXCEPT ![b] = Rated(s.buckets[b])] /\ chain' = s.chain
        /\ owed' = Owing(owed, a, s.buckets[b])
    <3>1. /\ Answer(a).buckets = [s.buckets EXCEPT ![b] = Rated(s.buckets[b])] /\ Answer(a).chain = s.chain
          /\ Answer(a).granted = Granted(Leaked(s.buckets[b]))
      <4> DEFINE answer == SVC_RateLimit(b, s)
      <4>1. /\ answer.buckets = [s.buckets EXCEPT ![b] = Rated(s.buckets[b])] /\ answer.chain = s.chain
            /\ answer.granted = Granted(Leaked(s.buckets[b]))
          BY RateLimitIs
      <4> HIDE DEF answer
      <4>2. Answer(a) = answer
          BY <1>3 DEF answer
      <4> QED
          BY <4>1, <4>2
    <3>2. buckets' = [s.buckets EXCEPT ![b] = Rated(s.buckets[b])] /\ chain' = s.chain
        BY <1>2, <3>1
    <3>3. owed' = Owing(owed, a, s.buckets[b])
        BY <1>2, <3>1 DEF Owing
    <3> QED
        BY <3>2, <3>3
  <2>2. Chained(buckets', chain') /\ owed' \in [Addresses \ OtherTypes -> Nat] /\ Accounted(buckets', owed', time)
      BY <1>1, <1>3, <2>1, RateKeeps
  <2> QED
      BY <1>1, <1>2, <2>2 DEF BucketInd
<1>4. CASE Known(a) # {}
  <2> DEFINE b == Min(Known(a))
             s == [buckets |-> buckets, chain |-> chain]
  <2>1. Known(a) \in SUBSET Numbers /\ \A c \in Known(a) : buckets[c].address = a
      BY <1>1, KnownIs
  <2>2. b \in Numbers /\ s.buckets[b].address = a
      BY <1>4, <2>1, LeastNumber
  <2>3. Answer(a) = SVC_RateLimit(b, s) /\ s.buckets = buckets /\ s.chain = chain
      BY <1>4 DEF Answer
  <2> HIDE DEF b, s
  <2> QED
      BY <1>1, <1>3, <2>2, <2>3
<1>5. CASE Known(a) = {} /\ FreeBuckets # {}
  <2> DEFINE b == Min(FreeBuckets)
             s == GivenTo(a, b, TakenOut(b))
  <2>1. FreeBuckets \in SUBSET Numbers /\ \A c \in FreeBuckets : buckets[c].address = Unused \/ Expired(c)
      BY DEF FreeBuckets, InUse
  <2>2. b \in Numbers /\ (buckets[b].address = Unused \/ Expired(b))
      BY <1>5, <2>1, LeastNumber
  <2>3. a \in OtherTypes \/ \A c \in Numbers : buckets[c].address # a
      BY <1>1, <1>5, KnownIs
  <2>4. Answer(a) = SVC_RateLimit(b, s)
      BY <1>5 DEF Answer
  <2> HIDE DEF b
  <2>5. Chained(s.buckets, s.chain) /\ Accounted(s.buckets, owed, time) /\ s.buckets[b].address = a
      BY <2>2, <2>3, GiveAccounted
  <2> HIDE DEF s
  <2> QED
      BY <1>3, <2>2, <2>4, <2>5
<1>6. CASE Known(a) = {} /\ FreeBuckets = {}
  <2>1. Answer(a) = [buckets |-> buckets, chain |-> chain, bucket |-> None, granted |-> FALSE]
      BY <1>6 DEF Answer
  <2>2. UNCHANGED bucketVars
      BY <1>2, <2>1 DEF bucketVars
  <2> QED
      BY <1>1, <2>2 DEF BucketInd, bucketVars
<1> QED
    BY <1>4, <1>5, <1>6

LEMMA TickStep ==
  ASSUME BucketInd, BucketTick PROVE BucketInd'
<1>1. /\ time \in 0..MaxTime /\ owed \in [Addresses \ OtherTypes -> Nat] /\ Chained(buckets, chain)
      /\ Accounted(buckets, owed, time) /\ MaxTime \in Nat
    BY RatesAreNumbers DEF BucketInd
<1>2. /\ time' = time + 1 /\ buckets' = buckets /\ chain' = chain /\ time < MaxTime
      /\ owed' = [a \in DOMAIN owed |-> IF owed[a] > 0 THEN owed[a] - 1 ELSE 0]
    BY DEF BucketTick
<1>3. owed' \in [Addresses \ OtherTypes -> Nat]
      /\ \A a \in Addresses \ OtherTypes : owed'[a] = IF owed[a] > 0 THEN owed[a] - 1 ELSE 0
    BY <1>1, <1>2
<1>4. time' \in 0..MaxTime
    BY <1>1, <1>2
<1>5. ASSUME NEW a \in Addresses \ OtherTypes, NEW b \in Numbers, buckets[b].address = a
      PROVE  \E q \in 0..time' : Keeps(buckets[b], owed'[a], time', q)
  <2>1. PICK r \in 0..time : Keeps(buckets[b], owed[a], time, r)
      BY <1>1, <1>5 DEF Accounted
  <2> DEFINE u == buckets[b].burst
             o == owed[a]
             d == time - r
             e == time' - r
             n == owed'[a]
  <2>2. r \in 0..time' /\ e = d + 1 /\ d \in Nat
      BY <1>1, <1>2
  <2>3. o \in Nat /\ n = (IF o > 0 THEN o - 1 ELSE 0) /\ u \in Nat /\ Period \in Nat
      BY <1>1, <1>3, RatesAreNumbers DEF Chained, BucketsTyped, Bucket
  <2>4. Account(u, o, d) /\ buckets[b].lastTime = Signed(r)
      BY <2>1 DEF Keeps
  <2> HIDE DEF u, o, d, e, n
  <2>5. Account(u, n, e)
    <3>1. (u + 1) * Period \in Int /\ u * Period \in Int
        BY <2>3
    <3> QED
        BY <2>2, <2>3, <2>4, <3>1 DEF Account
  <2>6. Keeps(buckets[b], owed'[a], time', r)
      BY <2>4, <2>5 DEF Keeps, u, n, e
  <2> QED
      BY <2>2, <2>6
<1>6. ASSUME NEW a \in Addresses \ OtherTypes, \A b \in Numbers : buckets[b].address # a
      PROVE  owed'[a] < Period
  <2>1. owed[a] < Period /\ owed[a] \in Nat /\ Period \in Nat
      BY <1>1, <1>6, RatesAreNumbers DEF Accounted
  <2> QED
      BY <1>3, <2>1
<1>7. Accounted(buckets', owed', time')
    BY <1>2, <1>5, <1>6 DEF Accounted
<1> QED
    BY <1>1, <1>2, <1>3, <1>4, <1>7 DEF BucketInd

LEMMA BucketsBegin ==
  ASSUME BucketInit PROVE BucketInd
<1>1. /\ time = 0 /\ owed = [a \in Addresses \ OtherTypes |-> 0]
      /\ buckets = [b \in Numbers |-> EmptyBucket] /\ chain = [h \in Hashes |-> None]
    BY DEF BucketInit
<1>2. time \in 0..MaxTime /\ owed \in [Addresses \ OtherTypes -> Nat]
    BY <1>1, RatesAreNumbers
<1>3. \A b \in Numbers : buckets[b] = EmptyBucket /\ buckets[b].address = Unused /\ ~Used(buckets, b)
    BY <1>1, EmptyIsBucket DEF Used
<1>4. BucketsTyped(buckets, chain)
    BY <1>1, EmptyIsBucket DEF BucketsTyped
<1>5. Linked(buckets, chain)
    BY <1>1, <1>3, NoneIsNoNumber DEF Linked
<1>6. AllReached(buckets, chain)
    BY <1>3 DEF AllReached
<1>7. OneEach(buckets)
    BY <1>3, BucketAssumption DEF OneEach
<1>8. Accounted(buckets, owed, time)
    BY <1>1, <1>3, BucketAssumption, RatesAreNumbers DEF Accounted
<1> QED
    BY <1>2, <1>4, <1>5, <1>6, <1>7, <1>8 DEF BucketInd, Chained

LEMMA BucketsKept == BucketSpec => []BucketInd
<1>1. BucketInd /\ [BucketNext]_bucketVars => BucketInd'
  <2> SUFFICES ASSUME BucketInd, [BucketNext]_bucketVars PROVE BucketInd'
      OBVIOUS
  <2>1. ASSUME NEW a \in Addresses, SVC_RateLimitAddress(a) PROVE BucketInd'
      BY <2>1, AskStep
  <2>2. CASE BucketTick
      BY <2>2, TickStep
  <2>3. CASE UNCHANGED bucketVars
      BY <2>3 DEF BucketInd, bucketVars
  <2> QED
      BY <2>1, <2>2, <2>3 DEF BucketNext
<1> QED
    BY <1>1, BucketsBegin, PTL DEF BucketSpec

(* What follows from it. *)
LEMMA ChainsRight ==
  ASSUME BucketInd PROVE ChainInv
<1>1. /\ time \in 0..MaxTime /\ owed \in [Addresses \ OtherTypes -> Nat]
      /\ BucketsTyped(buckets, chain) /\ Linked(buckets, chain) /\ OneEach(buckets) /\ Chained(buckets, chain)
    BY DEF BucketInd, Chained
<1>2. BucketTypeOK
    BY <1>1 DEF BucketTypeOK, BucketsTyped, Bucket
<1>3. \A h \in Hashes : InChain(h) = {b \in InUse : HashFor[buckets[b].address] = h}
    BY <1>1, ChainsHold
<1>4. \A h \in Hashes : chain[h] # None => buckets[chain[h]].prev = None
    BY <1>1 DEF BucketsTyped, Linked
<1>5. \A b, c \in InUse : buckets[b].next = c <=> buckets[c].prev = b
    BY <1>1 DEF InUse, Used, Linked
<1>6. \A b, c \in InUse : (buckets[b].address = buckets[c].address /\ b # c) => buckets[b].address \in OtherTypes
    BY <1>1 DEF InUse, OneEach, BucketsTyped, Bucket
<1> QED
    BY <1>2, <1>3, <1>4, <1>5, <1>6 DEF ChainInv

LEMMA RatesRight ==
  ASSUME BucketInd PROVE RateBounded
<1>1. /\ time \in Nat /\ owed \in [Addresses \ OtherTypes -> Nat] /\ Accounted(buckets, owed, time)
      /\ buckets \in [Numbers -> Bucket]
    BY RatesAreNumbers DEF BucketInd, Chained, BucketsTyped
<1>2. Burst \in Nat /\ Period \in Nat /\ (Burst + 1) * Period = Burst * Period + Period /\ Burst * Period >= 0
      /\ Burst * Period \in Int /\ Period > 0
    BY RatesAreNumbers
<1> SUFFICES ASSUME NEW a \in Addresses \ OtherTypes PROVE owed[a] < (Burst + 1) * Period
    BY <1>1 DEF RateBounded
<1>3. CASE \A b \in Numbers : buckets[b].address # a
  <2>1. owed[a] < Period /\ owed[a] \in Nat
      BY <1>1, <1>3 DEF Accounted
  <2> QED
      BY <1>2, <2>1
<1>4. CASE \E b \in Numbers : buckets[b].address = a
  <2>1. PICK b \in Numbers : buckets[b].address = a
      BY <1>4
  <2>2. PICK r \in 0..time : Keeps(buckets[b], owed[a], time, r)
      BY <1>1, <2>1 DEF Accounted
  <2> DEFINE u == buckets[b].burst
             o == owed[a]
             d == time - r
  <2>3. d \in Nat /\ o \in Nat /\ u \in 0..Burst
      BY <1>1 DEF Bucket
  <2>4. Account(u, o, d)
      BY <2>2 DEF Keeps
  <2> HIDE DEF u, o, d
  <2>5. (u + 1) * Period = u * Period + Period /\ u * Period <= Burst * Period /\ u * Period \in Int
      BY <1>2, <2>3
  <2>6. o < (Burst + 1) * Period
      BY <1>2, <2>3, <2>4, <2>5 DEF Account
  <2> QED
      BY <2>6 DEF o
<1> QED
    BY <1>3, <1>4

LEMMA RefusalsRight ==
  ASSUME BucketInd PROVE RefusedRight
<1>1. /\ time \in 0..MaxTime /\ owed \in [Addresses \ OtherTypes -> Nat] /\ Chained(buckets, chain)
      /\ Accounted(buckets, owed, time) /\ buckets \in [Numbers -> Bucket]
    BY DEF BucketInd, Chained, BucketsTyped
<1> SUFFICES ASSUME NEW a \in Addresses, ~Answer(a).granted
             PROVE  IF Answer(a).bucket = None
                    THEN \A b \in Numbers : Interval(b) <= Burst * Period \/ buckets[b].lastTime <= 0
                    ELSE a \notin OtherTypes /\ owed[a] > (Burst - 1) * Period
    BY DEF RefusedRight
<1>2. CASE Known(a) # {}
  <2> DEFINE b == Min(Known(a))
             s == [buckets |-> buckets, chain |-> chain]
  <2>1. a \notin OtherTypes /\ Known(a) \in SUBSET Numbers /\ \A c \in Known(a) : buckets[c].address = a
      BY <1>1, <1>2, KnownIs
  <2>2. b \in Numbers /\ buckets[b].address = a
      BY <1>2, <2>1, LeastNumber
  <2>3. Answer(a) = SVC_RateLimit(b, s) /\ s.buckets = buckets
      BY <1>2 DEF Answer
  <2> HIDE DEF b, s
  <2>4. Answer(a).bucket = b /\ Answer(a).granted = Granted(Leaked(buckets[b]))
    <3>1. SVC_RateLimit(b, s).bucket = b /\ SVC_RateLimit(b, s).granted = Granted(Leaked(s.buckets[b]))
        BY RateLimitIs
    <3> QED
        BY <2>3, <3>1
  <2>5. Answer(a).bucket # None
      BY <2>2, <2>4, NoneIsNoNumber
  <2> DEFINE k == buckets[b]
             l == Leaked(k)
  <2>6. PICK r \in 0..time : Keeps(k, owed[a], time, r)
      BY <1>1, <2>1, <2>2 DEF Accounted
  <2>7. k \in Bucket /\ owed[a] \in Nat /\ l \in Bucket
      BY <1>1, <2>1, <2>2, LeakedIsBucket
  <2>8. PICK q \in 0..time : time - q \in 0..(Period - 1) /\ Keeps(l, owed[a], time, q)
      BY <1>1, <2>6, <2>7, LeakedKeeps
  <2>9. l.burst = Burst
    <3>1. l.burst \in 0..Burst /\ Burst \in Nat /\ ~(l.burst < Burst)
        BY <2>4, <2>7, RatesAreNumbers DEF Bucket, Granted
    <3> QED
        BY <3>1
  <2>10. owed[a] > (Burst - 1) * Period
      BY <2>7, <2>8, <2>9, AccountRefuses DEF Keeps
  <2> QED
      BY <2>1, <2>5, <2>10
<1>3. CASE Known(a) = {} /\ FreeBuckets # {}
  <2> DEFINE b == Min(FreeBuckets)
             s == GivenTo(a, b, TakenOut(b))
             k == s.buckets[b]
  <2>1. FreeBuckets \in SUBSET Numbers
      BY DEF FreeBuckets
  <2>2. b \in Numbers
      BY <1>3, <2>1, LeastNumber
  <2>3. Answer(a) = SVC_RateLimit(b, s)
      BY <1>3 DEF Answer
  <2> HIDE DEF b
  <2>4. Chained(TakenOut(b).buckets, TakenOut(b).chain)
      BY <1>1, <2>2, TakenOutIs, OutKeeps
  <2>5. k.lastTime = Now /\ k.burst = 0 /\ s.buckets \in [Numbers -> Bucket]
      BY <1>1, <2>2, <2>4, GivenToIs DEF LinkedIn
  <2>6. Answer(a).granted = Granted(Leaked(k))
    <3>1. SVC_RateLimit(b, s).granted = Granted(Leaked(s.buckets[b]))
        BY RateLimitIs
    <3> QED
        BY <2>3, <3>1
  <2> HIDE DEF s
  <2>7. k \in Bucket
      BY <2>2, <2>5
  <2>8. time \in 0..time /\ time - time = 0 /\ 0 \in Nat /\ time \in Nat
      BY <1>1, RatesAreNumbers
  <2>9. Keeps(k, 0, time, time)
      BY <2>5, <2>8, AccountBegins DEF Keeps, Now
  <2>10. PICK q \in 0..time : time - q \in 0..(Period - 1) /\ Keeps(Leaked(k), 0, time, q)
      BY <1>1, <2>7, <2>8, <2>9, LeakedKeeps
  <2>11. Leaked(k).burst \in 0..Burst /\ Burst \in Nat /\ Period \in Nat
      BY <1>1, <2>7, LeakedIsBucket, RatesAreNumbers DEF Bucket
  <2>12. ~(Leaked(k).burst < Burst)
      BY <2>6 DEF Granted
  <2>13. 0 > (Burst - 1) * Period
    <3>1. Leaked(k).burst = Burst
        BY <2>11, <2>12
    <3> QED
        BY <2>8, <2>10, <3>1, AccountRefuses DEF Keeps
  <2>14. (Burst - 1) * Period >= 0
      BY RatesAreNumbers
  <2>15. (Burst - 1) * Period \in Int
      BY RatesAreNumbers
  <2> QED
      BY <2>13, <2>14, <2>15
<1>4. CASE Known(a) = {} /\ FreeBuckets = {}
  <2>1. Answer(a).bucket = None
      BY <1>4 DEF Answer
  <2>2. ASSUME NEW b \in Numbers PROVE Interval(b) <= Burst * Period \/ buckets[b].lastTime <= 0
    <3>1. ~Expired(b)
        BY <1>4 DEF FreeBuckets
    <3>2. buckets[b].lastTime \in Int /\ Burst * Period \in Int
        BY <1>1, RatesAreNumbers DEF Bucket
    <3>3. Interval(b) \in Int
      <4>1. Now \in Int
          BY <1>1, SignedIs DEF Now
      <4>2. Now - buckets[b].lastTime \in Int
          BY <3>2, <4>1
      <4> QED
          BY <4>2, SignedIs DEF Interval
    <3> QED
        BY <3>1, <3>2, <3>3 DEF Expired
  <2> QED
      BY <2>1, <2>2
<1> QED
    BY <1>2, <1>3, <1>4

(* However often buckets are taken from one address and given to another,  *)
(* each in use is found from the hash of its address, and only there: no   *)
(* chain is cut or runs into another (SVC_BucketForAddress).               *)
THEOREM BucketsAreFound == BucketSpec => []ChainInv
<1>1. BucketInd => ChainInv
    BY ChainsRight
<1> QED
    BY <1>1, BucketsKept, PTL

(* For any burst, period and number of buckets, and a clock of any width   *)
(* that becomes negative, no address is granted more than the burst and    *)
(* one request, and one more each period (SVC_RateLimit).                  *)
THEOREM RatesAreBounded == BucketSpec => []RateBounded
<1>1. BucketInd => RateBounded
    BY RatesRight
<1> QED
    BY <1>1, BucketsKept, PTL

(* ... and none is refused who has not asked for nearly as much, unless    *)
(* all buckets are taken by those who have asked lately.                   *)
THEOREM NoneRefusedWithoutReason == BucketSpec => []RefusedRight
<1>1. BucketInd => RefusedRight
    BY RefusalsRight
<1> QED
    BY <1>1, BucketsKept, PTL

-----------------------------------------------------------------------------
(* Downloads. *)

(* A position in the downloads: what the client has yet to say.  It asks   *)
(* for a file (block -1), acknowledges its blocks, the one at the end      *)
(* included, and in the end says "donedl", and "stopdl" from then on.      *)
Positions == [file : Files \cup {0}, block : Int]
At(f, b) == [file |-> f, block |-> b]
NextFile(f) == IF f < Len(NumBlocks) THEN f + 1 ELSE 0
After(p) ==
    IF p.file = 0 THEN At(0, 0)
    ELSE IF p.block < NumBlocks[p.file] THEN At(p.file, p.block + 1)
    ELSE At(NextFile(p.file), -1)
CommandAt(p) ==
    IF p.file = 0 THEN Command(IF p.block = -1 THEN "donedl" ELSE "stopdl", 0)
    ELSE IF p.block = -1 THEN Command("download", p.file)
    ELSE Command("nextdl", p.block)
NotAfter(p, q) ==
    IF p.file = q.file THEN p.block <= q.block
    ELSE q.file = 0 \/ (p.file # 0 /\ p.file < q.file)
ClientAt == At(wanted, downloadBlock)

(* The positions of the commands on their way, and last the client's: they *)
(* follow each other, so that the first is where the server is.            *)
ScriptOf(pos, said, c) ==
    /\ pos \in [1..Len(said) + 1 -> Positions]
    /\ pos[Len(said) + 1] = c
    /\ \A i \in 1..Len(said) : said[i] = CommandAt(pos[i]) /\ pos[i + 1] = After(pos[i])
    /\ \A i \in 1..Len(said) + 1 : NotAfter(pos[i], c)
Script(pos) == ScriptOf(pos, commands, ClientAt)

(* The window of a file that is open.  The blocks before h have been sent; *)
(* where the window is sent again there are no more than W of them ahead.  *)
WindowRight(pos, h) ==
    /\ downloadName \in Files \ Refused /\ pos[1] = At(downloadName, downloadClientBlock)
    /\ downloadClientBlock <= h /\ h <= downloadCurrentBlock
    /\ downloadCurrentBlock <= downloadClientBlock + W
    /\ downloadCurrentBlock <= NumBlocks[downloadName] + 1
    /\ downloadXmitBlock <= h /\ h <= downloadXmitBlock + W
    /\ \A k \in downloadClientBlock..(downloadCurrentBlock - 1) :
          downloadBlocks[Slot(k)] = Block(downloadName, k)
    /\ \/ wanted = downloadName /\ downloadBlock <= h
       \/ /\ wanted = NextFile(downloadName) /\ downloadBlock = 0
          /\ h = NumBlocks[downloadName] + 1
    /\ \A i \in 1..Len(commands) : pos[i].file = downloadName => pos[i].block < h

(* The server is where the first command finds it. *)
ServerAt(pos, h) ==
    IF open THEN WindowRight(pos, h)
    ELSE /\ downloadBlock = 0
         /\ \/ downloadName = 0 /\ pos[1] = At(wanted, -1)
            \/ downloadName = 0 /\ wanted = 0 /\ pos[1] = At(0, 0)
            \/ /\ wanted # 0 /\ pos[1] = At(wanted, 0) /\ commands = <<>>
               /\ downloadName = wanted \/ (downloadName = 0 /\ wanted \in Refused)

(* Of the messages on their way, sent[i] is the file and the block that    *)
(* the i-th was sent for.  One that the client may take holds that block;  *)
(* one of a file that it has is of the last window of that file.           *)
BlockSent(m, p, h) ==
    /\ p.file \notin Refused /\ p.block <= NumBlocks[p.file]
    /\ m.block = p.block % BlockNumbers /\ m.hasSize = (p.block = 0)
    /\ IF p.file = wanted
       THEN /\ open /\ downloadName = wanted
            /\ p.block < downloadBlock + W /\ downloadBlock <= p.block + W
            /\ downloadBlock <= p.block => m.data = Block(p.file, p.block)
       ELSE /\ wanted = NextFile(p.file) /\ downloadBlock = 0
            /\ p.block + W > NumBlocks[p.file]
    /\ open /\ p.file = downloadName => p.block < h

BlocksInOrder(p, q) ==
    /\ p.file = wanted => q.file = wanted
    /\ p.file = q.file => p.block < q.block + W

BlocksSent(sent, h) ==
    /\ sent \in [1..Len(toClient) -> [file : Files, block : Nat]]
    /\ \A i \in 1..Len(toClient) : ~toClient[i].refused => BlockSent(toClient[i], sent[i], h)
    /\ \A i, j \in 1..Len(toClient) :
          i < j /\ ~toClient[i].refused /\ ~toClient[j].refused => BlocksInOrder(sent[i], sent[j])

DownloadShape ==
    /\ DownloadTypeOK /\ SavedWhole /\ NeverBroken
    /\ wanted = 0 => downloadBlock = 0
    /\ wanted # 0 => downloadBlock <= NumBlocks[wanted]

DownloadInd ==
    /\ DownloadShape
    /\ \E pos, sent, h : h \in Nat /\ Script(pos) /\ ServerAt(pos, h) /\ BlocksSent(sent, h)

(* No window that is the last of a file holds a block of number zero: in   *)
(* particular no file is shorter than a window. *)
NoZeroAtTheEnd ==
    \A f \in Files : \A k \in (NumBlocks[f] + 1 - W)..NumBlocks[f] : k % BlockNumbers # 0

-----------------------------------------------------------------------------
LEMMA BlockSizes ==
  /\ W \in Nat \ {0} /\ BlockNumbers \in Nat \ {0} /\ W < BlockNumbers
  /\ Len(NumBlocks) \in Nat \ {0} /\ Files = 1..Len(NumBlocks) /\ 0 \notin Files /\ Files \subseteq Nat
  /\ \A f \in Files : NumBlocks[f] \in Nat
BY DownloadAssumption DEF W, Files

LEMMA NextFiles ==
  ASSUME NEW f \in Files
  PROVE  /\ NextFile(f) \in Files \cup {0} /\ NextFile(f) # f /\ f # 0
         /\ NextFile(f) # 0 => f < NextFile(f)
BY BlockSizes DEF NextFile

LEMMA BlocksHold ==
  ASSUME NEW f \in Files, NEW k \in Nat
  PROVE  /\ Block(f, k) \in Data
         /\ k < NumBlocks[f] => Block(f, k) = <<f, k>>
         /\ Block(f, k) = EOF <=> k >= NumBlocks[f]
<1>1. f # 0 /\ f \in Nat /\ NumBlocks[f] \in Nat
    BY BlockSizes
<1>2. <<f, k>> # <<0, 0>>
    BY <1>1
<1> QED
    BY <1>1, <1>2 DEF Block, EOF, Data

LEMMA SlotsOfBlocks ==
  /\ \A k \in Int : Slot(k) \in Slots
  /\ \A i, j \in Int : i < j /\ j - i < W => Slot(i) # Slot(j)
<1>1. W \in Nat \ {0}
    BY BlockSizes
<1>2. ASSUME NEW k \in Int PROVE Slot(k) \in Slots
    BY <1>1, <1>2, RemainderInRange DEF Slot, Slots
<1>3. ASSUME NEW i \in Int, NEW j \in Int, i < j, j - i < W PROVE Slot(i) # Slot(j)
    BY <1>1, <1>3, RemaindersDiffer DEF Slot
<1> QED
    BY <1>2, <1>3

(* Reading on keeps the window in the ring. *)
LEMMA RingKept ==
  ASSUME NEW f \in Files, NEW acked \in Nat, NEW from \in Nat, NEW to \in Nat,
         acked <= from, to <= acked + W,
         downloadBlocks \in [Slots -> Data],
         \A k \in acked..(from - 1) : downloadBlocks[Slot(k)] = Block(f, k)
  PROVE  /\ RingWith(f, from, to) \in [Slots -> Data]
         /\ \A k \in acked..(to - 1) : RingWith(f, from, to)[Slot(k)] = Block(f, k)
<1> DEFINE read(s) == {k \in from..(to - 1) : Slot(k) = s}
           held(s) == IF read(s) = {} THEN downloadBlocks[s]
                      ELSE Block(f, CHOOSE k \in read(s) : \A j \in read(s) : j <= k)
<1>0. RingWith(f, from, to) = [s \in Slots |-> held(s)]
    BY DEF RingWith
<1>1. ASSUME NEW k \in acked..(to - 1), NEW j \in acked..(to - 1), Slot(k) = Slot(j)
      PROVE  k = j
  <2>1. k \in Int /\ j \in Int /\ k - j < W /\ j - k < W
      BY BlockSizes
  <2> QED
      BY <1>1, <2>1, SlotsOfBlocks
<1>2. ASSUME NEW k \in from..(to - 1) PROVE held(Slot(k)) = Block(f, k)
  <2>1. k \in read(Slot(k)) /\ \A j \in read(Slot(k)) : j = k
      BY <1>1
  <2>2. \A i \in read(Slot(k)) : (\A j \in read(Slot(k)) : j <= i) => i = k
      BY <2>1
  <2>3. (CHOOSE i \in read(Slot(k)) : \A j \in read(Slot(k)) : j <= i) = k
    <3>1. k \in Int /\ k <= k
        OBVIOUS
    <3>2. \E i \in read(Slot(k)) : \A j \in read(Slot(k)) : j <= i
        BY <2>1, <3>1
    <3> HIDE DEF read
    <3> QED
        BY <2>2, <3>2
  <2> QED
      BY <2>1, <2>3
<1>3. ASSUME NEW s \in Slots PROVE held(s) \in Data
  <2>1. CASE read(s) = {}
      BY <2>1
  <2>2. CASE read(s) # {}
    <3>1. PICK k \in from..(to - 1) : Slot(k) = s
        BY <2>2
    <3>2. k \in Nat
        OBVIOUS
    <3> HIDE DEF held, read
    <3>3. held(s) = Block(f, k)
        BY <1>2, <3>1
    <3> QED
        BY <3>2, <3>3, BlocksHold
  <2> QED
      BY <2>1, <2>2
<1>4. ASSUME NEW k \in acked..(to - 1) PROVE held(Slot(k)) = Block(f, k)
  <2>1. CASE k >= from
      BY <1>2, <2>1
  <2>2. CASE k < from
    <3>1. read(Slot(k)) = {}
        BY <1>1, <2>2
    <3> QED
        BY <2>2, <3>1
  <2> QED
      BY <2>1, <2>2
<1>5. \A k \in acked..(to - 1) : Slot(k) \in Slots
    BY SlotsOfBlocks
<1> HIDE DEF held
<1> QED
    BY <1>0, <1>3, <1>4, <1>5
LEMMA ContentsAre ==
  ASSUME NEW f \in Files
  PROVE  Contents(f) \in Seq(Data) /\ DOMAIN Contents(f) = 1..NumBlocks[f]
<1>1. f \in Nat /\ NumBlocks[f] \in Nat
    BY BlockSizes
<1>2. \A k \in 1..NumBlocks[f] : <<f, k - 1>> \in Data
    BY <1>1 DEF Data
<1>3. Contents(f) \in [1..NumBlocks[f] -> Data]
    BY <1>2 DEF Contents
<1> QED
    BY <1>1, <1>3

LEMMA DownloadBegins == DownloadInit => DownloadInd
<1> SUFFICES ASSUME DownloadInit PROVE DownloadInd
    OBVIOUS
<1> DEFINE pos == [i \in 1..2 |-> At(1, i - 2)]
           sent == [i \in 1..0 |-> At(1, 0)]
<1>1. 1 \in Files /\ NumBlocks[1] \in Nat /\ W \in Nat \ {0}
    BY BlockSizes
<1>2. DownloadTypeOK
  <2>1. Unsaved \in Seq(Data) /\ EOF \in Data /\ <<>> \in Seq(Data)
      BY DEF Unsaved, Data
  <2>2. commands \in Seq([op : {"download", "nextdl", "stopdl", "donedl"}, arg : Nat])
      BY DEF DownloadInit, Command
  <2>4. saved \in [Files -> Seq(Data)] /\ downloadBlocks \in [Slots -> Data] /\ written \in Seq(Data)
      BY <2>1 DEF DownloadInit
  <2>5. toClient \in Seq(Messages)
      BY DEF DownloadInit
  <2> QED
      BY <1>1, <2>2, <2>4, <2>5 DEF DownloadInit, DownloadTypeOK
<1>3. DownloadShape
  <2>1. <<>> = [k \in 1..0 |-> <<1, k - 1>>]
      OBVIOUS
  <2> QED
      BY <1>1, <1>2, <2>1 DEF DownloadInit, DownloadShape, SavedWhole, NeverBroken
<1>4. Len(commands) = 1 /\ commands[1] = Command("download", 1)
    BY DEF DownloadInit
<1>5. /\ pos \in [1..2 -> Positions] /\ pos[1] = At(1, -1) /\ pos[2] = At(1, 0)
    BY <1>1 DEF Positions, At
<1>6. CommandAt(At(1, -1)) = Command("download", 1) /\ After(At(1, -1)) = At(1, 0)
    BY <1>1 DEF CommandAt, After, At
<1>7. NotAfter(At(1, -1), At(1, 0)) /\ NotAfter(At(1, 0), At(1, 0)) /\ ClientAt = At(1, 0)
    BY DEF NotAfter, At, ClientAt, DownloadInit
<1> HIDE DEF pos
<1>8. Script(pos)
    BY <1>4, <1>5, <1>6, <1>7 DEF Script, ScriptOf
<1>9. ServerAt(pos, 0)
    BY <1>5 DEF ServerAt, DownloadInit
<1>10. BlocksSent(sent, 0)
    BY DEF BlocksSent, DownloadInit
<1> QED
    BY <1>3, <1>8, <1>9, <1>10 DEF DownloadInd

(* Messages. *)
Origins == [file : Files, block : Nat]

LEMMA SentOneMore ==
  ASSUME toClient \in Seq(Messages), NEW m \in Messages, toClient' = Append(toClient, m),
         NEW sent, NEW h \in Nat, NEW g \in Nat, NEW p \in Origins, BlocksSent(sent, h),
         UNCHANGED wanted,
         \A x \in Messages, q \in Origins : BlockSent(x, q, h) => BlockSent(x, q, g)',
         \A x \in Messages, q \in Origins : x = m /\ q = p /\ ~x.refused => BlockSent(x, q, g)',
         ~m.refused => \A x \in Messages, q \in Origins : BlockSent(x, q, h) => BlocksInOrder(q, p)
  PROVE  \E s : BlocksSent(s, g)'
<1> DEFINE n == Len(toClient)
<1>1. PICK r : r = [i \in 1..n + 1 |-> IF i <= n THEN sent[i] ELSE p]
    OBVIOUS
<1>2. /\ n \in Nat /\ Len(toClient') = n + 1 /\ toClient'[n + 1] = m
      /\ \A i \in 1..n : toClient'[i] = toClient[i] /\ toClient[i] \in Messages
    OBVIOUS
<1>3. sent \in [1..n -> Origins]
    BY DEF BlocksSent, Origins
<1>4. /\ r \in [1..n + 1 -> Origins] /\ r[n + 1] = p
      /\ \A i \in 1..n : r[i] = sent[i] /\ sent[i] \in Origins
    BY <1>1, <1>2, <1>3
<1>5. /\ \A i \in 1..n : ~toClient[i].refused => BlockSent(toClient[i], sent[i], h)
      /\ \A i, j \in 1..n :
            i < j /\ ~toClient[i].refused /\ ~toClient[j].refused => BlocksInOrder(sent[i], sent[j])
    BY DEF BlocksSent
<1>6. PICK q, q2 : q = toClient /\ q2 = toClient'
    OBVIOUS
<1>7. \A i \in 1..n + 1 : ~q2[i].refused => BlockSent(q2[i], r[i], g)'
  <2>1. ASSUME NEW i \in 1..n, ~q2[i].refused PROVE BlockSent(q2[i], r[i], g)'
    <3>1. q2[i] = toClient[i] /\ r[i] = sent[i]
        BY <1>2, <1>4, <1>6
    <3>2. BlockSent(q2[i], r[i], h)
        BY <1>5, <2>1, <3>1
    <3>3. q2[i] \in Messages /\ r[i] \in Origins
        BY <1>2, <1>4, <3>1
    <3> QED
        BY <3>2, <3>3
  <2>2. ASSUME NEW i \in 1..n + 1, i = n + 1, ~q2[i].refused PROVE BlockSent(q2[i], r[i], g)'
    <3>1. q2[i] = m /\ r[i] = p /\ q2[i] \in Messages /\ r[i] \in Origins
        BY <1>2, <1>4, <1>6, <2>2
    <3> QED
        BY <2>2, <3>1
  <2>3. \A i \in 1..n + 1 : i \in 1..n \/ i = n + 1
      BY <1>2
  <2> HIDE DEF n
  <2> QED
      BY <2>1, <2>2, <2>3
<1>8. ASSUME NEW i \in 1..n + 1, NEW j \in 1..n + 1, i < j, ~q2[i].refused, ~q2[j].refused
      PROVE  BlocksInOrder(r[i], r[j])'
  <2>1. i \in 1..n /\ q2[i] = toClient[i] /\ r[i] = sent[i] /\ r[i] \in Origins /\ q2[i] \in Messages
      BY <1>2, <1>4, <1>6, <1>8
  <2>2. CASE j = n + 1
    <3>1. q2[j] = m /\ r[j] = p
        BY <1>2, <1>4, <1>6, <2>2
    <3>2. BlockSent(q2[i], r[i], h)
        BY <1>5, <1>8, <2>1
    <3>3. BlocksInOrder(r[i], r[j])
        BY <1>8, <2>1, <3>1, <3>2
    <3> QED
        BY <3>3 DEF BlocksInOrder
  <2>3. CASE j # n + 1
    <3>1. j \in 1..n /\ q2[j] = toClient[j] /\ r[j] = sent[j]
        BY <1>2, <1>4, <1>6, <2>3
    <3>2. BlocksInOrder(r[i], r[j])
        BY <1>5, <1>8, <2>1, <3>1
    <3> QED
        BY <3>2 DEF BlocksInOrder
  <2> QED
      BY <2>2, <2>3
<1>9. Len(toClient') = n + 1 /\ r \in [1..n + 1 -> [file : Files, block : Nat]]
    BY <1>2, <1>4 DEF Origins
<1> HIDE DEF n
<1>10. BlocksSent(r, g)'
    BY <1>6, <1>7, <1>8, <1>9 DEF BlocksSent
<1> QED
    BY <1>10

LEMMA SentOneLess ==
  ASSUME toClient \in Seq(Messages), toClient # <<>>, toClient' = Tail(toClient),
         NEW sent, NEW h \in Nat, BlocksSent(sent, h),
         \A x \in Messages, q \in Origins :
            BlockSent(x, q, h) /\ (~Head(toClient).refused => BlocksInOrder(sent[1], q))
               => BlockSent(x, q, h)',
         \A x \in Messages, p \in Origins, q \in Origins :
            BlockSent(x, p, h)' /\ BlocksInOrder(p, q) => BlocksInOrder(p, q)'
  PROVE  \E s : BlocksSent(s, h)'
<1> DEFINE n == Len(toClient)
<1>1. PICK r : r = [i \in 1..n - 1 |-> sent[i + 1]]
    OBVIOUS
<1>2. /\ n \in Nat \ {0} /\ Len(toClient') = n - 1 /\ toClient[1] = Head(toClient)
      /\ \A i \in 1..n - 1 : toClient'[i] = toClient[i + 1] /\ toClient[i + 1] \in Messages
    OBVIOUS
<1>3. sent \in [1..n -> Origins]
    BY DEF BlocksSent, Origins
<1>4. /\ r \in [1..n - 1 -> Origins]
      /\ \A i \in 1..n - 1 : i + 1 \in 1..n /\ r[i] = sent[i + 1] /\ sent[i + 1] \in Origins
  <2>1. n \in Nat \ {0}
      BY <1>2
  <2> HIDE DEF n
  <2>2. \A i \in 1..n - 1 : i + 1 \in 1..n
      BY <2>1
  <2>3. \A i \in 1..n - 1 : sent[i + 1] \in Origins
      BY <1>3, <2>2
  <2> QED
      BY <1>1, <2>2, <2>3
<1>5. /\ \A i \in 1..n : ~toClient[i].refused => BlockSent(toClient[i], sent[i], h)
      /\ \A i, j \in 1..n :
            i < j /\ ~toClient[i].refused /\ ~toClient[j].refused => BlocksInOrder(sent[i], sent[j])
    BY DEF BlocksSent
<1>6. PICK q2, first : q2 = toClient' /\ first = sent[1]
    OBVIOUS
<1>7. ASSUME NEW i \in 1..n - 1, ~q2[i].refused PROVE BlockSent(q2[i], r[i], h)'
  <2>1. q2[i] = toClient[i + 1] /\ r[i] = sent[i + 1] /\ i + 1 \in 1..n /\ 1 \in 1..n /\ 1 < i + 1
        /\ q2[i] \in Messages /\ r[i] \in Origins
      BY <1>2, <1>4, <1>6
  <2>2. BlockSent(q2[i], r[i], h)
      BY <1>5, <1>7, <2>1
  <2>3. ~Head(toClient).refused => BlocksInOrder(sent[1], r[i])
      BY <1>2, <1>5, <1>7, <2>1
  <2> QED
      BY <2>1, <2>2, <2>3
<1>8. ASSUME NEW i \in 1..n - 1, NEW j \in 1..n - 1, i < j, ~q2[i].refused, ~q2[j].refused
      PROVE  BlocksInOrder(r[i], r[j])'
  <2>1. /\ q2[i] = toClient[i + 1] /\ r[i] = sent[i + 1] /\ i + 1 \in 1..n /\ i + 1 < j + 1
        /\ q2[j] = toClient[j + 1] /\ r[j] = sent[j + 1] /\ j + 1 \in 1..n
        /\ q2[i] \in Messages /\ r[i] \in Origins /\ r[j] \in Origins
      BY <1>2, <1>4, <1>6, <1>8
  <2>2. BlocksInOrder(r[i], r[j])
      BY <1>5, <1>8, <2>1
  <2>3. BlockSent(q2[i], r[i], h)'
      BY <1>7, <1>8
  <2> QED
      BY <2>1, <2>2, <2>3
<1>9. Len(toClient') = n - 1 /\ r \in [1..n - 1 -> [file : Files, block : Nat]]
    BY <1>2, <1>4 DEF Origins
<1> HIDE DEF n
<1>10. BlocksSent(r, h)'
    BY <1>6, <1>7, <1>8, <1>9 DEF BlocksSent
<1> QED
    BY <1>10

LEMMA SentStays ==
  ASSUME toClient \in Seq(Messages), UNCHANGED <<toClient, wanted>>, NEW sent, NEW h \in Nat,
         BlocksSent(sent, h),
         \A x \in Messages, q \in Origins : BlockSent(x, q, h) => BlockSent(x, q, h)'
  PROVE  BlocksSent(sent, h)'
<1>1. PICK q : q = toClient
    OBVIOUS
<1>2. \A i \in 1..Len(q) : q[i] \in Messages /\ sent[i] \in Origins
    BY <1>1 DEF BlocksSent, Origins
<1>3. \A i \in 1..Len(q) : ~q[i].refused => BlockSent(q[i], sent[i], h)'
    BY <1>1, <1>2 DEF BlocksSent
<1>4. \A i, j \in 1..Len(q) :
         i < j /\ ~q[i].refused /\ ~q[j].refused => BlocksInOrder(sent[i], sent[j])'
    BY <1>1 DEF BlocksSent, BlocksInOrder
<1>5. toClient' = q /\ sent \in [1..Len(q) -> [file : Files, block : Nat]]
    BY <1>1 DEF BlocksSent
<1> QED
    BY <1>3, <1>4, <1>5 DEF BlocksSent

(* The server refuses the file, or sends a block. *)
LEMMA RefuseStep ==
  ASSUME DownloadInd, RefuseDownload PROVE DownloadInd'
<1>1. PICK pos, sent, h : h \in Nat /\ Script(pos) /\ ServerAt(pos, h) /\ BlocksSent(sent, h)
    BY DEF DownloadInd
<1>2. PICK m : m = [block |-> 0, hasSize |-> TRUE, refused |-> TRUE, data |-> EOF]
    OBVIOUS
<1>3. m \in Messages /\ m.refused /\ toClient \in Seq(Messages) /\ toClient' = Append(toClient, m)
    BY <1>2, BlockSizes DEF Messages, Data, RefuseDownload, DownloadInd, DownloadShape, DownloadTypeOK
<1>4. /\ downloadName \in Refused /\ downloadName' = 0 /\ Refused \subseteq Files
      /\ UNCHANGED <<clientVars, state, open, window, commands>>
    BY DownloadAssumption DEF RefuseDownload
<1>5. ~open
    BY <1>1, <1>4 DEF ServerAt, WindowRight
<1>6. wanted # 0 /\ pos[1] = At(wanted, 0) /\ commands = <<>> /\ downloadName = wanted /\ downloadBlock = 0
    BY <1>1, <1>4, <1>5, BlockSizes DEF ServerAt
<1>7. Script(pos)'
    BY <1>1, <1>4 DEF Script, ScriptOf, ClientAt, clientVars
<1>8. ServerAt(pos, h)'
    BY <1>4, <1>5, <1>6 DEF ServerAt, clientVars
<1>9. \A x \in Messages, q \in Origins : BlockSent(x, q, h) => BlockSent(x, q, h)'
    BY <1>4, <1>5 DEF BlockSent, clientVars
<1>10. PICK p : p \in Origins
  <2>1. At(1, 0) \in Origins
      BY BlockSizes DEF Origins, At
  <2> QED
      BY <2>1
<1>11. /\ \A x \in Messages, q \in Origins : x = m /\ q = p /\ ~x.refused => BlockSent(x, q, h)'
       /\ ~m.refused => \A x \in Messages, q \in Origins : BlockSent(x, q, h) => BlocksInOrder(q, p)
       /\ UNCHANGED wanted
    BY <1>3, <1>4 DEF clientVars
<1>12. \E s : BlocksSent(s, h)'
    BY <1>1, <1>3, <1>9, <1>10, <1>11, SentOneMore
<1>13. DownloadShape'
  <2>1. DownloadTypeOK'
    <3>1. Append(toClient, m) \in Seq(Messages)
        BY <1>3
    <3> QED
        BY <1>3, <1>4, <3>1 DEF DownloadInd, DownloadShape, DownloadTypeOK, clientVars, window
  <2> QED
      BY <1>4, <2>1 DEF DownloadInd, DownloadShape, SavedWhole, NeverBroken, clientVars
<1> QED
    BY <1>1, <1>7, <1>8, <1>12, <1>13 DEF DownloadInd

LEMMA ReadUpToIs ==
  ASSUME NEW f \in Files, NEW acked \in Nat
  PROVE  /\ ReadUpTo(f, acked) \in Nat /\ ReadUpTo(f, acked) <= acked + W
         /\ ReadUpTo(f, acked) <= NumBlocks[f] + 1
         /\ \A c \in Nat : c <= acked + W /\ c <= NumBlocks[f] + 1 => c <= ReadUpTo(f, acked)
BY BlockSizes DEF ReadUpTo, MinOf

(* What SendBlock finds and does, the file open or not: the blocks before  *)
(* sentUpTo have been sent, those before from read.                        *)
Sending(f, acked, sentUpTo, from, cur, blk, pos, h) ==
    /\ f = downloadName /\ acked = Acknowledged /\ sentUpTo = (IF open THEN h ELSE 0)
    /\ acked <= sentUpTo /\ sentUpTo <= from /\ from <= cur
    /\ cur <= acked + W /\ cur <= NumBlocks[f] + 1
    /\ blk < cur /\ sentUpTo <= blk + W
    /\ pos[1] = At(f, acked)
    /\ \A k \in acked..(from - 1) : downloadBlocks[Slot(k)] = Block(f, k)
    /\ \/ wanted = f /\ downloadBlock <= sentUpTo
       \/ wanted = NextFile(f) /\ downloadBlock = 0 /\ sentUpTo = NumBlocks[f] + 1
    /\ \A i \in 1..Len(commands) : pos[i].file = f => pos[i].block < sentUpTo
    /\ open' = TRUE /\ downloadClientBlock' = acked /\ downloadCurrentBlock' = cur
    /\ downloadBlocks' = RingWith(f, from, cur) /\ downloadXmitBlock' = blk + 1
    /\ toClient' = Append(toClient, [block |-> blk % BlockNumbers,
                                     hasSize |-> blk = 0, refused |-> FALSE,
                                     data |-> downloadBlocks'[Slot(blk)]])

LEMMA SendFinds ==
  ASSUME DownloadInd, SendBlock,
         NEW pos, NEW h \in Nat, Script(pos), ServerAt(pos, h)
  PROVE  \E f \in Files \ Refused, acked \in Nat, sentUpTo \in Nat :
            \E from \in Nat, cur \in Nat, blk \in Nat :
               Sending(f, acked, sentUpTo, from, cur, blk, pos, h)
<1> DEFINE f == downloadName
           acked == Acknowledged
           from == IF open THEN downloadCurrentBlock ELSE 0
           xmit == IF open THEN downloadXmitBlock ELSE 0
           cur == ReadUpTo(f, acked)
           blk == NextToSend(xmit, cur, acked)
           sentUpTo == IF open THEN h ELSE 0
<1>1. /\ f \in Files \ Refused /\ f # 0 /\ NumBlocks[f] \in Nat /\ W \in Nat
      /\ blk < cur /\ open' = TRUE /\ downloadClientBlock' = acked /\ downloadCurrentBlock' = cur
      /\ downloadBlocks' = RingWith(f, from, cur) /\ downloadXmitBlock' = blk + 1
      /\ toClient' = Append(toClient, [block |-> blk % BlockNumbers,
                                       hasSize |-> blk = 0, refused |-> FALSE,
                                       data |-> downloadBlocks'[Slot(blk)]])
    BY BlockSizes DEF SendBlock
<1>2. /\ downloadCurrentBlock \in Nat /\ downloadClientBlock \in Nat /\ downloadXmitBlock \in Nat
      /\ downloadBlock \in Nat /\ commands \in Seq([op : {"download", "nextdl", "stopdl", "donedl"}, arg : Nat])
      /\ open \in BOOLEAN
    BY DEF DownloadInd, DownloadShape, DownloadTypeOK
<1>3. acked \in Nat /\ from \in Nat /\ xmit \in Nat /\ sentUpTo \in Nat
    BY <1>2 DEF Acknowledged
<1>4. /\ acked <= sentUpTo /\ sentUpTo <= from /\ from <= acked + W /\ from <= NumBlocks[f] + 1
      /\ xmit <= sentUpTo /\ sentUpTo <= xmit + W
      /\ pos[1] = At(f, acked)
      /\ \A k \in acked..(from - 1) : downloadBlocks[Slot(k)] = Block(f, k)
      /\ \/ wanted = f /\ downloadBlock <= sentUpTo
         \/ wanted = NextFile(f) /\ downloadBlock = 0 /\ sentUpTo = NumBlocks[f] + 1
      /\ \A i \in 1..Len(commands) : pos[i].file = f => pos[i].block < sentUpTo
  <2>1. CASE open
      BY <1>2, <2>1 DEF ServerAt, WindowRight, Acknowledged
  <2>2. CASE ~open
    <3>1. downloadBlock = 0 /\ wanted = f /\ pos[1] = At(f, 0) /\ commands = <<>>
        BY <1>1, <2>2 DEF ServerAt
    <3>2. acked = 0 /\ from = 0 /\ xmit = 0 /\ sentUpTo = 0
        BY <2>2 DEF Acknowledged
    <3>3. 1..Len(commands) = {} /\ acked..(from - 1) = {}
        BY <3>1, <3>2
    <3> HIDE DEF f, acked, from, xmit, sentUpTo
    <3> QED
        BY <1>1, <3>1, <3>2, <3>3
  <2> QED
      BY <1>2, <2>1, <2>2
<1>5. cur \in Nat /\ from <= cur /\ cur <= acked + W /\ cur <= NumBlocks[f] + 1
  <2> HIDE DEF f, acked, from
  <2> QED
      BY <1>1, <1>3, <1>4, ReadUpToIs
<1>6. blk \in Nat /\ sentUpTo <= blk + W
  <2> HIDE DEF f, acked, from, cur, xmit, sentUpTo
  <2> QED
      BY <1>1, <1>3, <1>4, <1>5 DEF NextToSend
<1>7. f = downloadName /\ acked = Acknowledged /\ sentUpTo = (IF open THEN h ELSE 0)
    OBVIOUS
<1> HIDE DEF f, acked, from, cur, blk, sentUpTo, xmit
<1>8. Sending(f, acked, sentUpTo, from, cur, blk, pos, h)
    BY <1>1, <1>4, <1>5, <1>6, <1>7 DEF Sending
<1>9. \E x \in Nat, y \in Nat, z \in Nat : Sending(f, acked, sentUpTo, x, y, z, pos, h)
    BY <1>3, <1>5, <1>6, <1>8
<1> QED
    BY <1>1, <1>3, <1>9

LEMMA SendStep ==
  ASSUME DownloadInd, SendBlock PROVE DownloadInd'
<1>1. PICK pos, sent, h : h \in Nat /\ Script(pos) /\ ServerAt(pos, h) /\ BlocksSent(sent, h)
    BY DEF DownloadInd
<1>2. PICK f \in Files \ Refused, acked \in Nat, sentUpTo \in Nat :
        \E from \in Nat, cur \in Nat, blk \in Nat :
           Sending(f, acked, sentUpTo, from, cur, blk, pos, h)
    BY <1>1, SendFinds
<1>3. PICK from \in Nat, cur \in Nat, blk \in Nat :
        Sending(f, acked, sentUpTo, from, cur, blk, pos, h)
    BY <1>2
<1>4. PICK ring : ring = RingWith(f, from, cur)
    OBVIOUS
<1>5. PICK g : g = IF blk + 1 > sentUpTo THEN blk + 1 ELSE sentUpTo
    OBVIOUS
<1>6. PICK m : m = [block |-> blk % BlockNumbers, hasSize |-> blk = 0, refused |-> FALSE,
                    data |-> ring[Slot(blk)]]
    OBVIOUS
<1>7. /\ downloadBlock \in Nat /\ wanted \in Files \cup {0} /\ downloadBlocks \in [Slots -> Data]
      /\ toClient \in Seq(Messages) /\ open \in BOOLEAN
    BY DEF DownloadInd, DownloadShape, DownloadTypeOK
<1>8. /\ f = downloadName /\ sentUpTo = (IF open THEN h ELSE 0)
      /\ acked <= sentUpTo /\ sentUpTo <= from /\ from <= cur
      /\ cur <= acked + W /\ cur <= NumBlocks[f] + 1
      /\ blk < cur /\ sentUpTo <= blk + W
      /\ pos[1] = At(f, acked)
      /\ \A k \in acked..(from - 1) : downloadBlocks[Slot(k)] = Block(f, k)
      /\ \/ wanted = f /\ downloadBlock <= sentUpTo
         \/ wanted = NextFile(f) /\ downloadBlock = 0 /\ sentUpTo = NumBlocks[f] + 1
      /\ \A i \in 1..Len(commands) : pos[i].file = f => pos[i].block < sentUpTo
    BY <1>3 DEF Sending
<1>9. /\ open' = TRUE /\ downloadClientBlock' = acked /\ downloadCurrentBlock' = cur
      /\ downloadBlocks' = ring /\ downloadXmitBlock' = blk + 1
      /\ toClient' = Append(toClient, m)
    BY <1>3, <1>4, <1>6 DEF Sending
<1>10. UNCHANGED <<connected, wanted, downloadBlock, written, saved, state, downloadName, commands>>
    BY DEF SendBlock, clientVars
<1>11. NumBlocks[f] \in Nat /\ W \in Nat \ {0} /\ BlockNumbers \in Nat \ {0} /\ f # 0 /\ f \in Nat
    BY BlockSizes
<1>12. /\ ring \in [Slots -> Data]
       /\ \A k \in acked..(cur - 1) : ring[Slot(k)] = Block(f, k)
  <2>1. f \in Files /\ acked <= from /\ cur <= acked + W
      BY <1>8
  <2>2. \A k \in acked..(from - 1) : downloadBlocks[Slot(k)] = Block(f, k)
      BY <1>8
  <2>3. /\ RingWith(f, from, cur) \in [Slots -> Data]
        /\ \A k \in acked..(cur - 1) : RingWith(f, from, cur)[Slot(k)] = Block(f, k)
      BY <1>7, <2>1, <2>2, RingKept
  <2> QED
      BY <1>4, <2>3
<1>13. m \in Messages
  <2>1. blk % BlockNumbers \in 0..(BlockNumbers - 1)
      BY <1>11, RemainderInRange
  <2>2. ring[Slot(blk)] \in Data
      BY <1>12, SlotsOfBlocks
  <2> QED
      BY <1>6, <2>1, <2>2 DEF Messages
<1>14. m.block = blk % BlockNumbers /\ m.hasSize = (blk = 0) /\ ~m.refused /\ m.data = ring[Slot(blk)]
    BY <1>6
<1>15. g \in Nat /\ sentUpTo <= g /\ blk < g /\ g <= cur /\ g <= blk + 1 + W
       /\ (sentUpTo = NumBlocks[f] + 1 => g = sentUpTo)
    BY <1>5, <1>8, <1>11
<1>16. wanted = f => acked <= downloadBlock
  <2>1. NotAfter(pos[1], ClientAt)
    <3>1. Len(commands) \in Nat
        BY DEF DownloadInd, DownloadShape, DownloadTypeOK
    <3> QED
        BY <1>1, <3>1 DEF Script, ScriptOf
  <2> QED
      BY <1>8, <2>1 DEF NotAfter, ClientAt, At
<1>17. Script(pos)'
    BY <1>1, <1>10 DEF Script, ScriptOf, ClientAt
<1>18. ServerAt(pos, g)'
  <2>1. \A i \in 1..Len(commands) : pos[i].file = f => pos[i].block < g
    <3>1. \A i \in 1..Len(commands) : pos[i].block \in Int
      <4>1. Len(commands) \in Nat
          BY DEF DownloadInd, DownloadShape, DownloadTypeOK
      <4> QED
          BY <1>1, <4>1 DEF Script, ScriptOf, Positions
    <3> QED
        BY <1>8, <1>15, <3>1
  <2>2. \/ wanted = f /\ downloadBlock <= g
        \/ wanted = NextFile(f) /\ downloadBlock = 0 /\ g = NumBlocks[f] + 1
      BY <1>7, <1>8, <1>15
  <2>3. acked <= g /\ g <= cur /\ blk + 1 <= g /\ g <= blk + 1 + W
      BY <1>8, <1>15
  <2>4. WindowRight(pos, g)'
      BY <1>8, <1>9, <1>10, <1>12, <2>1, <2>2, <2>3 DEF WindowRight
  <2> QED
      BY <1>9, <2>4 DEF ServerAt
<1>19. PICK p : p = At(f, blk)
    OBVIOUS
<1>20. p \in Origins /\ p.file = f /\ p.block = blk
    BY <1>19 DEF Origins, At
<1>21. ASSUME NEW x \in Messages, NEW q \in Origins, BlockSent(x, q, h)
       PROVE  BlockSent(x, q, g)'
  <2>1. open /\ q.file = downloadName => q.block < g
      BY <1>7, <1>8, <1>15, <1>21 DEF BlockSent, Origins
  <2>2. ~open => q.file # downloadName
      BY <1>8, <1>21, NextFiles DEF BlockSent, Origins
  <2> QED
      BY <1>8, <1>9, <1>10, <1>21, <2>1, <2>2 DEF BlockSent
<1>22. ASSUME NEW x \in Messages, NEW q \in Origins, x = m, q = p PROVE BlockSent(x, q, g)'
  <2>1. q.file = f /\ q.block = blk /\ x.block = blk % BlockNumbers /\ x.hasSize = (blk = 0)
        /\ x.data = ring[Slot(blk)]
      BY <1>14, <1>20, <1>22
  <2>2. /\ open' = TRUE /\ downloadName' = f /\ wanted' = wanted /\ downloadBlock' = downloadBlock
        /\ f \notin Refused /\ blk <= NumBlocks[f] /\ blk < g
      BY <1>8, <1>9, <1>10, <1>11, <1>15
  <2>3. CASE wanted = f
    <3>1. downloadBlock <= blk + W /\ blk < downloadBlock + W
        BY <1>7, <1>8, <1>11, <1>16, <2>3, NextFiles
    <3>2. downloadBlock <= blk => ring[Slot(blk)] = Block(f, blk)
        BY <1>7, <1>8, <1>12, <1>16, <2>3
    <3> QED
        BY <2>1, <2>2, <2>3, <3>1, <3>2 DEF BlockSent
  <2>4. CASE wanted # f
    <3>1. wanted = NextFile(f) /\ downloadBlock = 0 /\ blk + W > NumBlocks[f]
        BY <1>8, <1>11, <2>4
    <3> QED
        BY <2>1, <2>2, <2>4, <3>1 DEF BlockSent
  <2> QED
      BY <2>3, <2>4
<1>23. ASSUME NEW x \in Messages, NEW q \in Origins, BlockSent(x, q, h) PROVE BlocksInOrder(q, p)
  <2>1. q.file = wanted => p.file = wanted
      BY <1>8, <1>20, <1>23 DEF BlockSent
  <2>2. q.file = f => q.block < blk + W
    <3>1. CASE open
      <4>1. q.file = f => q.block < sentUpTo
          BY <1>8, <1>23, <3>1 DEF BlockSent
      <4> QED
          BY <1>8, <1>11, <4>1 DEF Origins
    <3>2. CASE ~open
      <4>1. wanted = f
          BY <1>8, <1>11, <3>2
      <4> QED
          BY <1>23, <3>2, <4>1 DEF BlockSent
    <3> QED
        BY <3>1, <3>2
  <2> QED
      BY <1>20, <2>1, <2>2 DEF BlocksInOrder
<1>24. \E s : BlocksSent(s, g)'
  <2>1. \A x \in Messages, q \in Origins : x = m /\ q = p /\ ~x.refused => BlockSent(x, q, g)'
      BY <1>22
  <2>2. ~m.refused => \A x \in Messages, q \in Origins : BlockSent(x, q, h) => BlocksInOrder(q, p)
      BY <1>23
  <2>3. \A x \in Messages, q \in Origins : BlockSent(x, q, h) => BlockSent(x, q, g)'
      BY <1>21
  <2> QED
      BY <1>1, <1>7, <1>9, <1>10, <1>13, <1>15, <1>20, <2>1, <2>2, <2>3, SentOneMore
<1>25. DownloadShape'
  <2>1. Append(toClient, m) \in Seq(Messages)
      BY <1>7, <1>13
  <2>2. DownloadTypeOK'
      BY <1>9, <1>10, <1>12, <2>1 DEF DownloadInd, DownloadShape, DownloadTypeOK
  <2> QED
      BY <1>10, <2>2 DEF DownloadInd, DownloadShape, SavedWhole, NeverBroken
<1> QED
    BY <1>15, <1>17, <1>18, <1>24, <1>25 DEF DownloadInd

(* The server executes the first command. *)
CommandSeqs == Seq([op : {"download", "nextdl", "stopdl", "donedl"}, arg : Nat])

LEMMA ScriptAdvances ==
  ASSUME commands \in CommandSeqs, commands # <<>>, commands' = Tail(commands),
         UNCHANGED <<wanted, downloadBlock>>, NEW pos, Script(pos)
  PROVE  /\ Head(commands) = CommandAt(pos[1]) /\ pos[1] \in Positions
         /\ \E next : /\ Script(next)' /\ next[1] = After(pos[1])
                      /\ NotAfter(next[1], ClientAt)
                      /\ Len(commands) > 1 => NotAfter(After(next[1]), ClientAt)
                      /\ Len(commands) = 1 => commands' = <<>>
                      /\ \A i \in 1..Len(commands') :
                            i + 1 \in 1..Len(commands) /\ next[i] = pos[i + 1]
<1> DEFINE n == Len(commands)
<1>1. PICK next : next = [i \in 1..n |-> pos[i + 1]]
    OBVIOUS
<1>2. /\ n \in Nat \ {0} /\ Len(commands') = n - 1 /\ Head(commands) = commands[1]
      /\ \A i \in 1..n - 1 : commands'[i] = commands[i + 1]
    BY DEF CommandSeqs
<1>3. /\ pos \in [1..n + 1 -> Positions] /\ pos[n + 1] = ClientAt
      /\ \A i \in 1..n : commands[i] = CommandAt(pos[i]) /\ pos[i + 1] = After(pos[i])
      /\ \A i \in 1..n + 1 : NotAfter(pos[i], ClientAt)
    BY DEF Script, ScriptOf
<1>4. /\ \A i \in 1..n : i + 1 \in 1..n + 1 /\ next[i] = pos[i + 1]
      /\ \A i \in 1..n - 1 : i + 1 \in 1..n
      /\ next \in [1..n -> Positions]
    BY <1>1, <1>2, <1>3
<1>5. 1 \in 1..n /\ next[1] = After(pos[1]) /\ next[n] = ClientAt /\ NotAfter(next[1], ClientAt)
    BY <1>2, <1>3, <1>4
<1>6. n > 1 => NotAfter(After(next[1]), ClientAt)
  <2> SUFFICES ASSUME n > 1 PROVE NotAfter(After(next[1]), ClientAt)
      OBVIOUS
  <2>1. 2 \in 1..n /\ 1 \in 1..n /\ 3 \in 1..n + 1 /\ 1 + 1 = 2 /\ 2 + 1 = 3
      BY <1>2
  <2>2. next[1] = pos[2] /\ pos[3] = After(pos[2])
      BY <1>3, <1>4, <2>1
  <2> QED
      BY <1>3, <2>1, <2>2
<1>7. n = 1 => commands' = <<>>
  <2>1. commands' \in CommandSeqs
      BY DEF CommandSeqs
  <2> QED
      BY <1>2, <2>1 DEF CommandSeqs
<1>8. /\ \A i \in 1..n - 1 : commands'[i] = CommandAt(next[i]) /\ next[i + 1] = After(next[i])
      /\ \A i \in 1..n : NotAfter(next[i], ClientAt)
    BY <1>2, <1>3, <1>4
<1>9. n - 1 + 1 = n /\ ClientAt' = ClientAt
    BY <1>2 DEF ClientAt
<1> HIDE DEF n
<1>10. /\ next \in [1..Len(commands') + 1 -> Positions]
       /\ next[Len(commands') + 1] = ClientAt
       /\ \A i \in 1..Len(commands') : commands'[i] = CommandAt(next[i]) /\ next[i + 1] = After(next[i])
       /\ \A i \in 1..Len(commands') + 1 : NotAfter(next[i], ClientAt)
    BY <1>2, <1>4, <1>5, <1>8, <1>9
<1>11. Script(next)'
    BY <1>9, <1>10 DEF Script, ScriptOf
<1>12. Head(commands) = CommandAt(pos[1]) /\ pos[1] \in Positions
    BY <1>2, <1>3, <1>5
<1>13. \A i \in 1..Len(commands') : i + 1 \in 1..n /\ next[i] = pos[i + 1]
    BY <1>2, <1>4
<1> QED
    BY <1>5, <1>6, <1>7, <1>11, <1>12, <1>13 DEF n

LEMMA ExecuteStep ==
  ASSUME DownloadInd, SV_ExecuteClientCommand PROVE DownloadInd'
<1>1. PICK pos, sent, h : h \in Nat /\ Script(pos) /\ ServerAt(pos, h) /\ BlocksSent(sent, h)
    BY DEF DownloadInd
<1>2. /\ commands # <<>> /\ commands' = Tail(commands) /\ UNCHANGED <<clientVars, toClient>>
      /\ UNCHANGED <<wanted, downloadBlock>>
    BY DEF SV_ExecuteClientCommand, clientVars
<1>3. /\ commands \in CommandSeqs /\ toClient \in Seq(Messages) /\ wanted \in Files \cup {0}
      /\ downloadBlock \in Nat /\ downloadClientBlock \in Nat /\ downloadCurrentBlock \in Nat
      /\ downloadXmitBlock \in Nat /\ open \in BOOLEAN /\ downloadName \in Files \cup {0}
      /\ downloadBlocks \in [Slots -> Data]
      /\ wanted = 0 => downloadBlock = 0
      /\ wanted # 0 => downloadBlock <= NumBlocks[wanted]
    BY DEF DownloadInd, DownloadShape, DownloadTypeOK, CommandSeqs
<1>4. PICK c : c = Head(commands)
    OBVIOUS
<1>5. /\ c = CommandAt(pos[1]) /\ pos[1] \in Positions
      /\ \E next : /\ Script(next)' /\ next[1] = After(pos[1])
                   /\ NotAfter(next[1], ClientAt)
                   /\ Len(commands) > 1 => NotAfter(After(next[1]), ClientAt)
                   /\ Len(commands) = 1 => commands' = <<>>
                   /\ \A i \in 1..Len(commands') :
                         i + 1 \in 1..Len(commands) /\ next[i] = pos[i + 1]
    BY <1>1, <1>2, <1>3, <1>4, ScriptAdvances
<1>6. PICK next : /\ Script(next)' /\ next[1] = After(pos[1])
                  /\ NotAfter(next[1], ClientAt)
                  /\ Len(commands) > 1 => NotAfter(After(next[1]), ClientAt)
                  /\ Len(commands) = 1 => commands' = <<>>
                  /\ \A i \in 1..Len(commands') :
                        i + 1 \in 1..Len(commands) /\ next[i] = pos[i + 1]
    BY <1>5
<1>7. Len(commands) \in Nat \ {0}
    BY <1>2, <1>3 DEF CommandSeqs
<1>8. commands' \in CommandSeqs
    BY <1>2, <1>3 DEF CommandSeqs
<1>9. pos[1].file \in Files \cup {0} /\ pos[1].block \in Int /\ (pos[1].file # 0 => NumBlocks[pos[1].file] \in Nat)
    BY <1>5, BlockSizes DEF Positions
<1>10. wanted # 0 => wanted \in Files /\ NumBlocks[wanted] \in Nat /\ wanted \in Nat
    BY <1>3, BlockSizes
<1>11. \/ c.op = "download" /\ SV_BeginDownload_f(c.arg)
       \/ c.op = "nextdl" /\ SV_NextDownload_f(c.arg)
       \/ c.op = "stopdl" /\ SV_StopDownload_f
       \/ c.op = "donedl" /\ SV_DoneDownload_f
    BY <1>4 DEF SV_ExecuteClientCommand
<1>12. SUFFICES ServerAt(next, h)' /\ BlocksSent(sent, h)' /\ DownloadTypeOK' /\ state' # "CS_ZOMBIE"
    BY <1>1, <1>2, <1>6 DEF DownloadInd, DownloadShape, SavedWhole, NeverBroken, clientVars
<1>13. CASE c.op = "download" /\ SV_BeginDownload_f(c.arg)
  <2>1. pos[1] = At(pos[1].file, -1) /\ pos[1].file \in Files /\ c.arg = pos[1].file
      BY <1>5, <1>9, <1>13 DEF CommandAt, Command, Positions, At
  <2>2. ~open
      BY <1>1, <1>3, <2>1 DEF ServerAt, WindowRight, At
  <2>3. downloadBlock = 0 /\ downloadName = 0 /\ pos[1] = At(wanted, -1) /\ wanted \in Files
      BY <1>1, <1>3, <2>1, <2>2 DEF ServerAt, At
  <2>4. next[1] = At(wanted, 0)
      BY <1>6, <1>10, <2>3, BlockSizes DEF After, At
  <2>5. ~NotAfter(After(next[1]), ClientAt)
      BY <1>10, <2>3, <2>4, NextFiles, BlockSizes DEF After, At, NotAfter, ClientAt
  <2>6. commands' = <<>>
      BY <1>6, <1>7, <2>5
  <2>7. downloadName' = wanted /\ open' = FALSE /\ UNCHANGED <<state, window>>
      BY <1>13, <2>1, <2>3 DEF SV_BeginDownload_f, At
  <2>8. ServerAt(next, h)'
      BY <1>2, <2>3, <2>4, <2>6, <2>7, BlockSizes DEF ServerAt, At
  <2>9. \A x \in Messages, q \in Origins : BlockSent(x, q, h) => BlockSent(x, q, h)'
      BY <1>2, <2>2, <2>7 DEF BlockSent
  <2>10. BlocksSent(sent, h)'
      BY <1>1, <1>2, <1>3, <2>9, SentStays
  <2>11. DownloadTypeOK' /\ state' # "CS_ZOMBIE"
      BY <1>2, <1>3, <1>8, <2>7 DEF DownloadInd, DownloadShape, DownloadTypeOK, CommandSeqs, clientVars, window, NeverBroken
  <2> QED
      BY <2>8, <2>10, <2>11
<1>14. CASE c.op = "nextdl" /\ SV_NextDownload_f(c.arg)
  <2> DEFINE f == downloadName
             k == downloadClientBlock
  <2>1. pos[1].file # 0 /\ pos[1].block # -1 /\ c.arg = pos[1].block
      BY <1>5, <1>9, <1>14 DEF CommandAt, Command
  <2>2. open
    <3> SUFFICES ASSUME ~open PROVE FALSE
        BY <1>3
    <3>1. pos[1] = At(wanted, 0) /\ commands = <<>>
        BY <1>1, <2>1 DEF ServerAt, At
    <3> QED
        BY <1>2, <3>1
  <2>3. WindowRight(pos, h)
      BY <1>1, <2>2 DEF ServerAt
  <2>4. /\ f \in Files \ Refused /\ pos[1] = At(f, k) /\ f # 0 /\ NumBlocks[f] \in Nat
        /\ f \in Nat /\ c.arg = k /\ W \in Nat
      BY <2>1, <2>3, BlockSizes DEF WindowRight, At
  <2>5. k < h
    <3>1. 1 \in 1..Len(commands)
        BY <1>7
    <3> QED
        BY <2>3, <2>4, <3>1 DEF WindowRight, At
  <2>6. /\ h <= downloadCurrentBlock /\ downloadCurrentBlock <= k + W
        /\ downloadCurrentBlock <= NumBlocks[f] + 1
        /\ downloadXmitBlock <= h /\ h <= downloadXmitBlock + W
        /\ \A j \in k..(downloadCurrentBlock - 1) : downloadBlocks[Slot(j)] = Block(f, j)
        /\ \/ wanted = f /\ downloadBlock <= h
           \/ wanted = NextFile(f) /\ downloadBlock = 0 /\ h = NumBlocks[f] + 1
        /\ \A i \in 1..Len(commands) : pos[i].file = f => pos[i].block < h
      BY <2>3 DEF WindowRight
  <2>7. downloadBlocks[Slot(k)] = Block(f, k) /\ k <= NumBlocks[f]
    <3>1. k \in Int /\ h \in Int /\ downloadCurrentBlock \in Int /\ NumBlocks[f] \in Int
        BY <1>1, <1>3, <2>4
    <3> HIDE DEF k
    <3>2. k <= downloadCurrentBlock - 1 /\ k <= NumBlocks[f]
        BY <2>5, <2>6, <3>1
    <3>3. k \in k..(downloadCurrentBlock - 1)
        BY <3>1, <3>2
    <3> QED
        BY <2>6, <3>2, <3>3, Zenon
  <2>8. IsEnd <=> k = NumBlocks[f]
      BY <1>3, <2>4, <2>7, BlocksHold DEF IsEnd
  <2>9. Acknowledges(c.arg)
      BY <2>4 DEF Acknowledges
  <2>10. CASE IsEnd
    <3>1. downloadName' = 0 /\ open' = FALSE /\ UNCHANGED <<state, window>>
        BY <1>14, <2>9, <2>10 DEF SV_NextDownload_f, SV_CloseDownload
    <3>2. next[1] = At(NextFile(f), -1)
        BY <1>6, <2>4, <2>8, <2>10 DEF After, At
    <3>3. wanted = NextFile(f) /\ downloadBlock = 0
      <4>1. wanted # f
          BY <1>6, <2>4, <3>2, NextFiles, BlockSizes DEF NotAfter, ClientAt, At
      <4> QED
          BY <2>6, <4>1
    <3>4. ServerAt(next, h)'
        BY <1>2, <3>1, <3>2, <3>3 DEF ServerAt
    <3>5. \A x \in Messages, q \in Origins : BlockSent(x, q, h) => BlockSent(x, q, h)'
        BY <1>2, <2>4, <3>1, <3>3, NextFiles DEF BlockSent
    <3>6. BlocksSent(sent, h)'
        BY <1>1, <1>2, <1>3, <3>5, SentStays
    <3>7. DownloadTypeOK' /\ state' # "CS_ZOMBIE"
        BY <1>2, <1>3, <1>8, <3>1 DEF DownloadInd, DownloadShape, DownloadTypeOK, CommandSeqs, clientVars, window, NeverBroken
    <3> QED
        BY <3>4, <3>6, <3>7
  <2>11. CASE ~IsEnd
    <3>1. /\ downloadClientBlock' = k + 1
          /\ UNCHANGED <<state, downloadName, open, downloadCurrentBlock, downloadXmitBlock,
                         downloadBlocks>>
        BY <1>14, <2>9, <2>11 DEF SV_NextDownload_f
    <3>2. next[1] = At(f, k + 1)
        BY <1>3, <1>6, <2>4, <2>7, <2>8, <2>11 DEF After, At
    <3>3. k + 1 <= h /\ downloadCurrentBlock <= k + 1 + W /\ k + 1 \in Nat
        BY <1>1, <1>3, <2>4, <2>5, <2>6
    <3>4. \A j \in (k + 1)..(downloadCurrentBlock - 1) : downloadBlocks[Slot(j)] = Block(f, j)
        BY <1>3, <2>6
    <3>5. \A i \in 1..Len(commands') : next[i].file = f => next[i].block < h
        BY <1>6, <2>6
    <3>6. WindowRight(next, h)'
        BY <1>2, <2>4, <2>6, <3>1, <3>2, <3>3, <3>4, <3>5 DEF WindowRight
    <3>7. ServerAt(next, h)'
        BY <2>2, <3>1, <3>6 DEF ServerAt
    <3>8. \A x \in Messages, q \in Origins : BlockSent(x, q, h) => BlockSent(x, q, h)'
        BY <1>2, <3>1 DEF BlockSent
    <3>9. BlocksSent(sent, h)'
        BY <1>1, <1>2, <1>3, <3>8, SentStays
    <3>10. DownloadTypeOK' /\ state' # "CS_ZOMBIE"
        BY <1>2, <1>3, <1>8, <3>1, <3>3 DEF DownloadInd, DownloadShape, DownloadTypeOK, CommandSeqs, clientVars, NeverBroken
    <3> QED
        BY <3>7, <3>9, <3>10
  <2> QED
      BY <2>10, <2>11
<1>15. CASE c.op = "stopdl" /\ SV_StopDownload_f
  <2>1. pos[1].file = 0 /\ pos[1].block # -1
      BY <1>5, <1>9, <1>15 DEF CommandAt, Command
  <2>2. ~open /\ pos[1] = At(0, 0) /\ downloadBlock = 0 /\ wanted = 0
      BY <1>1, <1>2, <1>3, <2>1, BlockSizes DEF ServerAt, WindowRight, At
  <2>3. next[1] = At(0, 0)
      BY <1>6, <2>2 DEF After, At
  <2>4. downloadName' = 0 /\ open' = FALSE /\ UNCHANGED <<state, window>>
      BY <1>15 DEF SV_StopDownload_f, SV_CloseDownload
  <2>5. ServerAt(next, h)'
      BY <1>2, <2>2, <2>3, <2>4 DEF ServerAt
  <2>6. \A x \in Messages, q \in Origins : BlockSent(x, q, h) => BlockSent(x, q, h)'
      BY <1>2, <2>2, <2>4 DEF BlockSent
  <2>7. BlocksSent(sent, h)'
      BY <1>1, <1>2, <1>3, <2>6, SentStays
  <2>8. DownloadTypeOK' /\ state' # "CS_ZOMBIE"
      BY <1>2, <1>3, <1>8, <2>4 DEF DownloadInd, DownloadShape, DownloadTypeOK, CommandSeqs, clientVars, window, NeverBroken
  <2> QED
      BY <2>5, <2>7, <2>8
<1>16. CASE c.op = "donedl" /\ SV_DoneDownload_f
  <2>1. pos[1].file = 0 /\ pos[1].block = -1
      BY <1>5, <1>9, <1>16 DEF CommandAt, Command
  <2>2. ~open /\ downloadBlock = 0 /\ wanted = 0 /\ downloadName = 0
      BY <1>1, <1>2, <1>3, <2>1, BlockSizes DEF ServerAt, WindowRight, At
  <2>3. next[1] = At(0, 0)
      BY <1>6, <2>1 DEF After, At
  <2>4. state' = "CS_PRIMED" /\ UNCHANGED <<downloadName, open, window>>
      BY <1>16 DEF SV_DoneDownload_f
  <2>5. ServerAt(next, h)'
      BY <1>2, <2>2, <2>3, <2>4 DEF ServerAt
  <2>6. \A x \in Messages, q \in Origins : BlockSent(x, q, h) => BlockSent(x, q, h)'
      BY <1>2, <2>2, <2>4 DEF BlockSent
  <2>7. BlocksSent(sent, h)'
      BY <1>1, <1>2, <1>3, <2>6, SentStays
  <2>8. DownloadTypeOK' /\ state' # "CS_ZOMBIE"
      BY <1>2, <1>3, <1>8, <2>4 DEF DownloadInd, DownloadShape, DownloadTypeOK, CommandSeqs, clientVars, window
  <2> QED
      BY <2>5, <2>7, <2>8
<1> QED
    BY <1>11, <1>13, <1>14, <1>15, <1>16

(* The client says something. *)
LEMMA ScriptGrows ==
  ASSUME NEW said \in CommandSeqs, NEW pos, NEW c \in Positions, ScriptOf(pos, said, c),
         NEW x, x = CommandAt(c), NEW d \in Positions, d = After(c),
         NotAfter(d, d), \A p \in Positions : NotAfter(p, c) => NotAfter(p, d)
  PROVE  \E next : /\ ScriptOf(next, Append(said, x), d) /\ next[1] = pos[1]
                   /\ next[Len(said) + 1] = c
                   /\ \A i \in 1..Len(said) : next[i] = pos[i]
<1> DEFINE n == Len(said)
           r == Append(said, x)
<1>1. PICK next : next = [i \in 1..n + 2 |-> IF i <= n + 1 THEN pos[i] ELSE d]
    OBVIOUS
<1>2. n \in Nat /\ Len(r) = n + 1 /\ r[n + 1] = x /\ \A i \in 1..n : r[i] = said[i]
    BY DEF CommandSeqs
<1>3. /\ pos \in [1..n + 1 -> Positions] /\ pos[n + 1] = c
      /\ \A i \in 1..n : said[i] = CommandAt(pos[i]) /\ pos[i + 1] = After(pos[i])
      /\ \A i \in 1..n + 1 : NotAfter(pos[i], c)
    BY DEF ScriptOf
<1>4. /\ next \in [1..n + 2 -> Positions] /\ next[n + 2] = d /\ next[n + 1] = c /\ next[1] = pos[1]
      /\ \A i \in 1..n + 1 : next[i] = pos[i] /\ next[i] \in Positions
    BY <1>1, <1>2, <1>3
<1>5. n + 1 + 1 = n + 2
    BY <1>2
<1> HIDE DEF r
<1>6. ASSUME NEW i \in 1..n + 1 PROVE r[i] = CommandAt(next[i]) /\ next[i + 1] = After(next[i])
  <2>1. CASE i \in 1..n
    <3>1. i + 1 \in 1..n + 1 /\ i \in 1..n + 1
        BY <1>2, <2>1
    <3> QED
        BY <1>2, <1>3, <1>4, <2>1, <3>1
  <2>2. CASE i = n + 1
      BY <1>2, <1>4, <1>5, <2>2
  <2> QED
      BY <1>2, <2>1, <2>2
<1>7. ASSUME NEW i \in 1..n + 2 PROVE NotAfter(next[i], d)
  <2>1. CASE i \in 1..n + 1
      BY <1>3, <1>4, <2>1
  <2>2. CASE i = n + 2
      BY <1>4, <2>2
  <2> QED
      BY <1>2, <2>1, <2>2
<1>8. ScriptOf(next, r, d)
    BY <1>2, <1>4, <1>5, <1>6, <1>7 DEF ScriptOf
<1>9. \A i \in 1..n : next[i] = pos[i]
    BY <1>2, <1>4
<1> QED
    BY <1>4, <1>8, <1>9 DEF r

(* What the client says next comes after all that it said. *)
LEMMA PositionsAdvance ==
  ASSUME NEW c \in Positions, c.file = 0 => c.block \in {-1, 0}
  PROVE  /\ After(c) \in Positions /\ NotAfter(After(c), After(c))
         /\ \A p \in Positions : NotAfter(p, c) => NotAfter(p, After(c))
<1>1. CASE c.file = 0
    BY <1>1, BlockSizes DEF After, At, Positions, NotAfter
<1>2. CASE c.file # 0 /\ c.block < NumBlocks[c.file]
    BY <1>2, BlockSizes DEF After, At, Positions, NotAfter
<1>3. CASE c.file # 0 /\ ~(c.block < NumBlocks[c.file])
  <2>1. c.file \in Files /\ c.file \in Nat
      BY <1>3, BlockSizes DEF Positions
  <2>2. After(c) = At(NextFile(c.file), -1) /\ NextFile(c.file) \in Files \cup {0}
        /\ (NextFile(c.file) # 0 => c.file < NextFile(c.file))
      BY <1>3, <2>1, NextFiles DEF After
  <2>3. After(c) \in Positions /\ NotAfter(After(c), After(c))
      BY <2>2 DEF At, Positions, NotAfter
  <2>4. ASSUME NEW p \in Positions, NotAfter(p, c) PROVE NotAfter(p, After(c))
    <3>1. p.file = c.file \/ (p.file # 0 /\ p.file < c.file)
        BY <1>3, <2>4 DEF NotAfter
    <3>2. p.file \in Nat /\ p.file # 0 /\ p.file <= c.file
        BY <1>3, <2>1, <3>1, BlockSizes DEF Positions
    <3>3. CASE NextFile(c.file) = 0
        BY <2>2, <3>2, <3>3 DEF NotAfter, At
    <3>4. CASE NextFile(c.file) # 0
      <4>1. NextFile(c.file) \in Nat
          BY <2>2, <3>4, BlockSizes
      <4>2. p.file < NextFile(c.file)
          BY <2>1, <2>2, <3>2, <3>4, <4>1
      <4> QED
          BY <2>2, <3>2, <4>1, <4>2 DEF NotAfter, At
    <3> QED
        BY <3>3, <3>4
  <2> QED
      BY <2>3, <2>4
<1> QED
    BY <1>1, <1>2, <1>3

(* The client takes the block it waits for and no other. *)
LEMMA ExpectedIs ==
  ASSUME NoZeroAtTheEnd, DownloadShape, wanted # 0, NEW h \in Nat,
         NEW m \in Messages, NEW p \in Origins, BlockSent(m, p, h), IsExpected(m)
  PROVE  /\ p.file = wanted /\ p.block = downloadBlock /\ InStep(m)
         /\ open /\ downloadName = wanted /\ downloadBlock < h
         /\ m.data = Block(wanted, downloadBlock)
<1>1. /\ p.file \in Files /\ NumBlocks[p.file] \in Nat /\ p.block \in Nat /\ p.block <= NumBlocks[p.file]
      /\ W \in Nat \ {0} /\ BlockNumbers \in Nat \ {0} /\ W < BlockNumbers /\ downloadBlock \in Nat
    BY BlockSizes DEF Origins, DownloadShape, DownloadTypeOK, BlockSent
<1>2. m.block = p.block % BlockNumbers /\ m.hasSize = (p.block = 0)
    BY DEF BlockSent
<1>3. m.block = downloadBlock % BlockNumbers
    BY DEF IsExpected
<1>4. 0 % BlockNumbers = 0
  <2>1. (BlockNumbers * 0 + 0) % BlockNumbers = 0
      BY <1>1, RemainderIs
  <2>2. BlockNumbers * 0 + 0 = 0
      BY <1>1
  <2> QED
      BY <2>1, <2>2
<1>5. p.file = wanted
  <2> SUFFICES ASSUME p.file # wanted PROVE FALSE
      OBVIOUS
  <2>1. downloadBlock = 0 /\ p.block + W > NumBlocks[p.file]
      BY DEF BlockSent
  <2>2. p.block \in (NumBlocks[p.file] + 1 - W)..NumBlocks[p.file]
      BY <1>1, <2>1
  <2>3. p.block % BlockNumbers # 0
      BY <1>1, <2>2 DEF NoZeroAtTheEnd
  <2> QED
      BY <1>2, <1>3, <1>4, <2>1, <2>3
<1>6. /\ open /\ downloadName = wanted /\ p.block < downloadBlock + W /\ downloadBlock <= p.block + W
      /\ downloadBlock <= p.block => m.data = Block(p.file, p.block)
      /\ p.block < h
    BY <1>5 DEF BlockSent
<1>7. p.block = downloadBlock
  <2>1. CASE p.block < downloadBlock
    <3>1. downloadBlock - p.block < BlockNumbers
        BY <1>1, <1>6
    <3>2. p.block % BlockNumbers # downloadBlock % BlockNumbers
        BY <1>1, <2>1, <3>1, RemaindersDiffer
    <3> QED
        BY <1>2, <1>3, <3>2
  <2>2. CASE downloadBlock < p.block
    <3>1. p.block - downloadBlock < BlockNumbers
        BY <1>1, <1>6
    <3>2. downloadBlock % BlockNumbers # p.block % BlockNumbers
        BY <1>1, <2>2, <3>1, RemaindersDiffer
    <3> QED
        BY <1>2, <1>3, <3>2
  <2> QED
      BY <1>1, <2>1, <2>2
<1>8. InStep(m)
    BY <1>2, <1>3, <1>4, <1>7 DEF InStep, ReadsSize
<1> QED
    BY <1>1, <1>5, <1>6, <1>7, <1>8

(* What the client writes. *)
LEMMA WrittenGrows ==
  ASSUME NEW f \in Files, NEW b \in Nat
  PROVE  Append([k \in 1..b |-> <<f, k - 1>>], <<f, b>>) = [k \in 1..b + 1 |-> <<f, k - 1>>]
<1> DEFINE s == [k \in 1..b |-> <<f, k - 1>>]
           t == [k \in 1..b + 1 |-> <<f, k - 1>>]
           r == Append(s, <<f, b>>)
<1>1. f \in Nat
    BY BlockSizes
<1>2. s \in Seq(Nat \X Nat) /\ t \in Seq(Nat \X Nat) /\ <<f, b>> \in Nat \X Nat
  <2>1. \A k \in 1..b + 1 : <<f, k - 1>> \in Nat \X Nat
      BY <1>1
  <2>2. s \in [1..b -> Nat \X Nat] /\ t \in [1..b + 1 -> Nat \X Nat]
      BY <2>1
  <2> QED
      BY <1>1, <2>2
<1>3. Len(s) = b /\ Len(t) = b + 1
    BY <1>2
<1>4. \A k \in 1..b : s[k] = <<f, k - 1>>
    OBVIOUS
<1>5. \A k \in 1..b + 1 : t[k] = <<f, k - 1>>
    OBVIOUS
<1> HIDE DEF s, t
<1>6. r \in Seq(Nat \X Nat) /\ Len(r) = b + 1 /\ r[b + 1] = <<f, b>> /\ \A k \in 1..b : r[k] = s[k]
    BY <1>2, <1>3
<1> HIDE DEF r
<1>7. \A k \in 1..b + 1 : r[k] = t[k]
  <2> TAKE k \in 1..b + 1
  <2>1. CASE k \in 1..b
      BY <1>4, <1>5, <1>6, <2>1
  <2>2. CASE k = b + 1
    <3>1. k - 1 = b
        BY <2>2
    <3> QED
        BY <1>5, <1>6, <2>2, <3>1
  <2> QED
      BY <2>1, <2>2
<1>8. r = t
    BY <1>2, <1>3, <1>6, <1>7
<1> QED
    BY <1>8 DEF r, s, t

(* The messages that are left when one has gone. *)
LEMMA SentDropped ==
  ASSUME DownloadShape, toClient # <<>>, toClient' = Tail(toClient), NEW sent, NEW h \in Nat,
         BlocksSent(sent, h), UNCHANGED <<wanted, downloadBlock, open, downloadName>>
  PROVE  \E s : BlocksSent(s, h)'
<1>1. toClient \in Seq(Messages)
    BY DEF DownloadShape, DownloadTypeOK
<1>2. \A x \in Messages, q \in Origins :
         BlockSent(x, q, h) /\ (~Head(toClient).refused => BlocksInOrder(sent[1], q))
            => BlockSent(x, q, h)'
    BY DEF BlockSent
<1>3. \A x \in Messages, p \in Origins, q \in Origins :
         BlockSent(x, p, h)' /\ BlocksInOrder(p, q) => BlocksInOrder(p, q)'
    BY DEF BlocksInOrder
<1> QED
    BY <1>1, <1>2, <1>3, SentOneLess

(* A message is lost, or makes the client leave, or is not heeded. *)
LEMMA DropStep ==
  ASSUME DownloadInd, toClient # <<>>, toClient' = Tail(toClient), connected' \in BOOLEAN,
         UNCHANGED <<wanted, downloadBlock, written, saved, serverVars, commands>>
  PROVE  DownloadInd'
<1>1. PICK pos, sent, h : h \in Nat /\ Script(pos) /\ ServerAt(pos, h) /\ BlocksSent(sent, h)
    BY DEF DownloadInd
<1>2. UNCHANGED <<state, downloadName, open, downloadCurrentBlock, downloadClientBlock,
                  downloadXmitBlock, downloadBlocks>>
    BY DEF serverVars, window
<1>3. Script(pos)' /\ ServerAt(pos, h)'
    BY <1>1, <1>2 DEF Script, ScriptOf, ServerAt, WindowRight, ClientAt
<1>4. \E s : BlocksSent(s, h)'
    BY <1>1, <1>2, SentDropped DEF DownloadInd
<1>5. DownloadShape'
  <2>1. toClient' \in Seq(Messages)
      BY DEF DownloadInd, DownloadShape, DownloadTypeOK
  <2>2. DownloadTypeOK'
      BY <1>2, <2>1 DEF DownloadInd, DownloadShape, DownloadTypeOK
  <2> QED
      BY <1>2, <2>2 DEF DownloadInd, DownloadShape, SavedWhole, NeverBroken
<1> QED
    BY <1>1, <1>3, <1>4, <1>5 DEF DownloadInd

(* Without a file to wait for, a message is answered by "stopdl". *)
LEMMA StopStep ==
  ASSUME DownloadInd, wanted = 0, toClient # <<>>, toClient' = Tail(toClient),
         commands' = Append(commands, Command("stopdl", 0)), UNCHANGED <<clientVars, serverVars>>
  PROVE  DownloadInd'
<1>1. PICK pos, sent, h : h \in Nat /\ Script(pos) /\ ServerAt(pos, h) /\ BlocksSent(sent, h)
    BY DEF DownloadInd
<1>2. UNCHANGED <<connected, wanted, downloadBlock, written, saved, state, downloadName, open,
                  downloadCurrentBlock, downloadClientBlock, downloadXmitBlock, downloadBlocks>>
    BY DEF serverVars, window, clientVars
<1>3. downloadBlock = 0 /\ commands \in CommandSeqs /\ Len(commands) \in Nat /\ open \in BOOLEAN
    BY DEF DownloadInd, DownloadShape, DownloadTypeOK, CommandSeqs
<1>4. PICK c : c = ClientAt
    OBVIOUS
<1>5. c = At(0, 0) /\ c \in Positions /\ c.file = 0 /\ c.block = 0 /\ c = After(c)
    BY <1>3, <1>4 DEF ClientAt, At, Positions, After
<1>6. CommandAt(c) = Command("stopdl", 0)
    BY <1>5 DEF CommandAt
<1>7. NotAfter(c, c)
    BY <1>5 DEF NotAfter
<1>8. PICK cs, x : cs = commands /\ x = Command("stopdl", 0)
    OBVIOUS
<1>9. ScriptOf(pos, cs, c) /\ cs \in CommandSeqs /\ x = CommandAt(c)
    BY <1>1, <1>3, <1>4, <1>6, <1>8 DEF Script
<1>10. PICK next : /\ ScriptOf(next, Append(cs, x), c) /\ next[1] = pos[1]
                   /\ next[Len(cs) + 1] = c
                   /\ \A i \in 1..Len(cs) : next[i] = pos[i]
    BY <1>5, <1>7, <1>9, ScriptGrows
<1>11. Script(next)'
    BY <1>2, <1>4, <1>8, <1>10 DEF Script, ClientAt
<1>12. Len(commands') = Len(cs) + 1 /\ Len(cs) \in Nat /\ cs = commands
    BY <1>3, <1>8 DEF CommandSeqs
<1>13. ServerAt(next, h)'
  <2>1. CASE open
    <3>1. WindowRight(pos, h)
        BY <1>1, <2>1 DEF ServerAt
    <3>2. ASSUME NEW i \in 1..Len(commands'), next[i].file = downloadName PROVE next[i].block < h
      <4>1. downloadName # 0
          BY <3>1, BlockSizes DEF WindowRight
      <4>2. i \in 1..Len(cs)
          BY <1>5, <1>10, <1>12, <3>2, <4>1
      <4> QED
          BY <1>10, <1>12, <3>1, <3>2, <4>2 DEF WindowRight
    <3>3. WindowRight(next, h)'
        BY <1>2, <1>10, <3>1, <3>2 DEF WindowRight
    <3> QED
        BY <1>2, <2>1, <3>3 DEF ServerAt
  <2>2. CASE ~open
      BY <1>1, <1>2, <1>10, <2>2 DEF ServerAt
  <2> QED
      BY <1>3, <2>1, <2>2
<1>14. \E s : BlocksSent(s, h)'
    BY <1>1, <1>2, SentDropped DEF DownloadInd
<1>15. DownloadShape'
  <2>1. toClient' \in Seq(Messages)
      BY DEF DownloadInd, DownloadShape, DownloadTypeOK
  <2>2. commands' \in CommandSeqs
      BY <1>3 DEF CommandSeqs, Command
  <2>3. DownloadTypeOK'
      BY <1>2, <2>1, <2>2 DEF DownloadInd, DownloadShape, DownloadTypeOK, CommandSeqs
  <2> QED
      BY <1>2, <2>3 DEF DownloadInd, DownloadShape, SavedWhole, NeverBroken
<1> QED
    BY <1>1, <1>11, <1>13, <1>14, <1>15 DEF DownloadInd

(* The client takes a block of data. *)
LEMMA DataStep ==
  ASSUME DownloadShape, NEW pos, NEW sent, NEW h \in Nat,
         Script(pos), ServerAt(pos, h), BlocksSent(sent, h),
         toClient # <<>>, toClient' = Tail(toClient),
         ~Head(toClient).refused, wanted # 0,
         open, downloadName = wanted, downloadBlock < h, sent[1] = At(wanted, downloadBlock),
         downloadBlock < NumBlocks[wanted],
         written' = Append(written, <<wanted, downloadBlock>>),
         downloadBlock' = downloadBlock + 1,
         commands' = Append(commands, Command("nextdl", downloadBlock)),
         UNCHANGED <<connected, wanted, saved, serverVars>>
  PROVE  DownloadInd'
<1> DEFINE f == wanted
           b == downloadBlock
<1>1. UNCHANGED <<connected, wanted, saved, state, downloadName, open,
                  downloadCurrentBlock, downloadClientBlock, downloadXmitBlock, downloadBlocks>>
    BY DEF serverVars, window
<1>2. /\ b \in Nat /\ commands \in CommandSeqs /\ Len(commands) \in Nat
      /\ f \in Files /\ f \in Nat /\ NumBlocks[f] \in Nat /\ W \in Nat /\ toClient \in Seq(Messages)
    BY BlockSizes DEF DownloadShape, DownloadTypeOK, CommandSeqs
<1>3. PICK c, d : c = ClientAt /\ d = At(f, b + 1)
    OBVIOUS
<1>4. c = At(f, b) /\ c \in Positions /\ d = After(c) /\ CommandAt(c) = Command("nextdl", b) /\ c.file # 0
    BY <1>2, <1>3 DEF ClientAt, At, Positions, After, CommandAt
<1>5. /\ d \in Positions /\ NotAfter(d, d)
      /\ \A p \in Positions : NotAfter(p, c) => NotAfter(p, d)
    BY <1>4, PositionsAdvance
<1>6. PICK cs, x : cs = commands /\ x = Command("nextdl", b)
    OBVIOUS
<1>7. ScriptOf(pos, cs, c) /\ cs \in CommandSeqs /\ x = CommandAt(c)
    BY <1>2, <1>3, <1>4, <1>6 DEF Script
<1>8. PICK next : /\ ScriptOf(next, Append(cs, x), d) /\ next[1] = pos[1]
                  /\ next[Len(cs) + 1] = c
                  /\ \A i \in 1..Len(cs) : next[i] = pos[i]
  <2> HIDE DEF f, b
  <2>1. c \in Positions /\ d = After(c)
      BY <1>4
  <2> QED
      BY <1>5, <1>7, <2>1, ScriptGrows
<1>9. Script(next)'
    BY <1>1, <1>3, <1>6, <1>8 DEF Script, ClientAt
<1>10. Len(commands') = Len(cs) + 1 /\ Len(cs) \in Nat /\ cs = commands
    BY <1>2, <1>6 DEF CommandSeqs
<1>11. ServerAt(next, h)'
  <2>1. WindowRight(pos, h)
      BY DEF ServerAt
  <2>2. ASSUME NEW i \in 1..Len(commands'), next[i].file = downloadName PROVE next[i].block < h
    <3>1. CASE i \in 1..Len(cs)
        BY <1>8, <1>10, <2>1, <2>2, <3>1 DEF WindowRight
    <3>2. CASE i = Len(cs) + 1
        BY <1>4, <1>8, <3>2 DEF At
    <3> QED
        BY <1>10, <3>1, <3>2
  <2>3. downloadBlock' <= h
      BY <1>2
  <2>4. WindowRight(next, h)'
      BY <1>1, <1>8, <2>1, <2>2, <2>3 DEF WindowRight
  <2> QED
      BY <1>1, <2>4 DEF ServerAt
<1>12. \A x1 \in Messages, q \in Origins :
         BlockSent(x1, q, h) /\ (~Head(toClient).refused => BlocksInOrder(sent[1], q))
            => BlockSent(x1, q, h)'
  <2> TAKE x1 \in Messages, q \in Origins
  <2> SUFFICES ASSUME BlockSent(x1, q, h), BlocksInOrder(sent[1], q) PROVE BlockSent(x1, q, h)'
      OBVIOUS
  <2>1. q.file = f /\ b < q.block + W
      BY DEF BlocksInOrder, At
  <2>2. q.block \in Nat
      BY DEF Origins
  <2>3. q.block < b + 1 + W /\ b + 1 <= q.block + W /\ (b + 1 <= q.block => x1.data = Block(q.file, q.block))
      BY <1>2, <2>1, <2>2 DEF BlockSent
  <2> QED
      BY <1>1, <2>1, <2>3 DEF BlockSent
<1>13. \A x1 \in Messages, p \in Origins, q \in Origins :
         BlockSent(x1, p, h)' /\ BlocksInOrder(p, q) => BlocksInOrder(p, q)'
    BY <1>1 DEF BlocksInOrder
<1>14. \E s : BlocksSent(s, h)'
    BY <1>2, <1>12, <1>13, SentOneLess
<1>15. DownloadShape'
  <2>1. toClient' \in Seq(Messages)
      BY <1>2
  <2>2. commands' \in CommandSeqs
      BY <1>2 DEF CommandSeqs, Command
  <2>3. <<f, b>> \in Data /\ written \in Seq(Data)
      BY <1>2 DEF Data, DownloadShape, DownloadTypeOK
  <2>4. written' \in Seq(Data)
      BY <2>3
  <2>5. DownloadTypeOK'
      BY <1>1, <1>2, <2>1, <2>2, <2>4 DEF DownloadShape, DownloadTypeOK, CommandSeqs
  <2>6. written' = [k \in 1..b + 1 |-> <<f, k - 1>>]
    <3>1. written = [k \in 1..b |-> <<f, k - 1>>]
        BY DEF DownloadShape, SavedWhole
    <3> QED
        BY <1>2, <3>1, WrittenGrows
  <2>7. SavedWhole'
      BY <1>1, <2>6 DEF DownloadShape, SavedWhole
  <2> QED
      BY <1>1, <1>2, <2>5, <2>7 DEF DownloadShape, NeverBroken
<1> QED
    BY <1>9, <1>11, <1>14, <1>15 DEF DownloadInd

(* The client takes the empty block at the end of a file. *)
LEMMA EndStep ==
  ASSUME DownloadShape, NEW pos, NEW sent, NEW h \in Nat,
         Script(pos), ServerAt(pos, h), BlocksSent(sent, h),
         toClient # <<>>, toClient' = Tail(toClient),
         ~Head(toClient).refused, wanted # 0,
         open, downloadName = wanted, downloadBlock < h, sent[1] = At(wanted, downloadBlock),
         downloadBlock = NumBlocks[wanted],
         CL_NextDownload,
         UNCHANGED serverVars
  PROVE  DownloadInd'
<1> DEFINE f == wanted
           b == downloadBlock
           g == NextFile(f)
           y == IF g # 0 THEN Command("download", g) ELSE Command("donedl", 0)
<1>1. UNCHANGED <<state, downloadName, open,
                  downloadCurrentBlock, downloadClientBlock, downloadXmitBlock, downloadBlocks>>
    BY DEF serverVars, window
<1>2. /\ b \in Nat /\ commands \in CommandSeqs /\ Len(commands) \in Nat
      /\ f \in Files /\ f \in Nat /\ NumBlocks[f] \in Nat /\ W \in Nat \ {0} /\ toClient \in Seq(Messages)
      /\ connected \in BOOLEAN
    BY BlockSizes DEF DownloadShape, DownloadTypeOK, CommandSeqs
<1>3. g \in Files \cup {0} /\ g # f /\ g \in Nat
    BY <1>2, NextFiles, BlockSizes
<1>4. written = Contents(f)
    BY DEF DownloadShape, SavedWhole, Contents
<1>5. /\ saved' = [saved EXCEPT ![f] = written]
      /\ commands' = Append(Append(commands, Command("nextdl", b)), y)
      /\ wanted' = g /\ downloadBlock' = 0 /\ written' = <<>> /\ UNCHANGED connected
  <2>1. ChecksumKnown(written)
      BY <1>2, <1>4 DEF ChecksumKnown
  <2>2. /\ saved' = [saved EXCEPT ![wanted] = written]
        /\ commands' = Append(Append(commands, Command("nextdl", downloadBlock)),
                              IF wanted < Len(NumBlocks) THEN Command("download", wanted + 1)
                              ELSE Command("donedl", 0))
        /\ wanted' = (IF wanted < Len(NumBlocks) THEN wanted + 1 ELSE 0)
        /\ downloadBlock' = 0 /\ written' = <<>> /\ UNCHANGED connected
      BY <2>1 DEF CL_NextDownload
  <2>3. (wanted < Len(NumBlocks)) <=> (g # 0)
      BY <1>2 DEF NextFile
  <2>4. wanted < Len(NumBlocks) => g = wanted + 1
      BY DEF NextFile
  <2> QED
      BY <2>2, <2>3, <2>4 DEF NextFile
<1>6. PICK c, d, e : c = ClientAt /\ d = At(g, -1) /\ e = At(g, 0)
    OBVIOUS
<1>7. /\ c = At(f, b) /\ c \in Positions /\ d = After(c) /\ CommandAt(c) = Command("nextdl", b)
      /\ c.file # 0
    BY <1>2, <1>6 DEF ClientAt, At, Positions, After, CommandAt
<1>8. d \in Positions /\ d.file = g /\ d.block = -1 /\ e = After(d) /\ CommandAt(d) = y
    BY <1>3, <1>6, BlockSizes DEF At, Positions, After, CommandAt
<1>9. /\ d \in Positions /\ NotAfter(d, d)
      /\ \A p \in Positions : NotAfter(p, c) => NotAfter(p, d)
    BY <1>7, PositionsAdvance
<1>10. /\ e \in Positions /\ NotAfter(e, e)
       /\ \A p \in Positions : NotAfter(p, d) => NotAfter(p, e)
    BY <1>8, PositionsAdvance
<1>11. PICK cs, x, z : cs = commands /\ x = Command("nextdl", b) /\ z = y
    OBVIOUS
<1>12. ScriptOf(pos, cs, c) /\ cs \in CommandSeqs /\ x = CommandAt(c) /\ z = CommandAt(d)
    BY <1>2, <1>6, <1>7, <1>8, <1>11 DEF Script
<1>13. PICK mid : /\ ScriptOf(mid, Append(cs, x), d) /\ mid[1] = pos[1]
                  /\ mid[Len(cs) + 1] = c
                  /\ \A i \in 1..Len(cs) : mid[i] = pos[i]
    BY <1>7, <1>9, <1>12, ScriptGrows
<1>14. PICK cs1 : cs1 = Append(cs, x)
    OBVIOUS
<1>15. cs1 \in CommandSeqs /\ ScriptOf(mid, cs1, d) /\ Len(cs1) = Len(cs) + 1 /\ Len(cs) \in Nat
    BY <1>2, <1>11, <1>12, <1>13, <1>14 DEF CommandSeqs, Command
<1>16. PICK next : /\ ScriptOf(next, Append(cs1, z), e) /\ next[1] = mid[1]
                   /\ next[Len(cs1) + 1] = d
                   /\ \A i \in 1..Len(cs1) : next[i] = mid[i]
    BY <1>8, <1>10, <1>12, <1>15, ScriptGrows
<1>17. commands' = Append(cs1, z) /\ cs = commands
    BY <1>5, <1>11, <1>14
<1>18. Script(next)'
    BY <1>5, <1>6, <1>16, <1>17 DEF Script, ClientAt
<1>19. commands' \in CommandSeqs /\ Len(commands') = Len(cs) + 2
  <2>1. z \in [op : {"download", "nextdl", "stopdl", "donedl"}, arg : Nat]
      BY <1>3, <1>11 DEF Command
  <2> QED
      BY <1>15, <1>17, <2>1 DEF CommandSeqs
<1> HIDE DEF g, y
<1>20. WindowRight(pos, h)
    BY DEF ServerAt
<1>21. h = NumBlocks[f] + 1
    BY <1>2, <1>20, BlockSizes DEF WindowRight, DownloadShape, DownloadTypeOK
<1>22. ServerAt(next, h)'
  <2>1. ASSUME NEW i \in 1..Len(commands'), next[i].file = f PROVE next[i].block < h
    <3>1. CASE i \in 1..Len(cs)
      <4>1. next[i] = pos[i]
          BY <1>13, <1>15, <1>16, <3>1
      <4> QED
          BY <1>17, <1>20, <2>1, <3>1, <4>1 DEF WindowRight
    <3>2. CASE i = Len(cs) + 1
      <4>1. next[i] = c
          BY <1>13, <1>15, <1>16, <3>2
      <4> QED
          BY <1>7, <4>1 DEF At
    <3>3. CASE i = Len(cs) + 2
      <4>1. next[i] = d
          BY <1>15, <1>16, <3>3
      <4> QED
          BY <1>3, <1>8, <2>1, <4>1
    <3> QED
        BY <1>15, <1>19, <3>1, <3>2, <3>3
  <2>2. next[1] = pos[1]
      BY <1>13, <1>16
  <2>3. wanted' = NextFile(f) /\ downloadBlock' = 0 /\ downloadName' = f /\ downloadName = f
      BY <1>1, <1>5 DEF g
  <2>4. WindowRight(next, h)'
      BY <1>1, <1>20, <1>21, <2>1, <2>2, <2>3 DEF WindowRight
  <2> QED
      BY <1>1, <2>4 DEF ServerAt
<1>23. \A x1 \in Messages, q \in Origins :
         BlockSent(x1, q, h) /\ (~Head(toClient).refused => BlocksInOrder(sent[1], q))
            => BlockSent(x1, q, h)'
  <2> TAKE x1 \in Messages, q \in Origins
  <2> SUFFICES ASSUME BlockSent(x1, q, h), BlocksInOrder(sent[1], q) PROVE BlockSent(x1, q, h)'
      OBVIOUS
  <2>1. q.file = f /\ b < q.block + W
      BY DEF BlocksInOrder, At
  <2>2. wanted' = NextFile(q.file) /\ downloadBlock' = 0 /\ q.file # wanted'
      BY <1>3, <1>5, <2>1 DEF g
  <2>3. q.block + W > NumBlocks[q.file]
      BY <1>2, <2>1 DEF Origins
  <2> QED
      BY <1>1, <2>2, <2>3 DEF BlockSent
<1>24. \A x1 \in Messages, p \in Origins, q \in Origins :
         BlockSent(x1, p, h)' /\ BlocksInOrder(p, q) => BlocksInOrder(p, q)'
    BY <1>1, <1>3, <1>5 DEF BlocksInOrder, BlockSent
<1>25. \E s : BlocksSent(s, h)'
    BY <1>2, <1>23, <1>24, SentOneLess
<1>26. DownloadShape'
  <2>1. toClient' \in Seq(Messages) /\ <<>> \in Seq(Data)
      BY <1>2
  <2>2. saved \in [Files -> Seq(Data)] /\ written \in Seq(Data)
      BY DEF DownloadShape, DownloadTypeOK
  <2>3. saved' \in [Files -> Seq(Data)]
      BY <1>2, <1>5, <2>2
  <2>4. DownloadTypeOK'
      BY <1>1, <1>2, <1>3, <1>5, <1>19, <2>1, <2>3 DEF DownloadShape, DownloadTypeOK, CommandSeqs
  <2>5. written' = [k \in 1..downloadBlock' |-> <<wanted', k - 1>>]
      BY <1>5
  <2>6. \A i \in Files : saved'[i] \in {Unsaved, Contents(i)}
    <3> TAKE i \in Files
    <3>1. saved[i] \in {Unsaved, Contents(i)}
        BY DEF DownloadShape, SavedWhole
    <3> QED
        BY <1>4, <1>5, <2>2, <3>1
  <2>7. SavedWhole'
      BY <2>5, <2>6 DEF SavedWhole
  <2>8. wanted' # 0 => downloadBlock' <= NumBlocks[wanted']
      BY <1>3, <1>5, BlockSizes
  <2> QED
      BY <1>1, <1>5, <2>4, <2>7, <2>8 DEF DownloadShape, NeverBroken
<1> QED
    BY <1>18, <1>22, <1>25, <1>26 DEF DownloadInd

LEMMA ParseStep ==
  ASSUME NoZeroAtTheEnd, DownloadInd, CL_ParseDownload PROVE DownloadInd'
<1>1. PICK pos, sent, h : h \in Nat /\ Script(pos) /\ ServerAt(pos, h) /\ BlocksSent(sent, h)
    BY DEF DownloadInd
<1>2. connected /\ toClient # <<>> /\ toClient' = Tail(toClient) /\ UNCHANGED serverVars
    BY DEF CL_ParseDownload
<1>3. DownloadShape /\ toClient \in Seq(Messages) /\ downloadBlock \in Nat /\ connected \in BOOLEAN
      /\ wanted \in Files \cup {0} /\ (wanted # 0 => downloadBlock <= NumBlocks[wanted])
    BY DEF DownloadInd, DownloadShape, DownloadTypeOK
<1>4. PICK m : m = Head(toClient)
    OBVIOUS
<1>5. m \in Messages
    BY <1>2, <1>3, <1>4
<1>6. CASE Leave /\ UNCHANGED saved
    BY <1>2, <1>6, DropStep DEF Leave
<1>7. CASE wanted = 0 /\ commands' = Append(commands, Command("stopdl", 0)) /\ UNCHANGED clientVars
    BY <1>2, <1>7, StopStep
<1>8. CASE UNCHANGED <<clientVars, commands>>
    BY <1>2, <1>3, <1>8, DropStep DEF clientVars
<1>9. CASE /\ wanted # 0 /\ IsExpected(m) /\ ~m.refused
           /\ TakeBlock(IF InStep(m) THEN m.data ELSE Garbage)
  <2>1. Len(toClient) \in Nat \ {0} /\ toClient[1] = m
      BY <1>2, <1>3, <1>4
  <2>2. sent[1] \in Origins /\ BlockSent(toClient[1], sent[1], h)
    <3>1. 1 \in 1..Len(toClient)
        BY <2>1
    <3>2. ~toClient[1].refused
        BY <1>9, <2>1
    <3> QED
        BY <1>1, <3>1, <3>2 DEF BlocksSent, Origins
  <2>3. PICK p : p = sent[1]
      OBVIOUS
  <2>4. p \in Origins /\ BlockSent(m, p, h)
      BY <2>1, <2>2, <2>3
  <2>5. /\ p.file = wanted /\ p.block = downloadBlock /\ InStep(m)
        /\ open /\ downloadName = wanted /\ downloadBlock < h
        /\ m.data = Block(wanted, downloadBlock)
      BY <1>1, <1>3, <1>5, <1>9, <2>4, ExpectedIs
  <2>6. p = At(wanted, downloadBlock)
      BY <2>4, <2>5 DEF Origins, At
  <2>7. TakeBlock(Block(wanted, downloadBlock)) /\ ~Head(toClient).refused
      BY <1>4, <1>9, <2>5
  <2>8. wanted \in Files /\ NumBlocks[wanted] \in Nat
      BY <1>3, <1>9, BlockSizes
  <2>9. CASE downloadBlock < NumBlocks[wanted]
    <3>1. Block(wanted, downloadBlock) = <<wanted, downloadBlock>> /\ Block(wanted, downloadBlock) # EOF
        BY <1>3, <2>8, <2>9, BlocksHold
    <3>2. /\ written' = Append(written, <<wanted, downloadBlock>>)
          /\ downloadBlock' = downloadBlock + 1
          /\ commands' = Append(commands, Command("nextdl", downloadBlock))
          /\ UNCHANGED <<connected, wanted, saved>>
        BY <2>7, <3>1 DEF TakeBlock
    <3>3. UNCHANGED <<connected, wanted, saved, serverVars>>
        BY <1>2, <3>2
    <3> QED
        BY <1>1, <1>2, <1>3, <1>9, <2>3, <2>5, <2>6, <2>7, <2>9, <3>2, <3>3, DataStep
  <2>10. CASE downloadBlock = NumBlocks[wanted]
    <3>1. Block(wanted, downloadBlock) = EOF
        BY <1>3, <2>8, <2>10, BlocksHold
    <3>2. CL_NextDownload
        BY <2>7, <3>1 DEF TakeBlock
    <3> QED
        BY <1>1, <1>2, <1>3, <1>9, <2>3, <2>5, <2>6, <2>7, <2>10, <3>2, EndStep
  <2> QED
      BY <1>3, <1>9, <2>8, <2>9, <2>10
<1>10. \/ /\ wanted = 0
          /\ \/ commands' = Append(commands, Command("stopdl", 0)) /\ UNCHANGED clientVars
             \/ Leave /\ UNCHANGED saved
       \/ Leave /\ UNCHANGED saved
       \/ UNCHANGED <<clientVars, commands>>
       \/ /\ wanted # 0 /\ IsExpected(m) /\ ~m.refused
          /\ TakeBlock(IF InStep(m) THEN m.data ELSE Garbage)
    BY <1>4 DEF CL_ParseDownload
<1> QED
    BY <1>6, <1>7, <1>8, <1>9, <1>10

LEMMA DownloadStep ==
  ASSUME NoZeroAtTheEnd, DownloadInd, [DownloadNext]_downloadVars PROVE DownloadInd'
<1>1. CASE RefuseDownload
    BY <1>1, RefuseStep
<1>2. CASE SendBlock
    BY <1>2, SendStep
<1>3. CASE SV_ExecuteClientCommand
    BY <1>3, ExecuteStep
<1>4. CASE CL_ParseDownload
    BY <1>4, ParseStep
<1>5. CASE Lose
  <2>1. connected' \in BOOLEAN
      BY <1>5 DEF Lose, clientVars, DownloadInd, DownloadShape, DownloadTypeOK
  <2> QED
      BY <1>5, <2>1, DropStep DEF Lose, clientVars
<1>6. CASE UNCHANGED downloadVars
  <2>1. UNCHANGED <<connected, wanted, downloadBlock, written, saved, state, downloadName, open,
                    downloadCurrentBlock, downloadClientBlock, downloadXmitBlock, downloadBlocks,
                    toClient, commands>>
      BY <1>6 DEF downloadVars, clientVars, serverVars, window
  <2>2. PICK pos, sent, h : h \in Nat /\ Script(pos) /\ ServerAt(pos, h) /\ BlocksSent(sent, h)
      BY DEF DownloadInd
  <2>3. Script(pos)' /\ ServerAt(pos, h)'
      BY <2>1, <2>2 DEF Script, ScriptOf, ServerAt, WindowRight, ClientAt
  <2>4. \A x \in Messages, q \in Origins : BlockSent(x, q, h) => BlockSent(x, q, h)'
      BY <2>1 DEF BlockSent
  <2>5. BlocksSent(sent, h)'
      BY <2>1, <2>2, <2>4, SentStays DEF DownloadInd, DownloadShape, DownloadTypeOK
  <2>6. DownloadShape'
      BY <2>1 DEF DownloadInd, DownloadShape, DownloadTypeOK, SavedWhole, NeverBroken
  <2> QED
      BY <2>2, <2>3, <2>5, <2>6 DEF DownloadInd
<1> QED
    BY <1>1, <1>2, <1>3, <1>4, <1>5, <1>6 DEF DownloadNext, SV_SendDownloadMessages

LEMMA DownloadHolds ==
  ASSUME DownloadInd PROVE DownloadInv /\ NeverBroken
<1>1. PICK pos, sent, h : h \in Nat /\ Script(pos) /\ ServerAt(pos, h) /\ BlocksSent(sent, h)
    BY DEF DownloadInd
<1>2. DownloadTypeOK /\ SavedWhole /\ NeverBroken
    BY DEF DownloadInd, DownloadShape
<1>3. WindowHeld
    BY <1>1, <1>2 DEF WindowHeld, ServerAt, WindowRight, DownloadTypeOK
<1>4. ServerBehind
  <2> SUFFICES ASSUME open, downloadName = wanted PROVE downloadClientBlock <= downloadBlock
      BY DEF ServerBehind
  <2>1. Len(commands) \in Nat
      BY <1>2 DEF DownloadTypeOK
  <2>2. pos[1] = At(downloadName, downloadClientBlock) /\ NotAfter(pos[1], ClientAt)
      BY <1>1, <2>1 DEF ServerAt, WindowRight, Script, ScriptOf
  <2> QED
      BY <2>2 DEF NotAfter, ClientAt, At
<1> QED
    BY <1>2, <1>3, <1>4 DEF DownloadInv

(* Every file that is renamed is whole and is itself, however many         *)
(* messages are lost and windows sent again, and the server never counts   *)
(* as acknowledged what the client has not written: of files of every      *)
(* length whose last window holds no block of number zero, for every       *)
(* window and every width of the block numbers.                            *)
THEOREM DownloadsWhole ==
  ASSUME NoZeroAtTheEnd PROVE DownloadSpec => []DownloadInv
<1>1. DownloadInd /\ [DownloadNext]_downloadVars => DownloadInd'
    BY DownloadStep
<1>2. DownloadInd => DownloadInv
    BY DownloadHolds
<1> QED
    BY DownloadBegins, <1>1, <1>2, PTL DEF DownloadSpec

(* Under the same hypothesis no client is dropped for a broken download:   *)
(* every "nextdl" that SV_NextDownload_f executes names the block that the *)
(* server waits for.                                                       *)
THEOREM DownloadsNeverBroken ==
  ASSUME NoZeroAtTheEnd PROVE DownloadSpec => []NeverBroken
<1>1. DownloadInd /\ [DownloadNext]_downloadVars => DownloadInd'
    BY DownloadStep
<1>2. DownloadInd => NeverBroken
    BY DownloadHolds
<1> QED
    BY DownloadBegins, <1>1, <1>2, PTL DEF DownloadSpec

-----------------------------------------------------------------------------
(* Connections. *)

(* What the clocks must leave time for: a packet, and the answer to it, is *)
(* gone before the server takes a "connect" after another, and before it   *)
(* gives up a slot in silence. *)
PacketsExpire ==
    /\ 2 * Lifetime < ReconnectLimit
    /\ 2 * Lifetime <= ZombieTime + 1
    /\ 2 * Lifetime < Timeout

Names == Challenges \cup ClientNumbers \cup {Nothing}
ClientRecords == [state : {"disconnected", "connecting", "challenging", "connected"}, challenge : Names,
                  sinceSent : 0..Retransmit]
SlotRecords == [state : {"free", "connected", "zombie"}, challenge : Challenges \cup {Nothing},
                sinceConnect : 0..ReconnectLimit, silent : 0..Timeout, heard : BOOLEAN]
ConnPackets == [kind : PacketKinds, challenge : Names, number : Names, left : 0..Lifetime]
ConnShape(c, s, n) ==
    /\ c \in ClientRecords /\ s \in SlotRecords /\ n \in SUBSET ConnPackets
    /\ c.state \in {"challenging", "connected"} => c.challenge \in Challenges
    /\ c.state = "connecting" => c.challenge \in ClientNumbers
    /\ \A p \in n : p.kind \in {"challengeResponse", "connect", "connectResponse"} => p.challenge \in Challenges

Has(n, kind, k) == \E p \in n : p.kind = kind /\ p.challenge = k

(* The slot was taken no longer than age ago, and is kept. *)
TakenWithin(s, age) == s.state # "free" /\ s.sinceConnect <= age

(* A slot is not silent for longer than it is taken. *)
SilentSince(s) == s.sinceConnect < ReconnectLimit => s.silent <= s.sinceConnect

(* A challenge that the client is yet to receive is one that nothing else  *)
(* is about. *)
NotYetUsed(s, n, k) ==
    ~Has(n, "connect", k) /\ ~Has(n, "connectResponse", k) /\ ~Has(n, "disconnect", k) /\ s.challenge # k
NewToClient(c, s, n) ==
    \A p \in n : p.kind = "challengeResponse" /\ c.state = "connecting" /\ p.number = c.challenge
                     => NotYetUsed(s, n, p.challenge)

(* Challenge k made a connection that the client knew. *)
WasUsed(c, s, n, k) ==
    \/ c.state = "connected" /\ c.challenge = k
    \/ Has(n, "disconnect", k)
    \/ s.heard /\ s.challenge = k
NotUsedBefore(c, s, n) == c.state = "challenging" => ~WasUsed(c, s, n, c.challenge)

(* The client's connection has been accepted. *)
IsAccepted(c, n) ==
    \/ c.state = "connected"
    \/ c.state = "challenging" /\ Has(n, "connectResponse", c.challenge)

(* What was sent for an earlier connection was sent before the slot was    *)
(* taken; so was, within the life of one packet more, what was sent for    *)
(* this. *)
EarlierConnects(c, s, n) ==
    IsAccepted(c, n) => \A p \in n : p.kind = "connect" /\ p.challenge # c.challenge
                                         => TakenWithin(s, Lifetime - p.left)
ResponsesRecent(c, s, n) ==
    c.state = "challenging" =>
        \A p \in n : p.kind = "connectResponse" /\ p.challenge = c.challenge => TakenWithin(s, Lifetime - p.left)
UsedConnects(c, s, n) ==
    \A p \in n : p.kind = "connect" /\ WasUsed(c, s, n, p.challenge) => TakenWithin(s, 2 * Lifetime - p.left)

SameConnection(c, s, n) == IsAccepted(c, n) /\ s.state = "connected" => s.challenge = c.challenge

ConnKept(c, s, n) ==
    /\ SilentSince(s) /\ NewToClient(c, s, n) /\ NotUsedBefore(c, s, n)
    /\ EarlierConnects(c, s, n) /\ ResponsesRecent(c, s, n) /\ UsedConnects(c, s, n)
    /\ SameConnection(c, s, n)

ConnInd ==
    /\ table \in [TableEntries -> ChallengeEntry]
    /\ ConnShape(client, slot, net) /\ ConnKept(client, slot, net)

LEMMA TimesAreNumbers ==
  /\ Lifetime \in Nat /\ ReconnectLimit \in Nat /\ ZombieTime \in Nat /\ Timeout \in Nat /\ Retransmit \in Nat
BY ConnectionAssumption

LEMMA PacketsTyped ==
  ASSUME NEW c, NEW s, NEW n, ConnShape(c, s, n)
  PROVE  /\ \A p \in n : p.left \in 0..Lifetime
         /\ s.sinceConnect \in 0..ReconnectLimit /\ s.silent \in 0..Timeout
BY DEF ConnShape, ConnPackets, SlotRecords

(* Packets that are lost change nothing for the rest. *)
LEMMA FewerPackets ==
  ASSUME NEW c, NEW s, NEW n, NEW m, m \subseteq n, ConnShape(c, s, n), ConnKept(c, s, n)
  PROVE  ConnShape(c, s, m) /\ ConnKept(c, s, m)
<1>1. \A kind, k : Has(m, kind, k) => Has(n, kind, k)
    BY DEF Has
<1>2. ConnShape(c, s, m)
    BY DEF ConnShape
<1>3. \A k : WasUsed(c, s, m, k) => WasUsed(c, s, n, k)
    BY <1>1 DEF WasUsed
<1>4. IsAccepted(c, m) => IsAccepted(c, n)
    BY <1>1 DEF IsAccepted
<1>5. NewToClient(c, s, m)
    BY <1>1 DEF ConnKept, NewToClient, NotYetUsed
<1>6. NotUsedBefore(c, s, m)
    BY <1>3 DEF ConnKept, NotUsedBefore
<1>7. EarlierConnects(c, s, m)
    BY <1>4 DEF ConnKept, EarlierConnects
<1>8. ResponsesRecent(c, s, m)
    BY DEF ConnKept, ResponsesRecent
<1>9. UsedConnects(c, s, m)
    BY <1>3 DEF ConnKept, UsedConnects
<1>10. SameConnection(c, s, m)
    BY <1>4 DEF ConnKept, SameConnection
<1> QED
    BY <1>2, <1>5, <1>6, <1>7, <1>8, <1>9, <1>10 DEF ConnKept

(* Nor do packets that say nothing of a connection. *)
LEMMA OtherPackets ==
  ASSUME NEW c, NEW s, NEW n, ConnShape(c, s, n), ConnKept(c, s, n),
         NEW q \in ConnPackets, q.kind \in {"getchallenge", "print"}
  PROVE  ConnShape(c, s, n \cup {q}) /\ ConnKept(c, s, n \cup {q})
<1> DEFINE m == n \cup {q}
<1>1. \A kind, k : kind \notin {"getchallenge", "print"} => (Has(m, kind, k) <=> Has(n, kind, k))
    BY DEF Has
<1>2. \A p \in m : p.kind \in {"challengeResponse", "connect", "connectResponse"} => p \in n
    OBVIOUS
<1>3. ConnShape(c, s, m)
    BY DEF ConnShape
<1>4. \A k : WasUsed(c, s, m, k) <=> WasUsed(c, s, n, k)
    BY <1>1 DEF WasUsed
<1>5. IsAccepted(c, m) <=> IsAccepted(c, n)
    BY <1>1 DEF IsAccepted
<1> HIDE DEF m
<1>6. NewToClient(c, s, m)
    BY <1>1, <1>2 DEF ConnKept, NewToClient, NotYetUsed
<1>7. NotUsedBefore(c, s, m)
    BY <1>4 DEF ConnKept, NotUsedBefore
<1>8. EarlierConnects(c, s, m)
    BY <1>2, <1>5 DEF ConnKept, EarlierConnects
<1>9. ResponsesRecent(c, s, m)
    BY <1>2 DEF ConnKept, ResponsesRecent
<1>10. UsedConnects(c, s, m)
    BY <1>2, <1>4 DEF ConnKept, UsedConnects
<1>11. SameConnection(c, s, m)
    BY <1>5 DEF ConnKept, SameConnection
<1>12. ConnShape(c, s, m) /\ ConnKept(c, s, m)
    BY <1>3, <1>6, <1>7, <1>8, <1>9, <1>10, <1>11 DEF ConnKept
<1> QED
    BY <1>12 DEF m

(* A challenge drawn for the client is one that nobody remembers. *)
LEMMA ChallengeSent ==
  ASSUME NEW c, NEW s, NEW n, ConnShape(c, s, n), ConnKept(c, s, n),
         NEW k \in Challenges, s.challenge # k, \A p \in n : p.challenge # k,
         NEW q \in ConnPackets, q.kind = "challengeResponse", q.challenge = k
  PROVE  ConnShape(c, s, n \cup {q}) /\ ConnKept(c, s, n \cup {q})
<1> DEFINE m == n \cup {q}
<1>1. \A kind, x : kind # "challengeResponse" => (Has(m, kind, x) <=> Has(n, kind, x))
    BY DEF Has
<1>2. \A p \in m : p.kind \in {"connect", "connectResponse"} => p \in n
    OBVIOUS
<1>3. ConnShape(c, s, m)
    BY DEF ConnShape
<1>4. \A x : WasUsed(c, s, m, x) <=> WasUsed(c, s, n, x)
    BY <1>1 DEF WasUsed
<1>5. IsAccepted(c, m) <=> IsAccepted(c, n)
    BY <1>1 DEF IsAccepted
<1>6. NewToClient(c, s, m)
  <2>1. NotYetUsed(s, n, k)
      BY DEF NotYetUsed, Has
  <2>2. \A x : NotYetUsed(s, m, x) <=> NotYetUsed(s, n, x)
      BY <1>1 DEF NotYetUsed
  <2>3. \A p \in m : p \in n \/ p.challenge = k
      OBVIOUS
  <2> HIDE DEF m
  <2> QED
      BY <2>1, <2>2, <2>3 DEF ConnKept, NewToClient
<1> HIDE DEF m
<1>7. NotUsedBefore(c, s, m)
    BY <1>4 DEF ConnKept, NotUsedBefore
<1>8. EarlierConnects(c, s, m)
    BY <1>2, <1>5 DEF ConnKept, EarlierConnects
<1>9. ResponsesRecent(c, s, m)
    BY <1>2 DEF ConnKept, ResponsesRecent
<1>10. UsedConnects(c, s, m)
    BY <1>2, <1>4 DEF ConnKept, UsedConnects
<1>11. SameConnection(c, s, m)
    BY <1>5 DEF ConnKept, SameConnection
<1>12. ConnShape(c, s, m) /\ ConnKept(c, s, m)
    BY <1>3, <1>6, <1>7, <1>8, <1>9, <1>10, <1>11 DEF ConnKept
<1> QED
    BY <1>12 DEF m

(* "connect" is sent for a connection that was not yet used. *)
LEMMA ConnectSent ==
  ASSUME NEW c, NEW s, NEW n, ConnShape(c, s, n), ConnKept(c, s, n), c.state = "challenging",
         NEW q \in ConnPackets, q.kind = "connect", q.challenge = c.challenge
  PROVE  ConnShape(c, s, n \cup {q}) /\ ConnKept(c, s, n \cup {q})
<1> DEFINE m == n \cup {q}
<1>1. \A kind, x : kind # "connect" => (Has(m, kind, x) <=> Has(n, kind, x))
    BY DEF Has
<1>2. \A p \in m : p.kind # "connect" => p \in n
    OBVIOUS
<1>3. ConnShape(c, s, m)
    BY DEF ConnShape
<1>4. \A x : WasUsed(c, s, m, x) <=> WasUsed(c, s, n, x)
    BY <1>1 DEF WasUsed
<1>5. IsAccepted(c, m) <=> IsAccepted(c, n)
    BY <1>1 DEF IsAccepted
<1>6. \A p \in m : p \in n \/ p.challenge = c.challenge
    OBVIOUS
<1> HIDE DEF m
<1>7. NewToClient(c, s, m)
    BY DEF NewToClient
<1>8. NotUsedBefore(c, s, m)
    BY <1>4 DEF ConnKept, NotUsedBefore
<1>9. EarlierConnects(c, s, m)
    BY <1>5, <1>6 DEF ConnKept, EarlierConnects
<1>10. ResponsesRecent(c, s, m)
    BY <1>2 DEF ConnKept, ResponsesRecent
<1>11. UsedConnects(c, s, m)
    BY <1>4, <1>6 DEF ConnKept, UsedConnects, NotUsedBefore
<1>12. SameConnection(c, s, m)
    BY <1>5 DEF ConnKept, SameConnection
<1>13. ConnShape(c, s, m) /\ ConnKept(c, s, m)
    BY <1>3, <1>7, <1>8, <1>9, <1>10, <1>11, <1>12 DEF ConnKept
<1> QED
    BY <1>13 DEF m

(* What the client does. *)
LEMMA ClientSame ==
  ASSUME NEW c, NEW s, NEW n, ConnShape(c, s, n), ConnKept(c, s, n),
         NEW d \in ClientRecords, d.state = c.state, d.challenge = c.challenge
  PROVE  ConnShape(d, s, n) /\ ConnKept(d, s, n)
<1>1. ConnShape(d, s, n)
    BY DEF ConnShape
<1>2. \A k : WasUsed(d, s, n, k) <=> WasUsed(c, s, n, k)
    BY DEF WasUsed
<1>3. IsAccepted(d, n) <=> IsAccepted(c, n)
    BY DEF IsAccepted
<1>4. NewToClient(d, s, n) /\ NotUsedBefore(d, s, n)
    BY <1>2 DEF ConnKept, NewToClient, NotUsedBefore
<1>5. EarlierConnects(d, s, n) /\ ResponsesRecent(d, s, n)
    BY <1>3 DEF ConnKept, EarlierConnects, ResponsesRecent
<1>6. UsedConnects(d, s, n) /\ SameConnection(d, s, n)
    BY <1>2, <1>3 DEF ConnKept, UsedConnects, SameConnection
<1> QED
    BY <1>1, <1>4, <1>5, <1>6 DEF ConnKept

LEMMA ClientLeaves ==
  ASSUME NEW c, NEW s, NEW n, ConnShape(c, s, n), ConnKept(c, s, n),
         NEW d \in ClientRecords, d.state = "disconnected",
         NEW m \in SUBSET ConnPackets, n \subseteq m,
         \A q \in m \ n : q.kind = "disconnect" /\ c.state = "connected" /\ q.challenge = c.challenge
  PROVE  ConnShape(d, s, m) /\ ConnKept(d, s, m)
<1>1. ConnShape(d, s, m)
    BY DEF ConnShape
<1>2. \A k : WasUsed(d, s, m, k) => WasUsed(c, s, n, k)
    BY DEF WasUsed, Has
<1>3. ~IsAccepted(d, m)
    BY DEF IsAccepted
<1>4. NewToClient(d, s, m) /\ NotUsedBefore(d, s, m) /\ ResponsesRecent(d, s, m)
    BY DEF NewToClient, NotUsedBefore, ResponsesRecent
<1>5. EarlierConnects(d, s, m) /\ SameConnection(d, s, m)
    BY <1>3 DEF EarlierConnects, SameConnection
<1>6. UsedConnects(d, s, m)
  <2>1. \A q \in m : q.kind = "connect" => q \in n
      OBVIOUS
  <2> QED
      BY <1>2, <2>1 DEF ConnKept, UsedConnects
<1> QED
    BY <1>1, <1>4, <1>5, <1>6 DEF ConnKept

LEMMA ClientBegins ==
  ASSUME NEW c, NEW s, NEW n, ConnShape(c, s, n), ConnKept(c, s, n), c.state = "disconnected",
         NEW d \in ClientRecords, d.state = "connecting", d.challenge \in ClientNumbers,
         \A q \in n : q.number # d.challenge
  PROVE  ConnShape(d, s, n) /\ ConnKept(d, s, n)
<1>1. ConnShape(d, s, n)
    BY DEF ConnShape
<1>2. \A k : WasUsed(d, s, n, k) => WasUsed(c, s, n, k)
    BY DEF WasUsed
<1>3. ~IsAccepted(d, n)
    BY DEF IsAccepted
<1>4. NewToClient(d, s, n) /\ NotUsedBefore(d, s, n) /\ ResponsesRecent(d, s, n)
    BY DEF NewToClient, NotUsedBefore, ResponsesRecent
<1>5. EarlierConnects(d, s, n) /\ SameConnection(d, s, n)
    BY <1>3 DEF EarlierConnects, SameConnection
<1>6. UsedConnects(d, s, n)
    BY <1>2 DEF ConnKept, UsedConnects
<1> QED
    BY <1>1, <1>4, <1>5, <1>6 DEF ConnKept

LEMMA ClientChallenged ==
  ASSUME NEW c, NEW s, NEW n, ConnShape(c, s, n), ConnKept(c, s, n), c.state = "connecting",
         NEW p \in n, p.kind = "challengeResponse", p.number = c.challenge,
         NEW d \in ClientRecords, d.state = "challenging", d.challenge = p.challenge
  PROVE  ConnShape(d, s, n) /\ ConnKept(d, s, n)
<1>1. ConnShape(d, s, n)
    BY DEF ConnShape
<1>2. NotYetUsed(s, n, d.challenge)
    BY DEF ConnKept, NewToClient
<1>3. \A k : WasUsed(d, s, n, k) <=> WasUsed(c, s, n, k)
    BY DEF WasUsed
<1>4. ~IsAccepted(d, n)
    BY <1>2 DEF IsAccepted, NotYetUsed
<1>5. ~WasUsed(d, s, n, d.challenge)
    BY <1>2 DEF WasUsed, NotYetUsed
<1>6. NewToClient(d, s, n) /\ NotUsedBefore(d, s, n)
    BY <1>5 DEF NewToClient, NotUsedBefore
<1>7. ResponsesRecent(d, s, n)
    BY <1>2 DEF ResponsesRecent, NotYetUsed, Has
<1>8. EarlierConnects(d, s, n) /\ SameConnection(d, s, n)
    BY <1>4 DEF EarlierConnects, SameConnection
<1>9. UsedConnects(d, s, n)
    BY <1>3 DEF ConnKept, UsedConnects
<1> QED
    BY <1>1, <1>6, <1>7, <1>8, <1>9 DEF ConnKept

LEMMA ClientConnected ==
  ASSUME NEW c, NEW s, NEW n, ConnShape(c, s, n), ConnKept(c, s, n), c.state = "challenging",
         NEW p \in n, p.kind = "connectResponse", p.challenge = c.challenge,
         NEW d \in ClientRecords, d.state = "connected", d.challenge = c.challenge
  PROVE  ConnShape(d, s, n) /\ ConnKept(d, s, n)
<1>1. ConnShape(d, s, n)
    BY DEF ConnShape
<1>2. IsAccepted(c, n)
    BY DEF IsAccepted, Has
<1>3. NewToClient(d, s, n) /\ NotUsedBefore(d, s, n) /\ ResponsesRecent(d, s, n)
    BY DEF NewToClient, NotUsedBefore, ResponsesRecent
<1>4. EarlierConnects(d, s, n) /\ SameConnection(d, s, n)
    BY <1>2 DEF ConnKept, EarlierConnects, SameConnection
<1>5. UsedConnects(d, s, n)
  <2> SUFFICES ASSUME NEW q \in n, q.kind = "connect", WasUsed(d, s, n, q.challenge)
               PROVE  TakenWithin(s, 2 * Lifetime - q.left)
      BY DEF UsedConnects
  <2>1. CASE q.challenge # d.challenge
    <3>1. WasUsed(c, s, n, q.challenge)
        BY <2>1 DEF WasUsed
    <3> QED
        BY <3>1 DEF ConnKept, UsedConnects
  <2>2. CASE q.challenge = d.challenge
    <3>1. TakenWithin(s, Lifetime - p.left)
        BY DEF ConnKept, ResponsesRecent
    <3>2. p.left \in 0..Lifetime /\ q.left \in 0..Lifetime /\ s.sinceConnect \in 0..ReconnectLimit
        BY PacketsTyped
    <3> QED
        BY <3>1, <3>2, TimesAreNumbers DEF TakenWithin
  <2> QED
      BY <2>1, <2>2
<1> QED
    BY <1>1, <1>3, <1>4, <1>5 DEF ConnKept

(* A slot that may be taken is not one of a connection that was accepted.  *)
MayTake(s) == s.state = "free" \/ ~(s.sinceConnect < ReconnectLimit)

LEMMA NotTaken ==
  ASSUME PacketsExpire, NEW c, NEW s, NEW n, ConnShape(c, s, n), ConnKept(c, s, n),
         \A age \in 0..(2 * Lifetime) : ~TakenWithin(s, age)
  PROVE  /\ \A p \in n : p.kind = "connect" => ~WasUsed(c, s, n, p.challenge)
         /\ IsAccepted(c, n) => \A p \in n : p.kind = "connect" => p.challenge = c.challenge
         /\ c.state = "challenging" => ~IsAccepted(c, n)
<1>1. \A p \in n : p.left \in 0..Lifetime
    BY PacketsTyped
<1>2. \A p \in n : 2 * Lifetime - p.left \in 0..(2 * Lifetime) /\ Lifetime - p.left \in 0..(2 * Lifetime)
    BY <1>1, TimesAreNumbers
<1>3. \A p \in n : ~TakenWithin(s, 2 * Lifetime - p.left) /\ ~TakenWithin(s, Lifetime - p.left)
    BY <1>2
<1>4. \A p \in n : p.kind = "connect" => ~WasUsed(c, s, n, p.challenge)
    BY <1>3 DEF ConnKept, UsedConnects
<1>5. IsAccepted(c, n) => \A p \in n : p.kind = "connect" => p.challenge = c.challenge
    BY <1>3 DEF ConnKept, EarlierConnects
<1>6. c.state = "challenging" => ~IsAccepted(c, n)
    BY <1>3 DEF ConnKept, ResponsesRecent, IsAccepted, Has
<1> QED
    BY <1>4, <1>5, <1>6

LEMMA FreeIsNotTaken ==
  ASSUME PacketsExpire, NEW c, NEW s, NEW n, ConnShape(c, s, n), MayTake(s)
  PROVE  \A age \in 0..(2 * Lifetime) : ~TakenWithin(s, age)
<1>1. s.sinceConnect \in 0..ReconnectLimit
    BY PacketsTyped
<1> QED
    BY <1>1, TimesAreNumbers DEF PacketsExpire, MayTake, TakenWithin

LEMMA SilentIsNotTaken ==
  ASSUME PacketsExpire, NEW c, NEW s, NEW n, ConnShape(c, s, n), ConnKept(c, s, n), s.silent > 2 * Lifetime
  PROVE  \A age \in 0..(2 * Lifetime) : ~TakenWithin(s, age)
<1>1. s.sinceConnect \in 0..ReconnectLimit /\ s.silent \in 0..Timeout
    BY PacketsTyped
<1>2. s.sinceConnect < ReconnectLimit => s.silent <= s.sinceConnect
    BY DEF ConnKept, SilentSince
<1> QED
    BY <1>1, <1>2, TimesAreNumbers DEF PacketsExpire, TakenWithin

(* What becomes of the slot. *)
LEMMA SlotTaken ==
  ASSUME PacketsExpire, NEW c, NEW s, NEW n, ConnShape(c, s, n), ConnKept(c, s, n), MayTake(s),
         NEW p \in n, p.kind = "connect",
         NEW q \in ConnPackets, q.kind = "connectResponse", q.challenge = p.challenge,
         NEW t \in SlotRecords, t.state = "connected", t.challenge = p.challenge,
         t.sinceConnect = 0, t.silent = 0, ~t.heard
  PROVE  ConnShape(c, t, n \cup {q}) /\ ConnKept(c, t, n \cup {q}) /\ c.state # "connected"
         /\ ~WasUsed(c, s, n, p.challenge)
<1> DEFINE m == n \cup {q}
<1>1. \A kind, x : kind # "connectResponse" => (Has(m, kind, x) <=> Has(n, kind, x))
    BY DEF Has
<1>2. \A x : Has(m, "connectResponse", x) => Has(n, "connectResponse", x) \/ x = p.challenge
    BY DEF Has
<1>3. \A r \in m : r.left \in 0..Lifetime
    BY PacketsTyped DEF ConnPackets
<1>4. ConnShape(c, t, m)
    BY DEF ConnShape
<1>5. \A r \in m : TakenWithin(t, Lifetime - r.left) /\ TakenWithin(t, 2 * Lifetime - r.left)
    BY <1>3, TimesAreNumbers DEF TakenWithin
<1>6. \A r \in m : r.kind # "connectResponse" => r \in n
    OBVIOUS
<1> HIDE DEF m
<1>7. \A age \in 0..(2 * Lifetime) : ~TakenWithin(s, age)
    BY FreeIsNotTaken
<1>8. /\ ~WasUsed(c, s, n, p.challenge)
      /\ IsAccepted(c, n) => p.challenge = c.challenge
      /\ c.state = "challenging" => ~IsAccepted(c, n)
    BY <1>7, NotTaken
<1>9. c.state # "connected"
    BY <1>8 DEF IsAccepted, WasUsed
<1>10. NewToClient(c, t, m)
  <2> SUFFICES ASSUME NEW r \in m, r.kind = "challengeResponse", c.state = "connecting", r.number = c.challenge
               PROVE  NotYetUsed(t, m, r.challenge)
      BY DEF NewToClient
  <2>1. NotYetUsed(s, n, r.challenge)
      BY <1>6 DEF ConnKept, NewToClient
  <2>2. r.challenge # p.challenge
      BY <2>1 DEF NotYetUsed, Has
  <2> QED
      BY <1>1, <1>2, <2>1, <2>2 DEF NotYetUsed
<1>11. NotUsedBefore(c, t, m)
    BY <1>1 DEF ConnKept, NotUsedBefore, WasUsed
<1>12. EarlierConnects(c, t, m) /\ ResponsesRecent(c, t, m) /\ UsedConnects(c, t, m)
    BY <1>5 DEF EarlierConnects, ResponsesRecent, UsedConnects
<1>13. SameConnection(c, t, m)
    BY <1>2, <1>8, <1>9 DEF SameConnection, IsAccepted
<1>14. SilentSince(t)
    BY DEF SilentSince
<1>15. ConnShape(c, t, m) /\ ConnKept(c, t, m)
    BY <1>4, <1>10, <1>11, <1>12, <1>13, <1>14 DEF ConnKept
<1> QED
    BY <1>8, <1>9, <1>15 DEF m

LEMMA SlotFreed ==
  ASSUME PacketsExpire, NEW c, NEW s, NEW n, ConnShape(c, s, n), ConnKept(c, s, n),
         \A age \in 0..(2 * Lifetime) : ~TakenWithin(s, age),
         NEW t \in SlotRecords, t.state = "free", t.sinceConnect = ReconnectLimit,
         t.heard => s.heard, (t.challenge = s.challenge \/ (~t.heard /\ Has(n, "connect", t.challenge)))
  PROVE  ConnShape(c, t, n) /\ ConnKept(c, t, n)
<1>1. ConnShape(c, t, n)
    BY DEF ConnShape
<1>2. /\ \A p \in n : p.kind = "connect" => ~WasUsed(c, s, n, p.challenge)
      /\ IsAccepted(c, n) => \A p \in n : p.kind = "connect" => p.challenge = c.challenge
      /\ c.state = "challenging" => ~IsAccepted(c, n)
    BY NotTaken
<1>3. \A k : WasUsed(c, t, n, k) => WasUsed(c, s, n, k)
    BY DEF WasUsed
<1>4. NewToClient(c, t, n)
    BY DEF ConnKept, NewToClient, NotYetUsed
<1>5. NotUsedBefore(c, t, n)
    BY <1>3 DEF ConnKept, NotUsedBefore
<1>6. EarlierConnects(c, t, n)
    BY <1>2 DEF EarlierConnects
<1>7. ResponsesRecent(c, t, n)
    BY <1>2 DEF ResponsesRecent, IsAccepted, Has
<1>8. UsedConnects(c, t, n)
    BY <1>2, <1>3 DEF UsedConnects
<1>9. SameConnection(c, t, n)
    BY DEF SameConnection
<1>10. SilentSince(t)
    BY TimesAreNumbers DEF SilentSince
<1> QED
    BY <1>1, <1>4, <1>5, <1>6, <1>7, <1>8, <1>9, <1>10 DEF ConnKept

(* The slot stays taken; it may become a zombie, and hear from the client  *)
(* of a connection that was used. *)
LEMMA SlotStays ==
  ASSUME NEW c, NEW s, NEW n, ConnShape(c, s, n), ConnKept(c, s, n),
         NEW t \in SlotRecords, s.state = "connected", t.state \in {"connected", "zombie"},
         t.challenge = s.challenge, t.sinceConnect = s.sinceConnect, t.silent <= s.silent,
         t.heard => s.heard \/ WasUsed(c, s, n, s.challenge)
  PROVE  ConnShape(c, t, n) /\ ConnKept(c, t, n)
<1>1. ConnShape(c, t, n)
    BY DEF ConnShape
<1>2. \A k : WasUsed(c, t, n, k) => WasUsed(c, s, n, k)
    BY DEF WasUsed
<1>3. \A age : TakenWithin(s, age) => TakenWithin(t, age)
    BY DEF TakenWithin
<1>4. NewToClient(c, t, n)
    BY DEF ConnKept, NewToClient, NotYetUsed
<1>5. NotUsedBefore(c, t, n)
    BY <1>2 DEF ConnKept, NotUsedBefore
<1>6. EarlierConnects(c, t, n) /\ ResponsesRecent(c, t, n)
    BY <1>3 DEF ConnKept, EarlierConnects, ResponsesRecent
<1>7. UsedConnects(c, t, n)
    BY <1>2, <1>3 DEF ConnKept, UsedConnects
<1>8. SameConnection(c, t, n)
    BY DEF ConnKept, SameConnection
<1>9. SilentSince(t)
  <2>1. /\ s.sinceConnect \in 0..ReconnectLimit /\ s.silent \in 0..Timeout
        /\ t.sinceConnect \in 0..ReconnectLimit /\ t.silent \in 0..Timeout
      BY <1>1, PacketsTyped
  <2> QED
      BY <2>1 DEF ConnKept, SilentSince
<1> QED
    BY <1>1, <1>4, <1>5, <1>6, <1>7, <1>8, <1>9 DEF ConnKept

(* A second later. *)
LEMMA SecondLater ==
  ASSUME NEW c, NEW s, NEW n, ConnShape(c, s, n), ConnKept(c, s, n),
         NEW t \in SlotRecords, t.state \in {s.state, "free"}, t.challenge = s.challenge, t.heard = s.heard,
         SilentSince(t),
         \A age \in 0..(2 * Lifetime) : TakenWithin(s, age - 1) => TakenWithin(t, age),
         NEW m \in SUBSET ConnPackets,
         \A q \in m : \E p \in n : /\ p.kind = q.kind /\ p.challenge = q.challenge /\ p.number = q.number
                                   /\ p.left = q.left + 1
  PROVE  ConnShape(c, t, m) /\ ConnKept(c, t, m)
<1>1. \A q \in m : q.left \in 0..Lifetime
    BY DEF ConnPackets
<1>2. \A kind, k : Has(m, kind, k) => Has(n, kind, k)
    BY DEF Has
<1>3. \A k : WasUsed(c, t, m, k) => WasUsed(c, s, n, k)
    BY <1>2 DEF WasUsed
<1>4. IsAccepted(c, m) => IsAccepted(c, n)
    BY <1>2 DEF IsAccepted
<1>5. \A q \in m : \A age \in {Lifetime, 2 * Lifetime} :
          /\ age - q.left \in 0..(2 * Lifetime)
          /\ \A p \in n : p.left = q.left + 1 => age - p.left = age - q.left - 1
    BY <1>1, TimesAreNumbers
<1>6. \A q \in m : \A p \in n : p.left = q.left + 1 =>
          /\ TakenWithin(s, Lifetime - p.left) => TakenWithin(t, Lifetime - q.left)
          /\ TakenWithin(s, 2 * Lifetime - p.left) => TakenWithin(t, 2 * Lifetime - q.left)
    BY <1>5
<1>7. ConnShape(c, t, m)
    BY DEF ConnShape
<1>8. NewToClient(c, t, m)
  <2> SUFFICES ASSUME NEW q \in m, q.kind = "challengeResponse", c.state = "connecting", q.number = c.challenge
               PROVE  NotYetUsed(t, m, q.challenge)
      BY DEF NewToClient
  <2>1. NotYetUsed(s, n, q.challenge)
      BY DEF ConnKept, NewToClient
  <2> QED
      BY <1>2, <2>1 DEF NotYetUsed
<1>9. NotUsedBefore(c, t, m)
    BY <1>3 DEF ConnKept, NotUsedBefore
<1>10. EarlierConnects(c, t, m)
  <2> SUFFICES ASSUME IsAccepted(c, m), NEW q \in m, q.kind = "connect", q.challenge # c.challenge
               PROVE  TakenWithin(t, Lifetime - q.left)
      BY DEF EarlierConnects
  <2> QED
      BY <1>4, <1>6 DEF ConnKept, EarlierConnects
<1>11. ResponsesRecent(c, t, m)
  <2> SUFFICES ASSUME c.state = "challenging", NEW q \in m, q.kind = "connectResponse", q.challenge = c.challenge
               PROVE  TakenWithin(t, Lifetime - q.left)
      BY DEF ResponsesRecent
  <2> QED
      BY <1>6 DEF ConnKept, ResponsesRecent
<1>12. UsedConnects(c, t, m)
  <2> SUFFICES ASSUME NEW q \in m, q.kind = "connect", WasUsed(c, t, m, q.challenge)
               PROVE  TakenWithin(t, 2 * Lifetime - q.left)
      BY DEF UsedConnects
  <2> QED
      BY <1>3, <1>6 DEF ConnKept, UsedConnects
<1>13. SameConnection(c, t, m)
    BY <1>4 DEF ConnKept, SameConnection
<1> QED
    BY <1>7, <1>8, <1>9, <1>10, <1>11, <1>12, <1>13 DEF ConnKept
-----------------------------------------------------------------------------
(* The steps. *)
Kept(c, s, n) == ConnShape(c, s, n) /\ ConnKept(c, s, n)

LEMMA PacketTyped ==
  ASSUME NEW kind \in PacketKinds, NEW k \in Names, NEW number \in Names
  PROVE  /\ ConnPacket(kind, k, number) \in ConnPackets
         /\ ConnPacket(kind, k, number).kind = kind /\ ConnPacket(kind, k, number).challenge = k
BY TimesAreNumbers DEF ConnPacket, ConnPackets

LEMMA PrintTyped == PrintPacket \in ConnPackets /\ PrintPacket.kind = "print"
<1>1. "print" \in PacketKinds /\ Nothing \in Names
    BY DEF PacketKinds, Names
<1> QED
    BY <1>1, PacketTyped DEF PrintPacket

(* A packet is received, the answers of which are q. *)
LEMMA ReceivedKeeps ==
  ASSUME NEW c, NEW s, NEW p \in net, NEW replies, Received(p, replies), Kept(c, s, net \cup replies)
  PROVE  Kept(c, s, net')
<1>1. net' \subseteq net \cup replies
    BY DEF Received
<1> QED
    BY <1>1, FewerPackets DEF Kept

LEMMA ReceivedOnly ==
  ASSUME NEW c, NEW s, NEW p \in net, Received(p, {}), Kept(c, s, net)
  PROVE  Kept(c, s, net')
<1>1. net \cup {} = net
    OBVIOUS
<1> QED
    BY <1>1, ReceivedKeeps

LEMMA FoundTyped ==
  ASSUME ConnInd
  PROVE  /\ client \in ClientRecords /\ slot \in SlotRecords
         /\ \A p \in net : p \in ConnPackets /\ p.challenge \in Names /\ p.number \in Names
         /\ client.challenge \in Names
         /\ \A p \in net : p.kind = "connect" => p.challenge \in Challenges
         /\ Kept(client, slot, net)
<1>1. client \in ClientRecords /\ slot \in SlotRecords /\ net \subseteq ConnPackets /\ Kept(client, slot, net)
    BY DEF ConnInd, Kept, ConnShape
<1>2. \A p \in net : p \in ConnPackets /\ p.challenge \in Names /\ p.number \in Names
    BY <1>1 DEF ConnPackets
<1>3. client.challenge \in Names
    BY <1>1 DEF ClientRecords
<1>4. \A p \in net : p.kind = "connect" => p.challenge \in Challenges
    BY DEF ConnInd, ConnShape
<1> QED
    BY <1>1, <1>2, <1>3, <1>4

LEMMA EntersTyped ==
  ASSUME table \in [TableEntries -> ChallengeEntry], NEW owner \in {"us", "other", "none"},
         NEW k \in Challenges \cup {Nothing}, Enters(owner, k)
  PROVE  table' \in [TableEntries -> ChallengeEntry]
<1> DEFINE entry == [owner |-> owner, challenge |-> k, connected |-> FALSE]
<1>1. PICK i \in Scanned(owner) : table' = [table EXCEPT ![i] = entry]
    BY DEF Enters
<1>2. entry \in ChallengeEntry
    BY DEF ChallengeEntry
<1> HIDE DEF entry
<1> QED
    BY <1>1, <1>2

LEMMA TakesTyped ==
  ASSUME table \in [TableEntries -> ChallengeEntry], NEW k, Takes(k)
  PROVE  table' \in [TableEntries -> ChallengeEntry]
BY DEF Takes, ChallengeEntry

LEMMA DropsTyped ==
  ASSUME table \in [TableEntries -> ChallengeEntry], NEW s, Drops(s)
  PROVE  table' \in [TableEntries -> ChallengeEntry]
BY DEF Drops, ChallengeEntry, EmptyEntry

LEMMA ConnInitInd == ConnInit => ConnInd
<1> SUFFICES ASSUME ConnInit PROVE ConnInd
    OBVIOUS
<1>1. table \in [TableEntries -> ChallengeEntry]
    BY DEF ConnInit, ChallengeEntry, EmptyEntry
<1>2. ConnShape(client, slot, net)
  <2>1. client \in ClientRecords
      BY TimesAreNumbers DEF ConnInit, ClientRecords, Names
  <2>2. slot \in SlotRecords
      BY TimesAreNumbers DEF ConnInit, SlotRecords
  <2> QED
      BY <2>1, <2>2 DEF ConnInit, ConnShape
<1>3. SilentSince(slot)
    BY TimesAreNumbers DEF ConnInit, SilentSince
<1>4. ConnKept(client, slot, net)
    BY <1>3 DEF ConnInit, ConnKept, NewToClient, NotUsedBefore, EarlierConnects, ResponsesRecent, UsedConnects,
                SameConnection, IsAccepted, Has
<1> QED
    BY <1>1, <1>2, <1>4 DEF ConnInd

(* The client's own steps. *)
LEMMA ClientConnectsStep ==
  ASSUME ConnInd, CL_Connect_f
  PROVE  ConnInd'
<1>1. PICK number \in FreshNumbers :
          client' = [state |-> "connecting", challenge |-> number, sinceSent |-> Retransmit]
    BY DEF CL_Connect_f
<1>2. number \in ClientNumbers /\ \A p \in net : p.number # number
    BY DEF FreshNumbers
<1>3. client' \in ClientRecords /\ client'.state = "connecting" /\ client'.challenge = number
    BY <1>1, <1>2, TimesAreNumbers DEF ClientRecords, Names
<1>4. client.state = "disconnected" /\ table' = table /\ slot' = slot /\ net' = net
    BY DEF CL_Connect_f
<1>5. ConnShape(client', slot, net) /\ ConnKept(client', slot, net)
    BY <1>2, <1>3, <1>4, ClientBegins DEF ConnInd
<1> QED
    BY <1>4, <1>5 DEF ConnInd

LEMMA ClientResendsStep ==
  ASSUME ConnInd, CL_CheckForResend
  PROVE  ConnInd'
<1> DEFINE q == IF client.state = "connecting" THEN ConnPacket("getchallenge", Nothing, client.challenge)
                ELSE ConnPacket("connect", client.challenge, Nothing)
<1>1. /\ client.state \in {"connecting", "challenging"} /\ client' = [client EXCEPT !.sinceSent = 0]
      /\ net' = net \cup {q} /\ table' = table /\ slot' = slot
    BY DEF CL_CheckForResend
<1>2. Nothing \in Names /\ client.challenge \in Names /\ "getchallenge" \in PacketKinds /\ "connect" \in PacketKinds
    BY FoundTyped DEF Names, PacketKinds
<1>3. Kept(client, slot, net \cup {q})
  <2>1. CASE client.state = "connecting"
    <3>1. q \in ConnPackets /\ q.kind = "getchallenge"
        BY <1>2, <2>1, PacketTyped
    <3> QED
        BY <3>1, OtherPackets DEF ConnInd, Kept
  <2>2. CASE client.state = "challenging"
    <3>1. q \in ConnPackets /\ q.kind = "connect" /\ q.challenge = client.challenge
        BY <1>2, <2>2, PacketTyped
    <3> HIDE DEF q
    <3> QED
        BY <2>2, <3>1, ConnectSent DEF ConnInd, Kept
  <2> QED
      BY <1>1, <2>1, <2>2
<1>4. client' \in ClientRecords /\ client'.state = client.state /\ client'.challenge = client.challenge
    BY <1>1, FoundTyped, TimesAreNumbers DEF ClientRecords
<1> HIDE DEF q
<1>5. Kept(client', slot, net \cup {q})
    BY <1>3, <1>4, ClientSame DEF Kept
<1> QED
    BY <1>1, <1>5 DEF ConnInd, Kept

LEMMA ClientDisconnectsStep ==
  ASSUME ConnInd, CL_Disconnect
  PROVE  ConnInd'
<1>1. /\ client' = [state |-> "disconnected", challenge |-> Nothing, sinceSent |-> 0]
      /\ table' = table /\ slot' = slot
      /\ net' = IF client.state = "connected" THEN net \cup {ConnPacket("disconnect", client.challenge, Nothing)}
                ELSE net
    BY DEF CL_Disconnect
<1>2. client' \in ClientRecords /\ client'.state = "disconnected"
    BY <1>1, TimesAreNumbers DEF ClientRecords, Names
<1>3. "disconnect" \in PacketKinds /\ client.challenge \in Names /\ Nothing \in Names
    BY FoundTyped DEF Names, PacketKinds
<1>4. /\ ConnPacket("disconnect", client.challenge, Nothing) \in ConnPackets
      /\ ConnPacket("disconnect", client.challenge, Nothing).kind = "disconnect"
      /\ ConnPacket("disconnect", client.challenge, Nothing).challenge = client.challenge
    BY <1>3, PacketTyped
<1>5. net' \in SUBSET ConnPackets /\ net \subseteq net'
    BY <1>1, <1>4, FoundTyped
<1>6. \A q \in net' \ net : q.kind = "disconnect" /\ client.state = "connected" /\ q.challenge = client.challenge
    BY <1>1, <1>4
<1>7. ConnShape(client', slot, net') /\ ConnKept(client', slot, net')
    BY <1>2, <1>5, <1>6, ClientLeaves DEF ConnInd
<1> QED
    BY <1>1, <1>7 DEF ConnInd

LEMMA ChallengeResponseStep ==
  ASSUME ConnInd, NEW p \in net, ChallengeResponse(p)
  PROVE  ConnInd'
<1>1. Kept(client', slot, net)
  <2>1. CASE client.state = "connecting" /\ p.number = client.challenge
    <3>1. client' = [client EXCEPT !.state = "challenging", !.challenge = p.challenge, !.sinceSent = Retransmit]
        BY <2>1 DEF ChallengeResponse
    <3>2. client \in ClientRecords /\ p.challenge \in Names /\ Retransmit \in 0..Retransmit
        BY FoundTyped, TimesAreNumbers
    <3>3. client' \in ClientRecords /\ client'.state = "challenging" /\ client'.challenge = p.challenge
        BY <3>1, <3>2 DEF ClientRecords
    <3> QED
        BY <2>1, <3>3, ClientChallenged DEF ConnInd, Kept, ChallengeResponse
  <2>2. CASE ~(client.state = "connecting" /\ p.number = client.challenge)
      BY <2>2, FoundTyped DEF ChallengeResponse
  <2> QED
      BY <2>1, <2>2
<1>2. Kept(client', slot, net')
    BY <1>1, ReceivedOnly DEF ChallengeResponse
<1> QED
    BY <1>2 DEF ConnInd, Kept, ChallengeResponse

LEMMA ConnectResponseStep ==
  ASSUME ConnInd, NEW p \in net, ConnectResponse(p)
  PROVE  ConnInd'
<1>1. Kept(client', slot, net)
  <2>1. CASE IsOurs(p)
    <3>1. client' = [client EXCEPT !.state = "connected", !.sinceSent = 0]
        BY <2>1 DEF ConnectResponse
    <3>2. client \in ClientRecords /\ 0 \in 0..Retransmit
        BY FoundTyped, TimesAreNumbers
    <3>3. client' \in ClientRecords /\ client'.state = "connected" /\ client'.challenge = client.challenge
        BY <3>1, <3>2 DEF ClientRecords
    <3> QED
        BY <2>1, <3>3, ClientConnected DEF ConnInd, Kept, ConnectResponse, IsOurs
  <2>2. CASE ~IsOurs(p)
      BY <2>2, FoundTyped DEF ConnectResponse
  <2> QED
      BY <2>1, <2>2
<1>2. Kept(client', slot, net')
    BY <1>1, ReceivedOnly DEF ConnectResponse
<1> QED
    BY <1>2 DEF ConnInd, Kept, ConnectResponse

LEMMA PrintedStep ==
  ASSUME ConnInd, NEW p \in net, Printed(p)
  PROVE  ConnInd'
<1>1. Kept(client, slot, net')
    BY FoundTyped, ReceivedOnly DEF Printed
<1> QED
    BY <1>1 DEF ConnInd, Kept, Printed

(* The server's. *)
LEMMA GetChallengeStep ==
  ASSUME ConnInd, NEW p \in net, SV_GetChallenge(p)
  PROVE  ConnInd'
<1>1. PICK k \in FreshChallenges :
          Enters("us", k) /\ Received(p, {ConnPacket("challengeResponse", k, p.number)})
    BY DEF SV_GetChallenge
<1> DEFINE q == ConnPacket("challengeResponse", k, p.number)
<1>2. k \in Challenges /\ slot.challenge # k /\ \A r \in net : r.challenge # k
    BY DEF FreshChallenges
<1>3. k \in Names /\ "challengeResponse" \in PacketKinds /\ p.number \in Names
    BY <1>2, FoundTyped DEF Names, PacketKinds
<1>4. q \in ConnPackets /\ q.kind = "challengeResponse" /\ q.challenge = k
    BY <1>3, PacketTyped
<1> HIDE DEF q
<1>5. Kept(client, slot, net \cup {q})
    BY <1>2, <1>4, ChallengeSent DEF ConnInd, Kept
<1>6. Kept(client, slot, net')
    BY <1>1, <1>5, ReceivedKeeps DEF q
<1>7. table' \in [TableEntries -> ChallengeEntry]
    BY <1>1, <1>2, EntersTyped DEF ConnInd
<1> QED
    BY <1>6, <1>7 DEF ConnInd, Kept, SV_GetChallenge

LEMMA OtherAsksStep ==
  ASSUME ConnInd, OtherAsks
  PROVE  ConnInd'
<1>1. table' \in [TableEntries -> ChallengeEntry]
    BY EntersTyped DEF ConnInd, OtherAsks
<1> QED
    BY <1>1 DEF ConnInd, OtherAsks

(* A "print" is sent and nothing else happens. *)
LEMMA PrintSent ==
  ASSUME NEW s, Kept(client, s, net), NEW p \in net, Received(p, {PrintPacket})
  PROVE  Kept(client, s, net')
<1>1. Kept(client, s, net \cup {PrintPacket})
    BY PrintTyped, OtherPackets DEF Kept
<1> QED
    BY <1>1, ReceivedKeeps

LEMMA NotTooSoon == ~TooSoon => MayTake(slot)
BY DEF TooSoon, MayTake

LEMMA DeniedKept ==
  ASSUME PacketsExpire, ConnInd, NEW p \in net, p.kind = "connect", Denied(p)
  PROVE  Kept(client, slot', net')
<1>1. MayTake(slot)
    BY NotTooSoon DEF Denied, Takes
<1>2. \A age \in 0..(2 * Lifetime) : ~TakenWithin(slot, age)
    BY <1>1, FreeIsNotTaken DEF ConnInd
<1>3. slot' = [state |-> "free", challenge |-> p.challenge, sinceConnect |-> ReconnectLimit,
               silent |-> Timeout, heard |-> FALSE]
    BY DEF Denied, FreedSlot, NewClient
<1>4. p.challenge \in Challenges
    BY FoundTyped
<1>5. /\ slot' \in SlotRecords /\ slot'.state = "free" /\ slot'.sinceConnect = ReconnectLimit
      /\ ~slot'.heard /\ slot'.challenge = p.challenge
    BY <1>3, <1>4, TimesAreNumbers DEF SlotRecords
<1>6. Has(net, "connect", slot'.challenge)
    BY <1>5 DEF Has
<1>7. Kept(client, slot', net)
    BY <1>2, <1>5, <1>6, SlotFreed DEF ConnInd, Kept
<1> QED
    BY <1>7, PrintSent DEF Denied

LEMMA AcceptsKept ==
  ASSUME PacketsExpire, ConnInd, NEW p \in net, p.kind = "connect", Accepts(p)
  PROVE  Kept(client, slot', net') /\ client.state # "connected" /\ ~WasUsed(client, slot, net, p.challenge)
<1> DEFINE q == ConnPacket("connectResponse", p.challenge, Nothing)
<1>1. MayTake(slot)
    BY NotTooSoon DEF Accepts, Takes
<1>2. slot' = [state |-> "connected", challenge |-> p.challenge, sinceConnect |-> 0, silent |-> 0, heard |-> FALSE]
    BY DEF Accepts, NewClient
<1>3. p.challenge \in Challenges
    BY FoundTyped
<1>4. /\ slot' \in SlotRecords /\ slot'.state = "connected" /\ slot'.challenge = p.challenge
      /\ slot'.sinceConnect = 0 /\ slot'.silent = 0 /\ ~slot'.heard
    BY <1>2, <1>3, TimesAreNumbers DEF SlotRecords
<1>5. "connectResponse" \in PacketKinds /\ p.challenge \in Names /\ Nothing \in Names
    BY <1>3 DEF PacketKinds, Names
<1>6. q \in ConnPackets /\ q.kind = "connectResponse" /\ q.challenge = p.challenge
    BY <1>5, PacketTyped
<1>7. Received(p, {q})
    BY DEF Accepts
<1> HIDE DEF q
<1>8. /\ Kept(client, slot', net \cup {q}) /\ client.state # "connected"
      /\ ~WasUsed(client, slot, net, p.challenge)
    BY <1>1, <1>4, <1>6, SlotTaken DEF ConnInd, Kept
<1> QED
    BY <1>7, <1>8, ReceivedKeeps

LEMMA DirectConnectStep ==
  ASSUME PacketsExpire, ConnInd, NEW p \in net, SV_DirectConnect(p)
  PROVE  ConnInd'
<1>1. p.kind = "connect" /\ client' = client
    BY DEF SV_DirectConnect
<1>2. Kept(client, slot', net') /\ table' \in [TableEntries -> ChallengeEntry]
  <2>1. CASE RejectsSoon(p)
      BY <2>1, FoundTyped, ReceivedOnly DEF RejectsSoon, ConnInd
  <2>2. CASE RejectsChallenge(p)
      BY <2>2, FoundTyped, PrintSent DEF RejectsChallenge, ConnInd
  <2>3. CASE Full(p)
      BY <2>3, FoundTyped, PrintSent, TakesTyped DEF Full, ConnInd
  <2>4. CASE Denied(p)
      BY <1>1, <2>4, DeniedKept, TakesTyped DEF Denied, ConnInd
  <2>5. CASE Accepts(p)
      BY <1>1, <2>5, AcceptsKept, TakesTyped DEF Accepts, ConnInd
  <2> QED
      BY <2>1, <2>2, <2>3, <2>4, <2>5 DEF SV_DirectConnect
<1> QED
    BY <1>1, <1>2 DEF ConnInd, Kept

LEMMA GoodbyeStep ==
  ASSUME ConnInd, NEW p \in net, Goodbye(p)
  PROVE  ConnInd'
<1>1. Kept(client, slot', net) /\ table' \in [TableEntries -> ChallengeEntry]
  <2>1. CASE slot.state = "connected" /\ p.challenge = slot.challenge
    <3>1. Drops([Zombie EXCEPT !.silent = 0, !.heard = TRUE])
        BY <2>1 DEF Goodbye
    <3>2. slot' = [slot EXCEPT !.state = "zombie", !.silent = 0, !.heard = TRUE]
        BY <3>1, FoundTyped DEF Drops, Zombie, SlotRecords
    <3>3. slot \in SlotRecords /\ 0 \in 0..Timeout
        BY FoundTyped, TimesAreNumbers
    <3>4. slot.silent >= 0
        BY <3>3, TimesAreNumbers DEF SlotRecords
    <3>5. /\ slot' \in SlotRecords /\ slot'.state = "zombie" /\ slot'.challenge = slot.challenge
          /\ slot'.sinceConnect = slot.sinceConnect /\ slot'.silent = 0
        BY <3>2, <3>3 DEF SlotRecords
    <3>6. WasUsed(client, slot, net, slot.challenge)
        BY <2>1 DEF Goodbye, WasUsed, Has
    <3>7. Kept(client, slot', net)
        BY <2>1, <3>4, <3>5, <3>6, SlotStays DEF ConnInd, Kept
    <3> QED
        BY <3>1, <3>7, DropsTyped DEF ConnInd
  <2>2. CASE ~(slot.state = "connected" /\ p.challenge = slot.challenge)
      BY <2>2, FoundTyped DEF Goodbye, ConnInd
  <2> QED
      BY <2>1, <2>2
<1>2. client' = client /\ Received(p, {})
    BY DEF Goodbye
<1>3. Kept(client, slot', net')
    BY <1>1, <1>2, ReceivedOnly
<1> QED
    BY <1>1, <1>2, <1>3 DEF ConnInd, Kept

LEMMA KickedStep ==
  ASSUME ConnInd, Kicked
  PROVE  ConnInd'
<1>1. slot.state = "connected" /\ slot' = [slot EXCEPT !.state = "zombie"] /\ Drops(Zombie)
    BY DEF Kicked, Drops, Zombie
<1>2. slot \in SlotRecords
    BY FoundTyped
<1>3. /\ slot' \in SlotRecords /\ slot'.state = "zombie" /\ slot'.challenge = slot.challenge
      /\ slot'.sinceConnect = slot.sinceConnect /\ slot'.silent = slot.silent /\ slot'.heard = slot.heard
    BY <1>1, <1>2 DEF SlotRecords
<1>4. slot'.silent <= slot.silent
    BY <1>2, <1>3, TimesAreNumbers DEF SlotRecords
<1>5. Kept(client, slot', net)
    BY <1>1, <1>3, <1>4, SlotStays DEF ConnInd, Kept
<1>6. table' \in [TableEntries -> ChallengeEntry]
    BY <1>1, DropsTyped DEF ConnInd
<1> QED
    BY <1>5, <1>6 DEF ConnInd, Kept, Kicked

LEMMA TimesOutStep ==
  ASSUME PacketsExpire, ConnInd, TimesOut
  PROVE  ConnInd'
<1>1. slot.silent = Timeout /\ Drops(FreedSlot(slot)) /\ client' = client /\ net' = net
    BY DEF TimesOut
<1>2. slot' = [slot EXCEPT !.state = "free", !.sinceConnect = ReconnectLimit, !.silent = Timeout]
    BY <1>1 DEF Drops, FreedSlot
<1>3. slot \in SlotRecords /\ Timeout \in 0..Timeout /\ ReconnectLimit \in 0..ReconnectLimit
    BY FoundTyped, TimesAreNumbers
<1>4. /\ slot' \in SlotRecords /\ slot'.state = "free" /\ slot'.sinceConnect = ReconnectLimit
      /\ slot'.challenge = slot.challenge /\ slot'.heard = slot.heard
    BY <1>2, <1>3 DEF SlotRecords
<1>5. slot.silent > 2 * Lifetime
    BY <1>1, TimesAreNumbers DEF PacketsExpire
<1>6. \A age \in 0..(2 * Lifetime) : ~TakenWithin(slot, age)
    BY <1>5, SilentIsNotTaken DEF ConnInd
<1>7. Kept(client, slot', net)
    BY <1>4, <1>6, SlotFreed DEF ConnInd, Kept
<1>8. table' \in [TableEntries -> ChallengeEntry]
    BY <1>1, DropsTyped DEF ConnInd
<1> QED
    BY <1>1, <1>7, <1>8 DEF ConnInd, Kept

LEMMA SequencedPacketStep ==
  ASSUME ConnInd, SequencedPacket
  PROVE  ConnInd'
<1>1. /\ client.state = "connected" /\ slot.state = "connected" /\ client.challenge = slot.challenge
      /\ slot' = [slot EXCEPT !.silent = 0, !.heard = TRUE]
    BY DEF SequencedPacket
<1>2. slot \in SlotRecords /\ 0 \in 0..Timeout
    BY FoundTyped, TimesAreNumbers
<1>3. slot.silent >= 0
    BY <1>2, TimesAreNumbers DEF SlotRecords
<1>4. /\ slot' \in SlotRecords /\ slot'.state = "connected" /\ slot'.challenge = slot.challenge
      /\ slot'.sinceConnect = slot.sinceConnect /\ slot'.silent = 0
    BY <1>1, <1>2 DEF SlotRecords
<1>5. WasUsed(client, slot, net, slot.challenge)
    BY <1>1 DEF WasUsed
<1>6. Kept(client, slot', net)
    BY <1>1, <1>3, <1>4, <1>5, SlotStays DEF ConnInd, Kept
<1> QED
    BY <1>6 DEF ConnInd, Kept, SequencedPacket

LEMMA CappedTyped ==
  ASSUME NEW cap \in Nat, NEW k \in 0..cap
  PROVE  /\ Capped(k, cap) \in 0..cap
         /\ Capped(k, cap) <= k + 1
         /\ Capped(k, cap) < cap => k < cap /\ Capped(k, cap) = k + 1
BY DEF Capped

(* A zombie that is given up has been one for longer than packets live. *)
LEMMA SlotAgesTo ==
  ASSUME PacketsExpire, ConnInd, SecondPasses
  PROVE  /\ slot' \in SlotRecords /\ slot'.state \in {slot.state, "free"}
         /\ slot'.challenge = slot.challenge /\ slot'.heard = slot.heard
         /\ SilentSince(slot')
         /\ \A age \in 0..(2 * Lifetime) : TakenWithin(slot, age - 1) => TakenWithin(slot', age)
<1>1. /\ slot \in SlotRecords /\ slot.sinceConnect \in 0..ReconnectLimit /\ slot.silent \in 0..Timeout
      /\ slot.sinceConnect < ReconnectLimit => slot.silent <= slot.sinceConnect
    BY FoundTyped DEF SlotRecords, ConnInd, ConnKept, SilentSince
<1>2. CASE ZombieOver
  <2>1. slot' = [slot EXCEPT !.state = "free", !.sinceConnect = ReconnectLimit, !.silent = Timeout]
      BY <1>2 DEF SecondPasses, FreedSlot
  <2>2. Timeout \in 0..Timeout /\ ReconnectLimit \in 0..ReconnectLimit
      BY TimesAreNumbers
  <2>3. /\ slot' \in SlotRecords /\ slot'.state = "free" /\ slot'.sinceConnect = ReconnectLimit
        /\ slot'.challenge = slot.challenge /\ slot'.heard = slot.heard
      BY <1>1, <2>1, <2>2 DEF SlotRecords
  <2>4. SilentSince(slot')
      BY <2>3, TimesAreNumbers DEF SilentSince
  <2>5. slot.silent > ZombieTime
      BY <1>2 DEF ZombieOver
  <2>6. \A age \in 0..(2 * Lifetime) : ~TakenWithin(slot, age - 1)
      BY <1>1, <2>5, TimesAreNumbers DEF TakenWithin, PacketsExpire
  <2> QED
      BY <2>3, <2>4, <2>6
<1>3. CASE ~ZombieOver
  <2> DEFINE since == Capped(slot.sinceConnect, ReconnectLimit)
             silent == Capped(slot.silent, Timeout)
  <2>1. slot' = [slot EXCEPT !.sinceConnect = since, !.silent = silent]
      BY <1>3 DEF SecondPasses
  <2>2. /\ since \in 0..ReconnectLimit /\ since <= slot.sinceConnect + 1
        /\ since < ReconnectLimit => slot.sinceConnect < ReconnectLimit /\ since = slot.sinceConnect + 1
      BY <1>1, TimesAreNumbers, CappedTyped
  <2>3. silent \in 0..Timeout /\ silent <= slot.silent + 1
      BY <1>1, TimesAreNumbers, CappedTyped
  <2> HIDE DEF since, silent
  <2>4. /\ slot' \in SlotRecords /\ slot'.state = slot.state /\ slot'.sinceConnect = since
        /\ slot'.silent = silent /\ slot'.challenge = slot.challenge /\ slot'.heard = slot.heard
      BY <1>1, <2>1, <2>2, <2>3 DEF SlotRecords
  <2>5. SilentSince(slot')
      BY <1>1, <2>2, <2>3, <2>4, TimesAreNumbers DEF SilentSince
  <2>6. \A age \in 0..(2 * Lifetime) : TakenWithin(slot, age - 1) => TakenWithin(slot', age)
      BY <1>1, <2>2, <2>4, TimesAreNumbers DEF TakenWithin
  <2> QED
      BY <2>4, <2>5, <2>6
<1> QED
    BY <1>2, <1>3

LEMMA SecondPassesStep ==
  ASSUME PacketsExpire, ConnInd, SecondPasses
  PROVE  ConnInd'
<1>1. table' = table
    BY DEF SecondPasses
<1>2. client' \in ClientRecords /\ client'.state = client.state /\ client'.challenge = client.challenge
  <2>1. client \in ClientRecords /\ client.sinceSent \in 0..Retransmit
      BY FoundTyped DEF ClientRecords
  <2>2. Capped(client.sinceSent, Retransmit) \in 0..Retransmit
      BY <2>1, CappedTyped, TimesAreNumbers
  <2>3. PICK k \in 0..Retransmit : client' = [client EXCEPT !.sinceSent = k]
      BY <2>1, <2>2 DEF SecondPasses
  <2> QED
      BY <2>1, <2>3 DEF ClientRecords
<1>3. /\ net' \in SUBSET ConnPackets
      /\ \A q \in net' : \E p \in net : /\ p.kind = q.kind /\ p.challenge = q.challenge /\ p.number = q.number
                                        /\ p.left = q.left + 1
  <2> SUFFICES ASSUME NEW q \in net'
               PROVE  /\ q \in ConnPackets
                      /\ \E p \in net : /\ p.kind = q.kind /\ p.challenge = q.challenge /\ p.number = q.number
                                        /\ p.left = q.left + 1
      OBVIOUS
  <2>1. PICK p \in net : p.left > 0 /\ q = [p EXCEPT !.left = @ - 1]
      BY DEF SecondPasses
  <2>2. p \in ConnPackets /\ p.left \in 0..Lifetime
      BY FoundTyped DEF ConnPackets
  <2>3. p.left - 1 \in 0..Lifetime /\ p.left = (p.left - 1) + 1
      BY <2>1, <2>2, TimesAreNumbers
  <2>4. /\ q \in ConnPackets /\ q.kind = p.kind /\ q.challenge = p.challenge /\ q.number = p.number
        /\ q.left = p.left - 1
      BY <2>1, <2>2, <2>3 DEF ConnPackets
  <2> QED
      BY <2>3, <2>4
<1>4. Kept(client, slot', net')
    BY <1>3, SlotAgesTo, SecondLater DEF ConnInd, Kept
<1>5. Kept(client', slot', net')
    BY <1>2, <1>4, ClientSame DEF Kept
<1> QED
    BY <1>1, <1>5 DEF ConnInd, Kept

LEMMA ConnStep ==
  ASSUME PacketsExpire, ConnInd, [ConnNext]_connVars
  PROVE  ConnInd'
<1>1. CASE \E p \in net : Receives(p)
  <2>1. PICK p \in net : Receives(p)
      BY <1>1
  <2> QED
      BY <2>1, GetChallengeStep, DirectConnectStep, GoodbyeStep, ChallengeResponseStep, ConnectResponseStep,
         PrintedStep DEF Receives
<1>2. CASE UNCHANGED connVars
    BY <1>2 DEF connVars, ConnInd
<1> QED
    BY <1>1, <1>2, ClientConnectsStep, ClientResendsStep, ClientDisconnectsStep, OtherAsksStep, KickedStep,
       TimesOutStep, SequencedPacketStep, SecondPassesStep DEF ConnNext

(* The invariant gives what is to be shown of a state. *)
LEMMA ConnIndMeans == ConnInd => ConnInv
<1> SUFFICES ASSUME ConnInd PROVE ConnInv
    OBVIOUS
<1>1. ConnTypeOK
  <2>1. client \in ClientRecords /\ slot \in SlotRecords /\ \A p \in net : p \in ConnPackets
      BY FoundTyped
  <2>2. \A p \in net : p.kind \in PacketKinds /\ p.left \in 0..Lifetime
      BY <2>1 DEF ConnPackets
  <2>3. /\ client.state \in {"disconnected", "connecting", "challenging", "connected"}
        /\ client.challenge \in Challenges \cup ClientNumbers \cup {Nothing} /\ client.sinceSent \in 0..Retransmit
      BY <2>1 DEF ClientRecords, Names
  <2>4. /\ slot.state \in {"free", "connected", "zombie"} /\ slot.challenge \in Challenges \cup {Nothing}
        /\ slot.sinceConnect \in 0..ReconnectLimit /\ slot.silent \in 0..Timeout /\ slot.heard \in BOOLEAN
      BY <2>1 DEF SlotRecords
  <2> QED
      BY <2>2, <2>3, <2>4 DEF ConnTypeOK, ConnInd
<1>2. SameConnection(client, slot, net)
    BY DEF ConnInd, ConnKept
<1> QED
    BY <1>1, <1>2 DEF ConnInv, SameConnection, IsAccepted

(* Client and server mean the same connection, however packets are lost,   *)
(* delayed, repeated and reordered, so long as none of them is on its way  *)
(* for long (ConnInv). *)
THEOREM ConnectionsAgree ==
  ASSUME PacketsExpire
  PROVE  ConnSpec => []ConnInv
<1>1. ConnInd /\ [ConnNext]_connVars => ConnInd'
    BY ConnStep
<1> QED
    BY <1>1, ConnInitInd, ConnIndMeans, PTL DEF ConnSpec

(* Only "connect" begins a session, and the one it begins is new. *)
LEMMA SessionIsNew ==
  ASSUME PacketsExpire, ConnInd, [ConnNext]_connVars, NewSession
  PROVE  client.state # "connected" /\ (slot.heard => slot'.challenge # slot.challenge)
<1>1. slot \in SlotRecords
    BY FoundTyped
<1>2. slot'.state = "connected" /\ slot'.sinceConnect = 0 /\ (slot.sinceConnect # 0 \/ slot.state # "connected")
    BY DEF NewSession
<1>3. slot' # slot
    BY <1>2
<1>4. \A s : Drops(s) => slot' = s
    BY DEF Drops
<1>5. ~Kicked /\ ~TimesOut
  <2>1. Zombie.state = "zombie"
      BY <1>1 DEF Zombie, SlotRecords
  <2>2. FreedSlot(slot).state = "free"
      BY <1>1 DEF FreedSlot, SlotRecords
  <2> QED
      BY <1>2, <1>4, <2>1, <2>2 DEF Kicked, TimesOut
<1>6. ~SequencedPacket
  <2> SUFFICES ASSUME SequencedPacket PROVE FALSE
      OBVIOUS
  <2>1. slot.state = "connected" /\ slot' = [slot EXCEPT !.silent = 0, !.heard = TRUE]
      BY DEF SequencedPacket
  <2>2. slot'.sinceConnect = slot.sinceConnect
      BY <1>1, <2>1 DEF SlotRecords
  <2> QED
      BY <1>2, <2>1, <2>2
<1>7. ~SecondPasses
  <2> SUFFICES ASSUME SecondPasses PROVE FALSE
      OBVIOUS
  <2>1. CASE ZombieOver
    <3>1. FreedSlot(slot).state = "free"
        BY <1>1 DEF FreedSlot, SlotRecords
    <3> QED
        BY <1>2, <2>1, <3>1 DEF SecondPasses
  <2>2. CASE ~ZombieOver
    <3> DEFINE since == Capped(slot.sinceConnect, ReconnectLimit)
    <3>1. slot' = [slot EXCEPT !.sinceConnect = since, !.silent = Capped(@, Timeout)]
        BY <2>2 DEF SecondPasses
    <3>2. slot.sinceConnect \in 0..ReconnectLimit
        BY <1>1 DEF SlotRecords
    <3>3. since = 0 => slot.sinceConnect = 0
        BY <3>2, TimesAreNumbers DEF Capped
    <3> HIDE DEF since
    <3>4. slot'.sinceConnect = since /\ slot'.state = slot.state
        BY <1>1, <3>1 DEF SlotRecords
    <3> QED
        BY <1>2, <3>3, <3>4
  <2> QED
      BY <2>1, <2>2
<1>8. PICK p \in net : Receives(p)
    BY <1>3, <1>5, <1>6, <1>7 DEF ConnNext, connVars, CL_Connect_f, CL_CheckForResend, CL_Disconnect, OtherAsks
<1>9. ~Goodbye(p)
  <2>1. [Zombie EXCEPT !.silent = 0, !.heard = TRUE].state = "zombie"
      BY <1>1 DEF Zombie, SlotRecords
  <2> QED
      BY <1>2, <1>3, <1>4, <2>1 DEF Goodbye
<1>10. p.kind = "connect" /\ (Denied(p) \/ Accepts(p))
    BY <1>3, <1>8, <1>9 DEF Receives, SV_GetChallenge, ChallengeResponse, ConnectResponse, Printed, SV_DirectConnect,
       RejectsSoon, RejectsChallenge, Full
<1>11. Accepts(p)
  <2>1. FreedSlot(NewClient(p.challenge)).state = "free"
      BY DEF FreedSlot, NewClient
  <2> QED
      BY <1>2, <1>10, <2>1 DEF Denied
<1>12. client.state # "connected" /\ ~WasUsed(client, slot, net, p.challenge)
    BY <1>10, <1>11, AcceptsKept
<1>13. slot'.challenge = p.challenge
    BY <1>11 DEF Accepts, NewClient
<1> QED
    BY <1>12, <1>13 DEF WasUsed

(* A "connect" that comes late or again begins no session anew: neither    *)
(* one in use nor one that was used and dropped (BegunOnce). *)
THEOREM SessionsBeginOnce ==
  ASSUME PacketsExpire
  PROVE  ConnSpec => BegunOnce
<1>1. ConnInd /\ [ConnNext]_connVars => ConnInd'
    BY ConnStep
<1>2. ConnInd /\ [ConnNext]_connVars =>
        [NewSession => client.state # "connected" /\ (slot.heard => slot'.challenge # slot.challenge)]_connVars
    BY SessionIsNew
<1> QED
    BY <1>1, <1>2, ConnInitInd, PTL DEF ConnSpec, BegunOnce

==============================================================================
