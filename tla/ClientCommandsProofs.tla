------------------------- MODULE ClientCommandsProofs -------------------------
(***************************************************************************)
(* Proofs about ClientCommands, for every size of the ring and of a        *)
(* packet, every cl_packetdup and any number of commands, usercmds and     *)
(* packets on the way.                                                     *)
(*                                                                         *)
(* The inductive invariant (Inv) says what a packet on its way holds, and  *)
(* how far back the usercmds of one reach: to those of each packet sent no *)
(* more than cl_packetdup + 1 before it (Follows), and so, as long as no   *)
(* more than cl_packetdup are lost in a row, to those executed (Reaches).  *)
(***************************************************************************)
EXTENDS ClientCommands, Remainders, SequenceTheorems

LEMMA SizeIsPositive == N \in Nat \ {0}
BY BoundsAssumption DEF N

LEMMA SlotInRing ==
  ASSUME NEW i \in Nat
  PROVE  Slot(i) \in Slots
BY SizeIsPositive, RemainderInRange DEF Slot, Slots

LEMMA SlotsDiffer ==
  ASSUME NEW i \in Nat, NEW j \in Nat, i < j, j - i < N
  PROVE  Slot(i) # Slot(j)
<1>1. i \in Int /\ j \in Int
    OBVIOUS
<1>2. i % N # j % N
    BY <1>1, SizeIsPositive, RemaindersDiffer, Zenon
<1> QED
    BY <1>2 DEF Slot

-----------------------------------------------------------------------------
(* The parts of the invariant.                                             *)

Dup == cl_packetdup + 1
Broken == reliableSequence - reliableAcknowledge > N

Ends ==
    /\ connected <=> farewell = 0
    /\ farewell # 0 => farewell = reliableSequence
    /\ connected => reliableSequence - reliableAcknowledge <= N

AcksInOrder ==
    /\ \A k \in 1..Len(toClient) :
          reliableAcknowledge <= toClient[k] /\ toClient[k] <= lastClientCommand
    /\ \A j, k \in 1..Len(toClient) : j < k => toClient[j] <= toClient[k]

(* A packet holds the commands it claims to, from early enough on, and its *)
(* usercmds are no newer than its commands.                                *)
Truthful(p) ==
    /\ p.first <= lastClientCommand + 1 /\ p.last <= reliableSequence
    /\ ~Broken => \A i \in p.first..p.last : Text(p, i) = i
    /\ p.from \in 1..(p.to + 1) /\ p.to <= cmdNumber
    /\ \A j \in 1..p.to : stamps[j] <= p.last
AllTruthful(q) == \A k \in 1..Len(q) : Truthful(q[k])
PacketsTruthful == AllTruthful(toServer)

ExecutedInOrder ==
    /\ Len(executed) = lastClientCommand
    /\ ~Broken => \A k \in 1..lastClientCommand : executed[k] = k

Created ==
    /\ \A j \in 1..cmdNumber : stamps[j] <= reliableSequence
    /\ \A i \in 1..Dup : outPackets[i] <= cmdNumber

Thought ==
    /\ lastUsercmd <= cmdNumber
    /\ state = "CS_PRIMED" => thought = <<>>
    /\ \A k \in 1..Len(thought) : thought[k] \in 1..lastUsercmd
    /\ state = "CS_ACTIVE" /\ ~missing => lastUsercmd = begun + Len(thought)

(* Of packets q, what was sent before them being out.                      *)
Follows(q, out) ==
    /\ \A j, k \in 1..Len(q) : j < k /\ k - j <= Dup /\ q[k].whole => q[k].from <= q[j].to + 1
    /\ \A i, j \in 1..Dup : i <= j => out[i] <= out[j]
    /\ \A i \in 1..Dup, j \in 1..Len(q) : j = Len(q) - Dup + i => out[i] <= q[j].to
Reaches(q, out, lost, last) ==
    /\ \A k \in 1..Len(q) : lost + k <= Dup /\ q[k].whole => q[k].from <= last + 1
    /\ \A i \in 1..Dup : lost + Len(q) - Dup + i <= 0 => out[i] <= last
InReach == state = "CS_ACTIVE" /\ ~missing => Reaches(toServer, outPackets, lostInRow, lastUsercmd)

Inv == /\ IInv /\ Ends /\ AcksInOrder /\ PacketsTruthful /\ ExecutedInOrder /\ Created
       /\ Thought /\ CommandsBeforeUsercmds /\ UsercmdsSurvive
       /\ Follows(toServer, outPackets) /\ InReach

LEMMA DupIsPositive == Dup \in Nat \ {0} /\ cl_packetdup \in Nat
BY BoundsAssumption DEF Dup

(* Arithmetic, of numbers that are fields of records where it is used.     *)
LEMMA NoLaterThan ==
  ASSUME NEW a \in Nat, NEW b \in Nat, NEW c \in Nat, a <= b + 1, b <= c
  PROVE  a <= c + 1
OBVIOUS

LEMMA AtMost ==
  ASSUME NEW a \in Nat, NEW b \in Nat, NEW c \in Nat, a <= b, b <= c
  PROVE  a <= c
OBVIOUS

LEMMA FirstOfPacket ==
  ASSUME NEW newest \in Nat, NEW sent \in Nat, sent <= newest, NEW fit \in Nat,
         NEW count, count = IF newest - sent < fit THEN newest - sent ELSE fit,
         NEW from, from = newest - count + 1
  PROVE  from \in 1..(newest + 1) /\ (newest - sent <= fit => from <= sent + 1)
OBVIOUS

-----------------------------------------------------------------------------
(* A packet is sent.                                                       *)

LEMMA PacketFields ==
  ASSUME reliableAcknowledge \in Nat, cmdNumber \in Nat,
         NEW sent \in Seq(Nat), Len(sent) = Dup, sent[1] <= cmdNumber,
         NEW last \in Nat, NEW text \in [Slots -> Nat],
         NEW p, p = Packet(sent, last, text)
  PROVE  /\ p \in Packets
         /\ p.first = reliableAcknowledge + 1 /\ p.last = last /\ p.commands = text
         /\ p.from \in 1..(p.to + 1) /\ p.to = cmdNumber
         /\ p.whole => p.from <= sent[1] + 1
<1> DEFINE new == cmdNumber - FirstUsercmd(sent) + 1
           count == MinOf(new, MAX_PACKET_USERCMDS)
<1>1. FirstUsercmd(sent) = sent[1] + 1 /\ sent[1] \in Nat
  <2>1. 1 \in 1..Len(sent) /\ sent # <<>>
      BY DupIsPositive
  <2>2. Head(sent) = sent[1] /\ sent[1] \in Nat
      BY <2>1
  <2> QED
      BY <2>2 DEF FirstUsercmd
<1>2. new = cmdNumber - sent[1]
    BY <1>1
<1>3. /\ MAX_PACKET_USERCMDS \in Nat
      /\ count = IF cmdNumber - sent[1] < MAX_PACKET_USERCMDS THEN cmdNumber - sent[1]
                 ELSE MAX_PACKET_USERCMDS
    BY <1>2, BoundsAssumption DEF MinOf
<1>4. /\ p.first = reliableAcknowledge + 1 /\ p.last = last /\ p.commands = text
      /\ p.from = cmdNumber - count + 1 /\ p.to = cmdNumber
      /\ p.whole = (new <= MAX_PACKET_USERCMDS)
      /\ p = [first |-> p.first, last |-> p.last, commands |-> p.commands, from |-> p.from,
              to |-> p.to, whole |-> p.whole]
    BY DEF Packet, FirstCommand, LastCommand
<1> HIDE DEF new, count
<1>5. p.from \in 1..(cmdNumber + 1) /\ (p.whole => p.from <= sent[1] + 1)
  <2> DEFINE from == p.from
             oldest == sent[1]
             fit == MAX_PACKET_USERCMDS
  <2>1. /\ oldest \in Nat /\ oldest <= cmdNumber /\ fit \in Nat
        /\ from = cmdNumber - count + 1
        /\ count = IF cmdNumber - oldest < fit THEN cmdNumber - oldest ELSE fit
      BY <1>1, <1>3, <1>4
  <2>2. p.whole => cmdNumber - oldest <= fit
      BY <1>2, <1>4
  <2> HIDE DEF from, oldest, fit
  <2>3. from \in 1..(cmdNumber + 1) /\ (cmdNumber - oldest <= fit => from <= oldest + 1)
      BY <2>1, FirstOfPacket
  <2> QED
      BY <2>2, <2>3 DEF from, oldest
<1>6. /\ p.first \in Nat /\ p.last \in Nat /\ p.commands \in [Slots -> Nat]
      /\ p.from \in Nat /\ p.to \in Nat /\ p.whole \in BOOLEAN
    BY <1>4, <1>5
<1>7. p \in Packets
    BY <1>4, <1>6 DEF Packets
<1> QED
    BY <1>4, <1>5, <1>7

LEMMA SentSequence ==
  ASSUME NEW out \in Seq(Nat), Len(out) = Dup, NEW c \in Nat, NEW new, new = Append(Tail(out), c)
  PROVE  /\ new \in Seq(Nat) /\ Len(new) = Dup /\ new[Dup] = c
         /\ \A i \in 1..Dup : i < Dup => new[i] = out[i + 1]
<1>1. Tail(out) \in Seq(Nat) /\ Len(Tail(out)) = Dup - 1
    BY DupIsPositive
<1>2. \A i \in 1..(Dup - 1) : Tail(out)[i] = out[i + 1]
    BY DupIsPositive
<1> QED
    BY <1>1, <1>2, DupIsPositive

(* Packets q, and outPackets after them.                                   *)
Sent(q, out) ==
    /\ q \in Seq(Packets) /\ out \in Seq(Nat) /\ Len(out) = Dup
    /\ \A i \in 1..Dup : out[i] <= cmdNumber
    /\ Follows(q, out)

LEMMA SendKeeps ==
  ASSUME cmdNumber \in Nat, NEW q, NEW out, Sent(q, out),
         NEW p \in Packets, p.to = cmdNumber, p.whole => p.from <= out[1] + 1,
         NEW r, r = Append(q, p), NEW new, new = SentAfter(out)
  PROVE  /\ Sent(r, new)
         /\ \A lost \in Nat, last \in Nat : Reaches(q, out, lost, last) => Reaches(r, new, lost, last)
<1> DEFINE c == cmdNumber
<1>0. /\ q \in Seq(Packets) /\ out \in Seq(Nat) /\ Len(out) = Dup /\ c \in Nat
      /\ \A i \in 1..Dup : out[i] <= c
      /\ Follows(q, out) /\ p.to = c /\ new = Append(Tail(out), c)
    BY DEF Sent, SentAfter
<1> HIDE DEF c
<1>1. /\ new \in Seq(Nat) /\ Len(new) = Dup /\ new[Dup] = c
      /\ \A i \in 1..Dup : i < Dup => new[i] = out[i + 1]
    BY <1>0, SentSequence
<1>2. /\ r \in Seq(Packets) /\ Len(r) = Len(q) + 1 /\ r[Len(q) + 1] = p
      /\ \A k \in 1..Len(q) : r[k] = q[k]
      /\ Len(q) \in Nat
    BY <1>0, AppendProperties, LenProperties
<1>3. \A i \in 1..Dup : out[i] \in Nat /\ new[i] \in Nat
    BY <1>0, <1>1
<1>4. \A k \in 1..Len(q) : q[k].to \in Nat /\ q[k].from \in Nat
  <2> SUFFICES ASSUME NEW k \in 1..Len(q) PROVE q[k].to \in Nat /\ q[k].from \in Nat
      OBVIOUS
  <2>1. q[k] \in Packets
      BY <1>0
  <2> QED
      BY <2>1 DEF Packets
<1>5. p.from \in Nat /\ p.to \in Nat
    BY DEF Packets
<1>6. \A i \in 1..Dup : new[i] <= c
  <2> SUFFICES ASSUME NEW i \in 1..Dup PROVE new[i] <= c
      OBVIOUS
  <2>1. CASE i = Dup
      BY <1>0, <1>1, <2>1
  <2>2. CASE i < Dup
    <3>1. i + 1 \in 1..Dup
        BY <2>2, DupIsPositive
    <3> QED
        BY <1>0, <1>1, <2>2, <3>1
  <2> QED
      BY <2>1, <2>2, DupIsPositive
<1>7. ASSUME NEW j \in 1..Len(r), NEW k \in 1..Len(r), j < k, k - j <= Dup, r[k].whole
      PROVE  r[k].from <= r[j].to + 1
  <2>1. CASE k \in 1..Len(q)
    <3>1. j \in 1..Len(q)
        BY <1>2, <1>7, <2>1
    <3> QED
        BY <1>0, <1>2, <1>7, <2>1, <3>1 DEF Follows
  <2>2. CASE k = Len(q) + 1
    <3> DEFINE i == j - Len(q) + Dup
    <3>1. j \in 1..Len(q) /\ i \in 1..Dup /\ j = Len(q) - Dup + i /\ 1 \in 1..Dup
        BY <1>2, <1>7, <2>2, DupIsPositive
    <3>2. out[i] <= q[j].to /\ out[1] <= out[i]
        BY <1>0, <3>1 DEF Follows
    <3> HIDE DEF i
    <3>3. p.from <= out[1] + 1
        BY <1>2, <1>7, <2>2
    <3> QED
      <4>1. out[1] <= q[j].to
          BY <1>3, <1>4, <3>1, <3>2
      <4>2. p.from <= q[j].to + 1
          BY <1>3, <1>4, <1>5, <3>1, <3>3, <4>1, NoLaterThan
      <4>3. r[k] = p /\ r[j] = q[j]
          BY <1>2, <2>2, <3>1
      <4> QED
          BY <4>2, <4>3
  <2> QED
      BY <1>2, <2>1, <2>2
<1>8. ASSUME NEW i \in 1..Dup, NEW j \in 1..Dup, i <= j PROVE new[i] <= new[j]
  <2>1. CASE j = Dup
      BY <1>0, <1>1, <1>6, <2>1
  <2>2. CASE j < Dup
    <3>1. i + 1 \in 1..Dup /\ j + 1 \in 1..Dup /\ i + 1 <= j + 1 /\ i < Dup
        BY <1>8, <2>2, DupIsPositive
    <3>2. out[i + 1] <= out[j + 1]
        BY <1>0, <3>1 DEF Follows
    <3> QED
        BY <1>0, <1>1, <2>2, <3>1, <3>2
  <2> QED
      BY <2>1, <2>2, DupIsPositive
<1>9. ASSUME NEW i \in 1..Dup, NEW j \in 1..Len(r), j = Len(r) - Dup + i PROVE new[i] <= r[j].to
  <2>1. CASE i = Dup
      BY <1>0, <1>1, <1>2, <1>9, <2>1, DupIsPositive
  <2>2. CASE i < Dup
    <3>1. i + 1 \in 1..Dup /\ j \in 1..Len(q) /\ j = Len(q) - Dup + (i + 1)
        BY <1>2, <1>9, <2>2, DupIsPositive
    <3>2. out[i + 1] <= q[j].to
        BY <1>0, <3>1 DEF Follows
    <3> QED
        BY <1>0, <1>1, <1>2, <2>2, <3>1, <3>2
  <2> QED
      BY <2>1, <2>2, DupIsPositive
<1>10. Follows(r, new)
    BY <1>7, <1>8, <1>9 DEF Follows
<1>11. ASSUME NEW lost \in Nat, NEW last \in Nat, Reaches(q, out, lost, last)
       PROVE  Reaches(r, new, lost, last)
  <2>1. ASSUME NEW k \in 1..Len(r), lost + k <= Dup, r[k].whole PROVE r[k].from <= last + 1
    <3>1. CASE k \in 1..Len(q)
        BY <1>2, <1>11, <2>1, <3>1 DEF Reaches
    <3>2. CASE k = Len(q) + 1
      <4>1. 1 \in 1..Dup /\ lost + Len(q) - Dup + 1 <= 0
          BY <1>2, <2>1, <3>2, DupIsPositive
      <4>2. out[1] <= last
          BY <1>11, <4>1 DEF Reaches
      <4> QED
        <5>1. r[k] = p /\ p.from <= out[1] + 1
            BY <1>2, <2>1, <3>2
        <5>2. p.from <= last + 1
            BY <1>3, <1>5, <4>1, <4>2, <5>1, NoLaterThan
        <5> QED
            BY <5>1, <5>2
    <3> QED
        BY <1>2, <3>1, <3>2
  <2>2. ASSUME NEW i \in 1..Dup, lost + Len(r) - Dup + i <= 0 PROVE new[i] <= last
    <3>1. i < Dup /\ i + 1 \in 1..Dup /\ lost + Len(q) - Dup + (i + 1) <= 0
        BY <1>2, <2>2, DupIsPositive
    <3>2. out[i + 1] <= last
        BY <1>11, <3>1 DEF Reaches
    <3> QED
        BY <1>0, <1>1, <3>1, <3>2
  <2> QED
      BY <2>1, <2>2 DEF Reaches
<1> QED
    BY <1>0, <1>1, <1>2, <1>6, <1>10, <1>11 DEF Sent, c

(* The next packet arrives, or is lost.                                    *)
LEMMA ReceiveKeeps ==
  ASSUME NEW q \in Seq(Packets), q # <<>>, NEW out \in Seq(Nat), Len(out) = Dup,
         Follows(q, out), NEW r, r = Tail(q)
  PROVE  /\ r \in Seq(Packets) /\ Len(r) = Len(q) - 1
         /\ \A k \in 1..Len(r) : k + 1 \in 1..Len(q) /\ r[k] = q[k + 1]
         /\ Follows(r, out)
         /\ \A last \in Nat : q[1].to <= last => Reaches(r, out, 0, last)
         /\ \A lost \in Nat, last \in Nat :
               Reaches(q, out, lost, last) => Reaches(r, out, MinOf(lost + 1, Dup), last)
<1>1. /\ r \in Seq(Packets) /\ Len(r) = Len(q) - 1 /\ Len(q) \in Nat \ {0}
      /\ \A k \in 1..Len(r) : k + 1 \in 1..Len(q) /\ r[k] = q[k + 1]
  <2>1. Len(q) \in Nat \ {0}
      BY LenProperties
  <2> QED
      BY <2>1, HeadTailProperties
<1>2. /\ \A k \in 1..Len(q) : q[k].to \in Nat /\ q[k].from \in Nat
      /\ \A i \in 1..Dup : out[i] \in Nat
  <2>1. ASSUME NEW k \in 1..Len(q) PROVE q[k].to \in Nat /\ q[k].from \in Nat
    <3>1. q[k] \in Packets
        OBVIOUS
    <3> QED
        BY <3>1 DEF Packets
  <2> QED
      BY <2>1
<1>3. ASSUME NEW j \in 1..Len(r), NEW k \in 1..Len(r), j < k, k - j <= Dup, r[k].whole
      PROVE  r[k].from <= r[j].to + 1
  <2>1. /\ j + 1 \in 1..Len(q) /\ k + 1 \in 1..Len(q) /\ j + 1 < k + 1
        /\ (k + 1) - (j + 1) <= Dup
      BY <1>1, <1>3, DupIsPositive
  <2>2. q[k + 1].from <= q[j + 1].to + 1
      BY <1>1, <1>3, <2>1 DEF Follows
  <2> QED
      BY <1>1, <2>2
<1>4. ASSUME NEW i \in 1..Dup, NEW j \in 1..Len(r), j = Len(r) - Dup + i PROVE out[i] <= r[j].to
  <2>1. j + 1 \in 1..Len(q) /\ j + 1 = Len(q) - Dup + i
      BY <1>1, <1>4, DupIsPositive
  <2>2. out[i] <= q[j + 1].to
      BY <2>1 DEF Follows
  <2> QED
      BY <1>1, <2>2
<1>5. Follows(r, out)
    BY <1>3, <1>4 DEF Follows
<1>6. ASSUME NEW last \in Nat, q[1].to <= last PROVE Reaches(r, out, 0, last)
  <2>1. ASSUME NEW k \in 1..Len(r), 0 + k <= Dup, r[k].whole PROVE r[k].from <= last + 1
    <3>1. 1 \in 1..Len(q) /\ k + 1 \in 1..Len(q) /\ 1 < k + 1 /\ (k + 1) - 1 <= Dup
        BY <1>1, <2>1
    <3>2. q[k + 1].from <= q[1].to + 1
        BY <1>1, <2>1, <3>1 DEF Follows
    <3>3. q[k + 1].from <= last + 1
        BY <1>2, <1>6, <3>1, <3>2, NoLaterThan
    <3> QED
        BY <1>1, <3>3
  <2>2. ASSUME NEW i \in 1..Dup, 0 + Len(r) - Dup + i <= 0 PROVE out[i] <= last
    <3> DEFINE h == Dup - Len(q) + 1
    <3>1. h \in 1..Dup /\ i <= h /\ 1 \in 1..Len(q) /\ 1 = Len(q) - Dup + h
        BY <1>1, <2>2, DupIsPositive
    <3> HIDE DEF h
    <3>2. out[h] <= q[1].to /\ out[i] <= out[h]
        BY <3>1 DEF Follows
    <3> QED
        BY <1>2, <1>6, <3>1, <3>2, AtMost
  <2> QED
      BY <2>1, <2>2 DEF Reaches
<1>7. ASSUME NEW lost \in Nat, NEW last \in Nat, Reaches(q, out, lost, last)
      PROVE  Reaches(r, out, MinOf(lost + 1, Dup), last)
  <2> DEFINE more == MinOf(lost + 1, Dup)
  <2>1. more \in Nat /\ (more = lost + 1 \/ more = Dup)
      BY DupIsPositive DEF MinOf
  <2> HIDE DEF more
  <2>2. ASSUME NEW k \in 1..Len(r), more + k <= Dup, r[k].whole PROVE r[k].from <= last + 1
    <3>1. k + 1 \in 1..Len(q) /\ lost + (k + 1) <= Dup
        BY <1>1, <2>1, <2>2, DupIsPositive
    <3>2. q[k + 1].from <= last + 1
        BY <1>1, <1>7, <2>2, <3>1 DEF Reaches
    <3> QED
        BY <1>1, <3>2
  <2>3. ASSUME NEW i \in 1..Dup, more + Len(r) - Dup + i <= 0 PROVE out[i] <= last
    <3>1. lost + Len(q) - Dup + i <= 0
        BY <1>1, <2>1, <2>3, DupIsPositive
    <3> QED
        BY <1>7, <3>1 DEF Reaches
  <2>4. Reaches(r, out, more, last)
      BY <2>2, <2>3 DEF Reaches
  <2> QED
      BY <2>4 DEF more
<1> QED
    BY <1>1, <1>5, <1>6, <1>7

-----------------------------------------------------------------------------
(* The commands.                                                           *)

(* A command is put in a ring that has room for it.                        *)
LEMMA StoreKeeps ==
  ASSUME NEW a \in Nat, NEW s \in Nat, a <= s, s + 1 - a <= N,
         NEW ring \in [Slots -> Nat], \A i \in (a + 1)..s : ring[Slot(i)] = i
  PROVE  \A i \in (a + 1)..(s + 1) : [ring EXCEPT ![Slot(s + 1)] = s + 1][Slot(i)] = i
<1> SUFFICES ASSUME NEW i \in (a + 1)..(s + 1)
             PROVE  [ring EXCEPT ![Slot(s + 1)] = s + 1][Slot(i)] = i
    OBVIOUS
<1>1. i \in Nat /\ s + 1 \in Nat /\ Slot(i) \in Slots /\ Slot(s + 1) \in Slots
    BY SlotInRing
<1>2. CASE i = s + 1
    BY <1>1, <1>2
<1>3. CASE i < s + 1
  <2>1. i \in (a + 1)..s /\ s + 1 - i < N
      BY <1>1, <1>3, SizeIsPositive
  <2>2. Slot(i) # Slot(s + 1)
      BY <1>1, <1>3, <2>1, SlotsDiffer
  <2> QED
      BY <1>1, <2>1, <2>2
<1> QED
    BY <1>1, <1>2, <1>3

LEMMA PacketIsTruthful ==
  ASSUME TypeOK, NoneLost, Created,
         NEW sent \in Seq(Nat), Len(sent) = Dup, sent[1] <= cmdNumber,
         NEW last \in Nat, last = reliableSequence', reliableSequence <= last,
         NEW text \in [Slots -> Nat],
         ~Broken' => \A i \in (reliableAcknowledge + 1)..last : text[Slot(i)] = i,
         UNCHANGED <<cmdNumber, stamps, reliableAcknowledge, lastClientCommand>>,
         NEW p, p = Packet(sent, last, text)
  PROVE  p \in Packets /\ Truthful(p)' /\ p.to = cmdNumber /\ (p.whole => p.from <= sent[1] + 1)
<1>1. /\ reliableAcknowledge \in Nat /\ cmdNumber \in Nat /\ lastClientCommand \in Nat
      /\ reliableSequence \in Nat /\ reliableAcknowledge <= lastClientCommand
      /\ stamps \in Seq(Nat) /\ Len(stamps) = cmdNumber
    BY DEF TypeOK, NoneLost
<1>2. /\ p \in Packets
      /\ p.first = reliableAcknowledge + 1 /\ p.last = last /\ p.commands = text
      /\ p.from \in 1..(p.to + 1) /\ p.to = cmdNumber
      /\ p.whole => p.from <= sent[1] + 1
    BY <1>1, PacketFields
<1>3. p.first <= lastClientCommand + 1
    BY <1>1, <1>2
<1>4. ~Broken' => \A i \in p.first..p.last : Text(p, i) = i
    BY <1>2 DEF Text
<1>5. \A j \in 1..p.to : stamps[j] <= p.last
  <2> SUFFICES ASSUME NEW j \in 1..cmdNumber PROVE stamps[j] <= last
      BY <1>2
  <2>1. stamps[j] \in Nat /\ stamps[j] <= reliableSequence
      BY <1>1 DEF Created
  <2> QED
      BY <1>1, <2>1, AtMost
<1>6. Truthful(p)'
    BY <1>1, <1>2, <1>3, <1>4, <1>5 DEF Truthful, Text
<1> QED
    BY <1>2, <1>6

LEMMA TruthStays ==
  ASSUME NEW p \in Packets, Truthful(p),
         lastClientCommand \in Nat, lastClientCommand' \in Nat, lastClientCommand <= lastClientCommand',
         reliableSequence \in Nat, reliableSequence' \in Nat, reliableSequence <= reliableSequence',
         cmdNumber \in Nat, cmdNumber' \in Nat, cmdNumber <= cmdNumber',
         \A j \in 1..cmdNumber : stamps'[j] = stamps[j],
         Broken => Broken'
  PROVE  Truthful(p)'
<1>1. p.first \in Nat /\ p.last \in Nat /\ p.from \in Nat /\ p.to \in Nat
    BY DEF Packets
<1>2. p.first <= lastClientCommand' + 1
    BY <1>1, NoLaterThan DEF Truthful
<1>3. p.last <= reliableSequence' /\ p.to <= cmdNumber'
    BY <1>1, AtMost DEF Truthful
<1>4. \A j \in 1..p.to : stamps'[j] <= p.last
  <2> SUFFICES ASSUME NEW j \in 1..p.to PROVE stamps'[j] <= p.last
      OBVIOUS
  <2>1. j \in 1..cmdNumber /\ stamps[j] <= p.last
      BY <1>1 DEF Truthful
  <2> QED
      BY <2>1
<1> QED
    BY <1>2, <1>3, <1>4 DEF Truthful, Text

(* A packet more puts nothing out of reach.                                *)
StillReaches(q, out, r, new) ==
    \A lost \in Nat, since \in Nat : Reaches(q, out, lost, since) => Reaches(r, new, lost, since)

(* A step that sends packets of the commands to last, with ring text.      *)
Sends(last, text) ==
    /\ TypeOK /\ NoneLost /\ Created
    /\ last \in Nat /\ last = reliableSequence' /\ reliableSequence <= last
    /\ text \in [Slots -> Nat]
    /\ ~Broken' => \A i \in (reliableAcknowledge + 1)..last : text[Slot(i)] = i
    /\ UNCHANGED <<cmdNumber, stamps, reliableAcknowledge, lastClientCommand>>

LEMMA OneMoreSent ==
  ASSUME NEW last, NEW text, Sends(last, text),
         NEW q, NEW out, Sent(q, out), AllTruthful(q)',
         NEW r, r = Append(q, Packet(out, last, text)), NEW new, new = SentAfter(out)
  PROVE  Sent(r, new) /\ AllTruthful(r)' /\ StillReaches(q, out, r, new)
<1>0. PICK p : p = Packet(out, last, text) /\ r = Append(q, p)
    OBVIOUS
<1>1. /\ cmdNumber \in Nat /\ q \in Seq(Packets) /\ out \in Seq(Nat) /\ Len(out) = Dup
      /\ \A i \in 1..Dup : out[i] <= cmdNumber
      /\ Follows(q, out)
    BY DEF TypeOK, Sent, Sends
<1>2. out[1] <= cmdNumber
    BY <1>1, DupIsPositive
<1>3. p \in Packets /\ Truthful(p)' /\ p.to = cmdNumber /\ (p.whole => p.from <= out[1] + 1)
    BY <1>0, <1>1, <1>2, PacketIsTruthful DEF Sends
<1>4. Sent(r, new) /\ StillReaches(q, out, r, new)
    BY <1>0, <1>1, <1>3, SendKeeps DEF StillReaches
<1>5. AllTruthful(r)'
  <2> SUFFICES ASSUME NEW k \in 1..Len(r) PROVE Truthful(r[k])'
      BY DEF AllTruthful
  <2>1. (k \in 1..Len(q) /\ r[k] = q[k]) \/ r[k] = p
      BY <1>0, <1>1, <1>3, AppendProperties, LenProperties
  <2> QED
      BY <1>3, <2>1 DEF AllTruthful
<1> QED
    BY <1>0, <1>4, <1>5

LEMMA TruthfulStay ==
  ASSUME TypeOK, TypeOK', lastClientCommand <= lastClientCommand',
         reliableSequence <= reliableSequence', cmdNumber <= cmdNumber',
         \A j \in 1..cmdNumber : stamps'[j] = stamps[j],
         Broken => Broken',
         NEW q \in Seq(Packets), AllTruthful(q)
  PROVE  AllTruthful(q)'
<1> SUFFICES ASSUME NEW k \in 1..Len(q) PROVE Truthful(q[k])'
    BY DEF AllTruthful
<1>1. q[k] \in Packets /\ Truthful(q[k])
    BY DEF AllTruthful
<1>2. /\ lastClientCommand \in Nat /\ lastClientCommand' \in Nat
      /\ reliableSequence \in Nat /\ reliableSequence' \in Nat
      /\ cmdNumber \in Nat /\ cmdNumber' \in Nat
    BY DEF TypeOK
<1> QED
    BY <1>1, <1>2, TruthStays

LEMMA TruthfulStayThere ==
  ASSUME Inv, TypeOK', lastClientCommand <= lastClientCommand',
         reliableSequence <= reliableSequence', cmdNumber <= cmdNumber',
         \A j \in 1..cmdNumber : stamps'[j] = stamps[j],
         Broken => Broken', toServer' = toServer
  PROVE  PacketsTruthful'
<1>1. PICK q : q = toServer
    OBVIOUS
<1>2. TypeOK /\ q \in Seq(Packets) /\ AllTruthful(q)
    BY <1>1 DEF Inv, IInv, TypeOK, PacketsTruthful
<1>3. AllTruthful(q)'
    BY <1>2, TruthfulStay
<1>4. toServer' = q
    BY <1>1
<1> QED
    BY <1>3, <1>4 DEF PacketsTruthful, AllTruthful

-----------------------------------------------------------------------------
(* The first state, and each action.                                       *)

LEMMA InitInv ==
  ASSUME Init
  PROVE  Inv
<1>1. outPackets \in Seq(Nat) /\ Len(outPackets) = Dup /\ \A i \in 1..Dup : outPackets[i] = 0
    BY DupIsPositive DEF Init, Dup
<1>2. reliableCommands \in [Slots -> Nat]
    BY DEF Init
<1> DEFINE Zero == /\ connected = TRUE /\ reliableSequence = 0 /\ reliableAcknowledge = 0
                   /\ farewell = 0 /\ cmdNumber = 0 /\ stamps = <<>> /\ state = "CS_PRIMED"
                   /\ lostCommands = FALSE /\ lastClientCommand = 0 /\ executed = <<>>
                   /\ lastUsercmd = 0 /\ begun = 0 /\ thought = <<>> /\ toServer = <<>>
                   /\ toClient = <<>> /\ lostInRow = 0 /\ missing = FALSE
<1>0. Zero
    BY DEF Init
<1>3. TypeOK
  <2>1. Len(outPackets) = cl_packetdup + 1 /\ lostInRow \in 0..(cl_packetdup + 1)
      BY <1>0, <1>1, DupIsPositive DEF Dup
  <2>2. /\ stamps \in Seq(Nat) /\ Len(stamps) = cmdNumber /\ executed \in Seq(Nat)
        /\ thought \in Seq(Nat) /\ toServer \in Seq(Packets) /\ toClient \in Seq(Nat)
      BY <1>0
  <2>3. /\ connected \in BOOLEAN /\ lostCommands \in BOOLEAN /\ missing \in BOOLEAN
        /\ state \in States
      BY <1>0 DEF States
  <2>4. /\ reliableSequence \in Nat /\ reliableAcknowledge \in Nat /\ farewell \in Nat
        /\ cmdNumber \in Nat /\ lastClientCommand \in Nat /\ lastUsercmd \in Nat
        /\ begun \in Nat
      BY <1>0
  <2> HIDE DEF Zero
  <2> QED
      BY <1>1, <1>2, <2>1, <2>2, <2>3, <2>4 DEF TypeOK
<1> USE <1>0
<1>4. NoneLost /\ RingKeeps
    BY DEF NoneLost, RingKeeps
<1>5. Ends
    BY SizeIsPositive DEF Ends
<1>6. AcksInOrder /\ PacketsTruthful /\ ExecutedInOrder
    BY DEF AcksInOrder, PacketsTruthful, AllTruthful, ExecutedInOrder
<1>7. Created
    BY <1>1 DEF Created
<1>8. Thought /\ CommandsBeforeUsercmds /\ UsercmdsSurvive
    BY DEF Thought, CommandsBeforeUsercmds, UsercmdsSurvive
<1>9. Follows(toServer, outPackets)
    BY <1>1, DupIsPositive DEF Follows
<1>10. InReach
    BY DEF InReach
<1> QED
    BY <1>3, <1>4, <1>5, <1>6, <1>7, <1>8, <1>9, <1>10 DEF Inv, IInv

LEMMA AddStep ==
  ASSUME Inv, CL_AddReliableCommand, ~RingFull
  PROVE  Inv'
<1> DEFINE s == reliableSequence
           a == reliableAcknowledge
<1>1. /\ connected /\ s' = s + 1
      /\ reliableCommands' = [reliableCommands EXCEPT ![Slot(s + 1)] = s + 1]
      /\ UNCHANGED <<connected, reliableAcknowledge, farewell, cmdNumber, outPackets, stamps>>
      /\ UNCHANGED serverVars /\ UNCHANGED netVars
    BY DEF CL_AddReliableCommand, StoredAt
<1>2. UNCHANGED <<state, lostCommands, lastClientCommand, executed, lastUsercmd, begun, thought,
                  toServer, toClient, lostInRow, missing>>
    BY <1>1 DEF serverVars, netVars
<1>3. /\ s \in Nat /\ a \in Nat /\ a <= s /\ s + 1 - a <= N /\ farewell = 0
      /\ reliableCommands \in [Slots -> Nat]
    BY <1>1, SizeIsPositive DEF RingFull, Unacknowledged, Inv, IInv, TypeOK, NoneLost, Ends
<1>4. TypeOK'
  <2>1. s' \in Nat /\ Slot(s + 1) \in Slots /\ reliableCommands' \in [Slots -> Nat]
      BY <1>1, <1>3, SlotInRing
  <2> QED
      BY <1>1, <1>2, <2>1 DEF Inv, IInv, TypeOK
<1>5. NoneLost'
    BY <1>1, <1>2, <1>3 DEF Inv, IInv, NoneLost, TypeOK
<1>6. RingKeeps'
    BY <1>1, <1>2, <1>3, StoreKeeps DEF Inv, IInv, RingKeeps
<1>7. Ends' /\ ~Broken /\ ~Broken'
    BY <1>1, <1>2, <1>3, SizeIsPositive DEF Inv, Ends, Broken, N
<1>8. AcksInOrder'
    BY <1>1, <1>2 DEF Inv, AcksInOrder
<1>9. PacketsTruthful'
    BY <1>1, <1>2, <1>3, <1>4, <1>7, TruthfulStayThere DEF Inv, IInv, TypeOK
<1>10. ExecutedInOrder'
    BY <1>1, <1>2, <1>7 DEF Inv, ExecutedInOrder
<1>11. Created'
  <2>1. \A j \in 1..cmdNumber : stamps[j] \in Nat
      BY DEF Inv, IInv, TypeOK
  <2> QED
      BY <1>1, <1>2, <1>3, <2>1 DEF Inv, Created, Dup
<1>12. Thought' /\ CommandsBeforeUsercmds' /\ UsercmdsSurvive'
    BY <1>1, <1>2 DEF Inv, Thought, CommandsBeforeUsercmds, UsercmdsSurvive
<1>13. Follows(toServer, outPackets)' /\ InReach'
    BY <1>1, <1>2 DEF Inv, Follows, InReach, Reaches, Dup
<1> QED
    BY <1>4, <1>5, <1>6, <1>7, <1>8, <1>9, <1>10, <1>11, <1>12, <1>13 DEF Inv, IInv

LEMMA WriteStep ==
  ASSUME Inv, CL_WritePacket
  PROVE  Inv'
<1> DEFINE s == reliableSequence
<1>1. /\ connected
      /\ toServer' = Append(toServer, Packet(outPackets, s, reliableCommands))
      /\ outPackets' = SentAfter(outPackets)
      /\ UNCHANGED <<connected, reliableSequence, reliableAcknowledge, reliableCommands,
                     farewell, cmdNumber, stamps, toClient, lostInRow, missing>>
      /\ UNCHANGED <<state, lostCommands, lastClientCommand, executed, lastUsercmd, begun, thought>>
    BY DEF CL_WritePacket, serverVars
<1>2. /\ TypeOK /\ NoneLost /\ Created /\ RingKeeps /\ farewell = 0
      /\ s \in Nat /\ reliableCommands \in [Slots -> Nat]
      /\ lostInRow \in Nat /\ lastUsercmd \in Nat
    BY <1>1, DupIsPositive DEF Inv, IInv, Ends, TypeOK
<1>3. PICK last \in Nat, text \in [Slots -> Nat] : last = s /\ text = reliableCommands
    BY <1>2
<1>0. PICK q, out : q = toServer /\ out = outPackets
    OBVIOUS
<1>4. Sent(q, out) /\ AllTruthful(q)
    BY <1>0 DEF Inv, IInv, Sent, TypeOK, Created, Dup, PacketsTruthful
<1>5. AllTruthful(q)'
    BY <1>1, <1>4 DEF AllTruthful, Truthful, Broken, N, Text
<1>6. \A i \in (reliableAcknowledge + 1)..last : text[Slot(i)] = i
    BY <1>2, <1>3 DEF RingKeeps
<1>8. last = reliableSequence' /\ reliableSequence <= last
    BY <1>1, <1>2, <1>3
<1>9. UNCHANGED <<cmdNumber, stamps, reliableAcknowledge, lastClientCommand>>
    BY <1>1
<1>10. PICK r, new : /\ r = Append(q, Packet(out, last, text)) /\ new = SentAfter(out)
                     /\ toServer' = r /\ outPackets' = new
    BY <1>0, <1>1, <1>3
<1>7. Sent(r, new) /\ AllTruthful(r)' /\ StillReaches(q, out, r, new)
  <2>1. Sends(last, text)
      BY <1>2, <1>3, <1>6, <1>8, <1>9 DEF Sends
  <2>2. Sent(q, out) /\ AllTruthful(q)'
      BY <1>4, <1>5
  <2>3. r = Append(q, Packet(out, last, text)) /\ new = SentAfter(out)
      BY <1>10
  <2> QED
      BY ONLY <2>1, <2>2, <2>3, OneMoreSent, ZenonT(30)
<1>11. PacketsTruthful'
    BY <1>7, <1>10 DEF PacketsTruthful, AllTruthful
<1>12. TypeOK'
    BY <1>1, <1>7, <1>10 DEF Inv, IInv, TypeOK, Sent, Dup
<1>13. Created' /\ Follows(toServer, outPackets)'
  <2>1. Follows(r, new)'
      BY <1>7, <1>10 DEF Sent, Follows, Dup
  <2> QED
      BY <1>1, <1>7, <1>10, <2>1 DEF Inv, Created, Sent, Dup, Follows
<1>14. InReach'
  <2> SUFFICES ASSUME state = "CS_ACTIVE", ~missing
               PROVE  Reaches(toServer, outPackets, lostInRow, lastUsercmd)'
      BY <1>1 DEF InReach
  <2>1. Reaches(q, out, lostInRow, lastUsercmd)
      BY <1>0 DEF Inv, InReach
  <2>2. PICK lost \in Nat, since \in Nat : lost = lostInRow /\ since = lastUsercmd
      BY <1>2
  <2>3. Reaches(r, new, lost, since)
      BY <1>7, <2>1, <2>2 DEF StillReaches
  <2> QED
      BY <1>1, <1>7, <1>10, <2>2, <2>3 DEF Reaches, Dup
<1>15. NoneLost' /\ RingKeeps' /\ Ends' /\ AcksInOrder' /\ ExecutedInOrder'
    BY <1>1 DEF Inv, IInv, NoneLost, RingKeeps, Ends, AcksInOrder, ExecutedInOrder, Broken, N
<1>16. Thought' /\ CommandsBeforeUsercmds' /\ UsercmdsSurvive'
    BY <1>1 DEF Inv, Thought, CommandsBeforeUsercmds, UsercmdsSurvive
<1> QED
    BY <1>11, <1>12, <1>13, <1>14, <1>15, <1>16 DEF Inv, IInv

LEMMA ThreeMore ==
  ASSUME NEW S, NEW q \in Seq(S), NEW a \in S, NEW b \in S, NEW c \in S
  PROVE  q \o <<a, b, c>> = Append(Append(Append(q, a), b), c)
<1> DEFINE l == q \o <<a, b, c>>
           r == Append(Append(Append(q, a), b), c)
<1>1. l \in Seq(S) /\ r \in Seq(S) /\ Len(l) = Len(q) + 3 /\ Len(r) = Len(q) + 3 /\ Len(q) \in Nat
    OBVIOUS
<1>2. ASSUME NEW i \in 1..(Len(q) + 3) PROVE l[i] = r[i]
  <2>1. CASE i \in 1..Len(q)
      BY <2>1
  <2>2. CASE i \in {Len(q) + 1, Len(q) + 2, Len(q) + 3}
      BY <2>2
  <2> QED
      BY <1>1, <2>1, <2>2
<1> HIDE DEF l, r
<1>3. l = r
    BY <1>1, <1>2, SeqEqual
<1> QED
    BY <1>3 DEF l, r

LEMMA DisconnectStep ==
  ASSUME Inv, CL_Disconnect
  PROVE  Inv'
<1> DEFINE s == reliableSequence
           a == reliableAcknowledge
           ring == [reliableCommands EXCEPT ![Slot(s + 1)] = s + 1]
           after == SentAfter(outPackets)
<1>1. /\ connected /\ connected' = FALSE /\ s' = s + 1 /\ reliableCommands' = ring
      /\ farewell' = s + 1
      /\ toServer' = toServer \o <<Packet(outPackets, s + 1, ring), Packet(after, s + 1, ring),
                                   Packet(SentAfter(after), s + 1, ring)>>
      /\ outPackets' = SentAfter(SentAfter(after))
      /\ UNCHANGED <<reliableAcknowledge, cmdNumber, stamps, toClient, lostInRow, missing>>
      /\ UNCHANGED <<state, lostCommands, lastClientCommand, executed, lastUsercmd, begun, thought>>
    BY DEF CL_Disconnect, serverVars
<1>2. /\ TypeOK /\ NoneLost /\ Created /\ RingKeeps /\ farewell = 0
      /\ s \in Nat /\ s + 1 \in Nat /\ a \in Nat /\ a <= s
      /\ reliableCommands \in [Slots -> Nat]
      /\ lostInRow \in Nat /\ lastUsercmd \in Nat
    BY <1>1, DupIsPositive DEF Inv, IInv, Ends, TypeOK, NoneLost
<1>3. PICK last, text : last = s + 1 /\ text = ring
    OBVIOUS
<1>4. PICK q0, o0 : q0 = toServer /\ o0 = outPackets
    OBVIOUS
<1>5. PICK q1, o1 : q1 = Append(q0, Packet(o0, last, text)) /\ o1 = SentAfter(o0)
    OBVIOUS
<1>6. PICK q2, o2 : q2 = Append(q1, Packet(o1, last, text)) /\ o2 = SentAfter(o1)
    OBVIOUS
<1>7. PICK q3, o3 : q3 = Append(q2, Packet(o2, last, text)) /\ o3 = SentAfter(o2)
    OBVIOUS
<1>8. Sends(last, text)
  <2>1. text \in [Slots -> Nat]
      BY <1>2, <1>3, SlotInRing
  <2>2. ASSUME ~Broken' PROVE \A i \in (a + 1)..last : text[Slot(i)] = i
    <3>1. s + 1 - a <= N
        BY <1>1, <1>2, <2>2, SizeIsPositive DEF Broken, N
    <3>2. \A i \in (a + 1)..s : reliableCommands[Slot(i)] = i
        BY <1>2 DEF RingKeeps
    <3> QED
        BY <1>2, <1>3, <3>1, <3>2, StoreKeeps
  <2>3. last \in Nat /\ last = s' /\ s <= last
      BY <1>1, <1>2, <1>3
  <2> QED
      BY <1>1, <1>2, <2>1, <2>2, <2>3 DEF Sends
<1>9. Broken => Broken'
    BY <1>1, <1>2, SizeIsPositive DEF Broken, N
<1>10. Sent(q0, o0) /\ AllTruthful(q0)'
  <2>1. q0 \in Seq(Packets) /\ AllTruthful(q0) /\ Sent(q0, o0)
      BY <1>4 DEF Inv, IInv, Sent, TypeOK, Created, Dup, PacketsTruthful
  <2>2. ASSUME NEW k \in 1..Len(q0) PROVE Truthful(q0[k])'
    <3>1. q0[k] \in Packets /\ Truthful(q0[k])
        BY <2>1 DEF AllTruthful
    <3>2. /\ lastClientCommand \in Nat /\ cmdNumber \in Nat /\ s' \in Nat /\ s <= s'
        BY <1>1, <1>2 DEF TypeOK
    <3> QED
        BY <1>1, <1>2, <1>9, <3>1, <3>2, TruthStays
  <2> QED
      BY <2>1, <2>2 DEF AllTruthful
<1>11. Sent(q1, o1) /\ AllTruthful(q1)' /\ StillReaches(q0, o0, q1, o1)
    BY <1>5, <1>8, <1>10, OneMoreSent
<1>12. Sent(q2, o2) /\ AllTruthful(q2)' /\ StillReaches(q1, o1, q2, o2)
    BY <1>6, <1>8, <1>11, OneMoreSent
<1>13. Sent(q3, o3) /\ AllTruthful(q3)' /\ StillReaches(q2, o2, q3, o3)
    BY <1>7, <1>8, <1>12, OneMoreSent
<1>14. toServer' = q3 /\ outPackets' = o3
  <2>1. PICK m1, m2, m3 : /\ m1 = Packet(o0, last, text) /\ m2 = Packet(o1, last, text)
                          /\ m3 = Packet(o2, last, text)
      OBVIOUS
  <2>2. q0 \in Seq(Packets) /\ q1 = Append(q0, m1) /\ q2 = Append(q1, m2) /\ q3 = Append(q2, m3)
      BY <1>5, <1>6, <1>7, <1>10, <2>1 DEF Sent
  <2>3. m1 \in Packets /\ m2 \in Packets /\ m3 \in Packets
    <3>1. q1 \in Seq(Packets) /\ q2 \in Seq(Packets) /\ q3 \in Seq(Packets)
        BY <1>11, <1>12, <1>13 DEF Sent
    <3>2. q1[Len(q0) + 1] = m1 /\ q2[Len(q1) + 1] = m2 /\ q3[Len(q2) + 1] = m3
        BY <2>2, <3>1
    <3>3. Len(q0) + 1 \in 1..Len(q1) /\ Len(q1) + 1 \in 1..Len(q2) /\ Len(q2) + 1 \in 1..Len(q3)
        BY <2>2, <3>1
    <3> QED
        BY <3>1, <3>2, <3>3
  <2>4. q0 \o <<m1, m2, m3>> = q3
      BY <2>2, <2>3, ThreeMore
  <2> QED
      BY <1>1, <1>3, <1>4, <1>5, <1>6, <1>7, <2>1, <2>4
<1>15. StillReaches(q0, o0, q3, o3)
    BY <1>11, <1>12, <1>13 DEF StillReaches
<1>16. PacketsTruthful'
    BY <1>13, <1>14 DEF PacketsTruthful, AllTruthful
<1>17. TypeOK'
  <2>1. reliableCommands' \in [Slots -> Nat]
      BY <1>1, <1>3, <1>8 DEF Sends
  <2> QED
      BY <1>1, <1>2, <1>13, <1>14, <2>1 DEF TypeOK, Sent, Dup
<1>18. Created' /\ Follows(toServer, outPackets)'
  <2>1. Follows(q3, o3)'
      BY <1>13 DEF Sent, Follows, Dup
  <2>2. \A j \in 1..cmdNumber : stamps[j] <= s + 1
    <3>1. \A j \in 1..cmdNumber : stamps[j] \in Nat /\ stamps[j] <= s
        BY <1>2 DEF TypeOK, Created
    <3> QED
        BY <1>2, <3>1
  <2> QED
      BY <1>1, <1>13, <1>14, <2>1, <2>2 DEF Created, Sent, Dup, Follows
<1>19. InReach'
  <2> SUFFICES ASSUME state = "CS_ACTIVE", ~missing
               PROVE  Reaches(toServer, outPackets, lostInRow, lastUsercmd)'
      BY <1>1 DEF InReach
  <2>1. Reaches(q0, o0, lostInRow, lastUsercmd)
      BY <1>4 DEF Inv, InReach
  <2>2. PICK lost \in Nat, since \in Nat : lost = lostInRow /\ since = lastUsercmd
      BY <1>2
  <2>3. Reaches(q3, o3, lost, since)
      BY <1>15, <2>1, <2>2 DEF StillReaches
  <2> QED
      BY <1>1, <1>14, <2>2, <2>3 DEF Reaches, Dup
<1>20. NoneLost'
    BY <1>1, <1>2 DEF NoneLost, TypeOK
<1>21. RingKeeps' /\ Ends'
    BY <1>1, <1>2 DEF RingKeeps, Ends
<1>22. AcksInOrder' /\ ExecutedInOrder'
    BY <1>1, <1>9 DEF Inv, AcksInOrder, ExecutedInOrder
<1>23. Thought' /\ CommandsBeforeUsercmds' /\ UsercmdsSurvive'
    BY <1>1 DEF Inv, Thought, CommandsBeforeUsercmds, UsercmdsSurvive
<1> QED
    BY <1>16, <1>17, <1>18, <1>19, <1>20, <1>21, <1>22, <1>23 DEF Inv, IInv

LEMMA CreateStep ==
  ASSUME Inv, CL_CreateNewCommands
  PROVE  Inv'
<1> DEFINE c == cmdNumber
<1>1. /\ c' = c + 1 /\ stamps' = Append(stamps, reliableSequence)
      /\ UNCHANGED <<connected, reliableSequence, reliableAcknowledge, reliableCommands,
                     farewell, outPackets, state, lostCommands, lastClientCommand, executed,
                     lastUsercmd, begun, thought, toServer, toClient, lostInRow, missing>>
    BY DEF CL_CreateNewCommands, serverVars, netVars
<1>2. /\ c \in Nat /\ stamps \in Seq(Nat) /\ Len(stamps) = c /\ reliableSequence \in Nat
      /\ lastUsercmd \in Nat /\ lastUsercmd <= c /\ outPackets \in Seq(Nat) /\ Len(outPackets) = Dup
    BY DEF Inv, IInv, TypeOK, Thought, Dup
<1>3. /\ stamps' \in Seq(Nat) /\ Len(stamps') = c + 1 /\ stamps'[c + 1] = reliableSequence
      /\ \A j \in 1..c : stamps'[j] = stamps[j]
    BY <1>1, <1>2
<1>4. TypeOK'
    BY <1>1, <1>2, <1>3 DEF Inv, IInv, TypeOK
<1>5. c <= c' /\ lastClientCommand <= lastClientCommand' /\ reliableSequence <= reliableSequence'
    BY <1>1, <1>2 DEF Inv, IInv, TypeOK
<1>6. Broken => Broken'
    BY <1>1 DEF Broken, N
<1>7. PacketsTruthful'
    BY <1>1, <1>3, <1>4, <1>5, <1>6, TruthfulStayThere
<1>8. Created'
  <2>1. \A j \in 1..c' : stamps'[j] <= reliableSequence'
    <3> SUFFICES ASSUME NEW j \in 1..(c + 1) PROVE stamps'[j] <= reliableSequence
        BY <1>1
    <3>1. CASE j = c + 1
        BY <1>2, <1>3, <3>1
    <3>2. CASE j \in 1..c
        BY <1>3, <3>2 DEF Inv, Created
    <3> QED
        BY <1>2, <3>1, <3>2
  <2>2. \A k \in 1..Dup : outPackets'[k] <= c'
    <3> SUFFICES ASSUME NEW k \in 1..Dup PROVE outPackets[k] <= c + 1
        BY <1>1 DEF Dup
    <3>1. outPackets[k] \in Nat /\ outPackets[k] <= c
        BY <1>2 DEF Inv, Created
    <3> QED
        BY <1>2, <3>1
  <2> QED
      BY <2>1, <2>2 DEF Created, Dup
<1>9. Thought'
    BY <1>1, <1>2 DEF Inv, Thought
<1>10. CommandsBeforeUsercmds'
  <2> SUFFICES ASSUME NEW k \in 1..Len(thought) PROVE stamps'[thought[k]] <= lastClientCommand
      BY <1>1 DEF CommandsBeforeUsercmds
  <2>1. thought[k] \in 1..c
      BY <1>2 DEF Inv, Thought
  <2> QED
      BY <1>3, <2>1 DEF Inv, CommandsBeforeUsercmds
<1>11. NoneLost' /\ RingKeeps' /\ Ends' /\ AcksInOrder' /\ ExecutedInOrder'
    BY <1>1 DEF Inv, IInv, NoneLost, RingKeeps, Ends, AcksInOrder, ExecutedInOrder, Broken, N
<1>12. UsercmdsSurvive' /\ Follows(toServer, outPackets)' /\ InReach'
    BY <1>1 DEF Inv, UsercmdsSurvive, Follows, InReach, Reaches, Dup
<1> QED
    BY <1>4, <1>7, <1>8, <1>9, <1>10, <1>11, <1>12 DEF Inv, IInv

(* An acknowledgement is taken as it is: the client's doubt about those    *)
(* from long ago never bites.                                              *)
LEMMA ParseStep ==
  ASSUME Inv, CL_ParseServerMessage
  PROVE  Inv' /\ ~Broken /\ ~Broken'
<1> DEFINE s == reliableSequence
           a == reliableAcknowledge
           h == toClient[1]
<1>1. /\ connected /\ toClient # <<>> /\ toClient' = Tail(toClient)
      /\ a' = IF Head(toClient) < s - N THEN s ELSE Head(toClient)
      /\ UNCHANGED <<connected, reliableSequence, reliableCommands, farewell, cmdNumber,
                     outPackets, stamps, state, lostCommands, lastClientCommand, executed,
                     lastUsercmd, begun, thought, toServer, lostInRow, missing>>
    BY DEF CL_ParseServerMessage, serverVars
<1>2. /\ s \in Nat /\ a \in Nat /\ toClient \in Seq(Nat) /\ lastClientCommand \in Nat
      /\ a <= s /\ lastClientCommand <= s /\ s - a <= N /\ N \in Nat
    BY <1>1, SizeIsPositive DEF Inv, IInv, TypeOK, NoneLost, Ends
<1>3. Len(toClient) \in Nat /\ 1 \in 1..Len(toClient) /\ Head(toClient) = h /\ h \in Nat
    BY <1>1, <1>2
<1>4. a <= h /\ h <= lastClientCommand
    BY <1>3 DEF Inv, AcksInOrder
<1> HIDE DEF h
<1>5. a' = h /\ s - h <= N
    BY <1>1, <1>2, <1>3, <1>4
<1>6. /\ toClient' \in Seq(Nat) /\ Len(toClient') = Len(toClient) - 1
      /\ \A k \in 1..Len(toClient') : k + 1 \in 1..Len(toClient) /\ toClient'[k] = toClient[k + 1]
    BY <1>1, <1>2, <1>3
<1>7. ~Broken /\ ~Broken'
    BY <1>1, <1>2, <1>5, <1>3 DEF Broken, N
<1>8. TypeOK'
    BY <1>1, <1>3, <1>5, <1>6 DEF Inv, IInv, TypeOK
<1>9. NoneLost'
    BY <1>1, <1>4, <1>5 DEF Inv, IInv, NoneLost
<1>10. RingKeeps'
  <2> SUFFICES ASSUME farewell = 0, NEW i \in (h + 1)..s PROVE reliableCommands[Slot(i)] = i
      BY <1>1, <1>5 DEF RingKeeps, Slot, N
  <2>1. i \in (a + 1)..s
      BY <1>2, <1>3, <1>4
  <2> QED
      BY <2>1 DEF Inv, IInv, RingKeeps
<1>11. Ends'
    BY <1>1, <1>5 DEF Inv, Ends, N
<1>12. AcksInOrder'
  <2>1. ASSUME NEW k \in 1..Len(toClient') PROVE h <= toClient'[k] /\ toClient'[k] <= lastClientCommand
    <3>1. 1 \in 1..Len(toClient) /\ k + 1 \in 1..Len(toClient) /\ 1 < k + 1
        BY <1>3, <1>6
    <3> QED
        BY <1>6, <3>1 DEF Inv, AcksInOrder, h
  <2>2. ASSUME NEW j \in 1..Len(toClient'), NEW k \in 1..Len(toClient'), j < k
        PROVE  toClient'[j] <= toClient'[k]
    <3>1. j + 1 \in 1..Len(toClient) /\ k + 1 \in 1..Len(toClient) /\ j + 1 < k + 1
        BY <1>6, <2>2
    <3> QED
        BY <1>6, <3>1 DEF Inv, AcksInOrder
  <2> QED
      BY <1>1, <1>5, <2>1, <2>2 DEF AcksInOrder
<1>13. PacketsTruthful'
  <2>1. /\ lastClientCommand <= lastClientCommand' /\ s <= s' /\ cmdNumber <= cmdNumber'
        /\ \A j \in 1..cmdNumber : stamps'[j] = stamps[j]
      BY <1>1 DEF Inv, IInv, TypeOK
  <2> QED
      BY <1>1, <1>7, <1>8, <2>1, TruthfulStayThere
<1>14. ExecutedInOrder'
    BY <1>1, <1>7 DEF Inv, ExecutedInOrder
<1>15. Created' /\ Thought' /\ CommandsBeforeUsercmds' /\ UsercmdsSurvive'
    BY <1>1 DEF Inv, Created, Thought, CommandsBeforeUsercmds, UsercmdsSurvive, Dup
<1>16. Follows(toServer, outPackets)' /\ InReach'
    BY <1>1 DEF Inv, Follows, InReach, Reaches, Dup
<1> QED
    BY <1>7, <1>8, <1>9, <1>10, <1>11, <1>12, <1>13, <1>14, <1>15, <1>16 DEF Inv, IInv

LEMMA SnapshotStep ==
  ASSUME Inv, SV_SendClientSnapshot
  PROVE  Inv'
<1>1. /\ toClient' = Append(toClient, lastClientCommand)
      /\ UNCHANGED <<connected, reliableSequence, reliableAcknowledge, reliableCommands,
                     farewell, cmdNumber, outPackets, stamps, state, lostCommands,
                     lastClientCommand, executed, lastUsercmd, begun, thought, toServer,
                     lostInRow, missing>>
    BY DEF SV_SendClientSnapshot, clientVars, serverVars
<1>2. /\ toClient \in Seq(Nat) /\ lastClientCommand \in Nat /\ reliableAcknowledge \in Nat
      /\ reliableAcknowledge <= lastClientCommand
    BY DEF Inv, IInv, TypeOK, NoneLost
<1>3. /\ toClient' \in Seq(Nat) /\ Len(toClient') = Len(toClient) + 1
      /\ toClient'[Len(toClient) + 1] = lastClientCommand /\ Len(toClient) \in Nat
      /\ \A k \in 1..Len(toClient) : toClient'[k] = toClient[k]
    BY <1>1, <1>2
<1>4. TypeOK'
    BY <1>1, <1>3 DEF Inv, IInv, TypeOK
<1>5. AcksInOrder'
  <2>1. ASSUME NEW k \in 1..Len(toClient')
        PROVE  reliableAcknowledge <= toClient'[k] /\ toClient'[k] <= lastClientCommand
    <3>1. CASE k \in 1..Len(toClient)
        BY <1>3, <3>1 DEF Inv, AcksInOrder
    <3>2. CASE k = Len(toClient) + 1
        BY <1>2, <1>3, <3>2
    <3> QED
        BY <1>3, <3>1, <3>2
  <2>2. ASSUME NEW j \in 1..Len(toClient'), NEW k \in 1..Len(toClient'), j < k
        PROVE  toClient'[j] <= toClient'[k]
    <3>1. CASE k \in 1..Len(toClient)
        BY <1>3, <2>2, <3>1 DEF Inv, AcksInOrder
    <3>2. CASE k = Len(toClient) + 1
        BY <1>1, <1>3, <2>1, <3>2
    <3> QED
        BY <1>3, <3>1, <3>2
  <2> QED
      BY <1>1, <2>1, <2>2 DEF AcksInOrder
<1>6. NoneLost' /\ RingKeeps' /\ Ends' /\ ExecutedInOrder' /\ PacketsTruthful'
    BY <1>1 DEF Inv, IInv, NoneLost, RingKeeps, Ends, ExecutedInOrder, PacketsTruthful,
       AllTruthful, Truthful, Text, Slot, Broken, N
<1>7. Created' /\ Thought' /\ CommandsBeforeUsercmds' /\ UsercmdsSurvive'
    BY <1>1 DEF Inv, Created, Thought, CommandsBeforeUsercmds, UsercmdsSurvive, Dup
<1>8. Follows(toServer, outPackets)' /\ InReach'
    BY <1>1 DEF Inv, Follows, InReach, Reaches, Dup
<1> QED
    BY <1>4, <1>5, <1>6, <1>7, <1>8 DEF Inv, IInv

LEMMA TimeoutStep ==
  ASSUME Inv, SV_CheckTimeouts
  PROVE  Inv'
<1>1. /\ state' = "CS_FREE"
      /\ UNCHANGED <<connected, reliableSequence, reliableAcknowledge, reliableCommands,
                     farewell, cmdNumber, outPackets, stamps, lostCommands, lastClientCommand,
                     executed, lastUsercmd, begun, thought, toServer, toClient, lostInRow, missing>>
    BY DEF SV_CheckTimeouts, clientVars, netVars
<1>2. TypeOK'
    BY <1>1 DEF Inv, IInv, TypeOK, States
<1>3. NoneLost' /\ RingKeeps' /\ Ends' /\ ExecutedInOrder' /\ PacketsTruthful' /\ AcksInOrder'
    BY <1>1 DEF Inv, IInv, NoneLost, RingKeeps, Ends, ExecutedInOrder, PacketsTruthful,
       AllTruthful, Truthful, Text, Slot, Broken, N, AcksInOrder
<1>4. Created' /\ Thought' /\ CommandsBeforeUsercmds' /\ UsercmdsSurvive'
    BY <1>1 DEF Inv, Created, Thought, CommandsBeforeUsercmds, UsercmdsSurvive, Dup
<1>5. Follows(toServer, outPackets)' /\ InReach'
    BY <1>1 DEF Inv, Follows, InReach, Reaches, Dup
<1> QED
    BY <1>2, <1>3, <1>4, <1>5 DEF Inv, IInv

(* The next packet is taken from the netchan.                              *)
LEMMA OneFewer ==
  ASSUME Inv, TypeOK', toServer # <<>>, toServer' = Tail(toServer),
         lastClientCommand <= lastClientCommand',
         UNCHANGED <<reliableSequence, reliableAcknowledge, cmdNumber, stamps, outPackets>>,
         NEW q, q = toServer, NEW out, out = outPackets, NEW r, r = toServer'
  PROVE  /\ q \in Seq(Packets) /\ q[1] \in Packets /\ Truthful(q[1]) /\ 1 \in 1..Len(q)
         /\ r \in Seq(Packets) /\ PacketsTruthful' /\ Follows(toServer, outPackets)'
         /\ \A last \in Nat : q[1].to <= last => Reaches(r, out, 0, last)
         /\ \A lost \in Nat, last \in Nat :
               Reaches(q, out, lost, last) => Reaches(r, out, MinOf(lost + 1, Dup), last)
<1>1. /\ TypeOK /\ q \in Seq(Packets) /\ AllTruthful(q) /\ Follows(q, out)
      /\ out \in Seq(Nat) /\ Len(out) = Dup /\ q # <<>> /\ r = Tail(q)
    BY DEF Inv, IInv, TypeOK, PacketsTruthful, Dup
<1>2. /\ r \in Seq(Packets) /\ Len(r) = Len(q) - 1
      /\ \A k \in 1..Len(r) : k + 1 \in 1..Len(q) /\ r[k] = q[k + 1]
      /\ Follows(r, out)
      /\ \A last \in Nat : q[1].to <= last => Reaches(r, out, 0, last)
      /\ \A lost \in Nat, last \in Nat :
            Reaches(q, out, lost, last) => Reaches(r, out, MinOf(lost + 1, Dup), last)
    BY <1>1, ReceiveKeeps
<1>3. 1 \in 1..Len(q)
    BY <1>1
<1>4. q[1] \in Packets /\ Truthful(q[1])
    BY <1>1, <1>3 DEF AllTruthful
<1>5. AllTruthful(q)'
  <2>1. reliableSequence <= reliableSequence' /\ cmdNumber <= cmdNumber' /\ (Broken => Broken')
      BY <1>1 DEF TypeOK, Broken, N
  <2> QED
      BY <1>1, <2>1, TruthfulStay
<1>6. PacketsTruthful'
  <2> SUFFICES ASSUME NEW k \in 1..Len(r) PROVE Truthful(r[k])'
      BY DEF PacketsTruthful, AllTruthful
  <2> QED
      BY <1>2, <1>5 DEF AllTruthful
<1>7. Follows(toServer, outPackets)'
    BY <1>2 DEF Follows, Dup
<1> QED
    BY <1>1, <1>2, <1>3, <1>4, <1>6, <1>7

LEMMA LoseStep ==
  ASSUME Inv, Lose
  PROVE  Inv'
<1>1. UNCHANGED <<connected, reliableSequence, reliableAcknowledge, reliableCommands,
                  farewell, cmdNumber, outPackets, stamps, state, lostCommands, lastClientCommand,
                  executed, lastUsercmd, begun, thought, missing>>
    BY DEF Lose, clientVars, serverVars
<1>2. NoneLost' /\ RingKeeps' /\ Ends' /\ ExecutedInOrder'
    BY <1>1 DEF Inv, IInv, NoneLost, RingKeeps, Ends, ExecutedInOrder, Slot, Broken, N
<1>3. Created' /\ Thought' /\ CommandsBeforeUsercmds' /\ UsercmdsSurvive'
    BY <1>1 DEF Inv, Created, Thought, CommandsBeforeUsercmds, UsercmdsSurvive, Dup
<1>4. CASE toServer' = toServer
  <2>1. toClient # <<>> /\ toClient' = Tail(toClient) /\ lostInRow' = lostInRow
    <3>1. ~(toServer # <<>> /\ toServer' = Tail(toServer))
      <4>1. toServer \in Seq(Packets)
          BY DEF Inv, IInv, TypeOK
      <4> QED
          BY <1>4, <4>1
    <3> QED
        BY <3>1 DEF Lose
  <2>2. toClient \in Seq(Nat)
      BY DEF Inv, IInv, TypeOK
  <2>3. /\ toClient' \in Seq(Nat) /\ Len(toClient') = Len(toClient) - 1
        /\ \A k \in 1..Len(toClient') : k + 1 \in 1..Len(toClient) /\ toClient'[k] = toClient[k + 1]
      BY <2>1, <2>2
  <2>4. TypeOK'
      BY <1>1, <1>4, <2>1, <2>3 DEF Inv, IInv, TypeOK
  <2>5. AcksInOrder'
    <3>1. ASSUME NEW j \in 1..Len(toClient'), NEW k \in 1..Len(toClient'), j < k
          PROVE  toClient'[j] <= toClient'[k]
      <4>1. j + 1 \in 1..Len(toClient) /\ k + 1 \in 1..Len(toClient) /\ j + 1 < k + 1
          BY <2>3, <3>1
      <4> QED
          BY <2>3, <4>1 DEF Inv, AcksInOrder
    <3> QED
        BY <1>1, <2>3, <3>1 DEF Inv, AcksInOrder
  <2>6. PacketsTruthful' /\ Follows(toServer, outPackets)' /\ InReach'
      BY <1>1, <1>4, <2>1 DEF Inv, PacketsTruthful, AllTruthful, Truthful, Text, Slot, Broken, N,
         Follows, InReach, Reaches, Dup
  <2> QED
      BY <1>2, <1>3, <2>4, <2>5, <2>6 DEF Inv, IInv
<1>5. CASE toServer' # toServer
  <2>1. /\ toServer # <<>> /\ toServer' = Tail(toServer)
        /\ lostInRow' = MinOf(lostInRow + 1, Dup) /\ toClient' = toClient
      BY <1>5 DEF Lose, Dup
  <2>2. lostInRow \in 0..Dup /\ lastUsercmd \in Nat /\ lastClientCommand \in Nat
      BY DEF Inv, IInv, TypeOK, Dup
  <2>3. TypeOK'
    <3>1. lostInRow' \in 0..(cl_packetdup + 1)
        BY <2>1, <2>2, DupIsPositive DEF MinOf, Dup
    <3>2. toServer' \in Seq(Packets)
      <4>1. toServer \in Seq(Packets)
          BY DEF Inv, IInv, TypeOK
      <4> QED
          BY <2>1, <4>1
    <3> QED
        BY <1>1, <2>1, <3>1, <3>2 DEF Inv, IInv, TypeOK
  <2>4. PICK q, out, r : q = toServer /\ out = outPackets /\ r = toServer'
      OBVIOUS
  <2>5. /\ PacketsTruthful' /\ Follows(toServer, outPackets)'
        /\ \A lost \in Nat, last \in Nat :
               Reaches(q, out, lost, last) => Reaches(r, out, MinOf(lost + 1, Dup), last)
    <3>1. lastClientCommand <= lastClientCommand'
        BY <1>1, <2>2
    <3> QED
        BY <1>1, <2>1, <2>3, <2>4, <3>1, OneFewer
  <2>6. InReach'
    <3> SUFFICES ASSUME state = "CS_ACTIVE", ~missing
                 PROVE  Reaches(toServer, outPackets, lostInRow, lastUsercmd)'
        BY <1>1 DEF InReach
    <3>1. Reaches(q, out, lostInRow, lastUsercmd)
        BY <2>4 DEF Inv, InReach
    <3>2. PICK lost \in Nat, last \in Nat : lost = lostInRow /\ last = lastUsercmd
        BY <2>2, DupIsPositive
    <3>3. Reaches(r, out, MinOf(lost + 1, Dup), last)
        BY <2>5, <3>1, <3>2
    <3>4. PICK more : more = MinOf(lost + 1, Dup) /\ lostInRow' = more
        BY <2>1, <3>2
    <3>5. Reaches(r, out, more, last)
        BY <3>3, <3>4
    <3> QED
        BY <1>1, <2>4, <3>2, <3>4, <3>5 DEF Reaches, Dup
  <2>7. AcksInOrder'
      BY <1>1, <2>1 DEF Inv, AcksInOrder
  <2> QED
      BY <1>2, <1>3, <2>3, <2>5, <2>6, <2>7 DEF Inv, IInv
<1> QED
    BY <1>4, <1>5

-----------------------------------------------------------------------------
(* The server executes a packet.                                           *)

LEMMA CommandsOfPacket ==
  ASSUME Inv, NEW p \in Packets, Truthful(p), NEW last \in lastClientCommand..p.last,
         ExecuteCommands(p, last)
  PROVE  /\ lastClientCommand' = last /\ last \in Nat /\ lastClientCommand <= last
         /\ last <= reliableSequence
         /\ executed' \in Seq(Nat) /\ Len(executed') = last
         /\ ~Broken => \A k \in 1..last : executed'[k] = k
         /\ ~(last \in Due(p) /\ IsFarewell(p, last)) => p.last <= last
         /\ ~Broken => executed' = executed \o [k \in 1..(last - lastClientCommand) |-> Len(executed) + k]
<1> DEFINE e == lastClientCommand
           more == [k \in 1..(last - e) |-> Text(p, e + k)]
<1>1. /\ e \in Nat /\ reliableSequence \in Nat /\ executed \in Seq(Nat) /\ Len(executed) = e
      /\ ~Broken => \A k \in 1..e : executed[k] = k
    BY DEF Inv, IInv, TypeOK, ExecutedInOrder
<1>2. p.first \in Nat /\ p.last \in Nat /\ p.commands \in [Slots -> Nat]
    BY DEF Packets
<1>3. p.first <= e + 1 /\ p.last <= reliableSequence
    BY DEF Truthful
<1>4. last \in Nat /\ e <= last /\ last <= p.last
    BY <1>1, <1>2
<1>5. \A k \in 1..(last - e) : Text(p, e + k) \in Nat /\ (~Broken => Text(p, e + k) = e + k)
  <2> SUFFICES ASSUME NEW k \in 1..(last - e)
               PROVE  Text(p, e + k) \in Nat /\ (~Broken => Text(p, e + k) = e + k)
      OBVIOUS
  <2> DEFINE i == e + k
  <2>1. i \in Nat /\ i \in p.first..p.last
      BY <1>1, <1>2, <1>3, <1>4
  <2> HIDE DEF i
  <2>2. Text(p, i) \in Nat
      BY <1>2, <2>1, SlotInRing DEF Text
  <2>3. ~Broken => Text(p, i) = i
      BY <2>1 DEF Truthful
  <2> QED
      BY <2>2, <2>3 DEF i
<1>6. executed' = executed \o more /\ lastClientCommand' = last
    BY DEF ExecuteCommands
<1>7. last - e \in Nat
    BY <1>1, <1>4
<1>8. more \in Seq(Nat) /\ Len(more) = last - e
    BY <1>5, <1>7
<1>9. ~Broken => more = [k \in 1..(last - e) |-> Len(executed) + k]
    BY <1>1, <1>5
<1>10. ~Broken => \A k \in 1..(last - e) : more[k] = e + k
    BY <1>5
<1> HIDE DEF more, e
<1>11. executed' \in Seq(Nat) /\ Len(executed') = last
  <2>1. executed \o more \in Seq(Nat) /\ Len(executed \o more) = Len(executed) + Len(more)
      BY <1>1, <1>8, ConcatProperties
  <2>2. Len(executed) + Len(more) = last
      BY <1>1, <1>4, <1>8
  <2> QED
      BY <1>6, <2>1, <2>2
<1>12. ASSUME ~Broken, NEW k \in 1..last PROVE executed'[k] = k
  <2>1. CASE k \in 1..e
      BY <1>1, <1>6, <1>8, <1>12, <2>1
  <2>2. CASE k \in (e + 1)..last
    <3>1. k - e \in 1..(last - e) /\ executed'[k] = more[k - e]
        BY <1>1, <1>4, <1>6, <1>7, <1>8, <2>2
    <3>2. more[k - e] = e + (k - e)
        BY <1>10, <1>12, <3>1
    <3> QED
        BY <1>1, <1>4, <3>1, <3>2
  <2> QED
      BY <1>1, <1>4, <2>1, <2>2
<1>13. ~(last \in Due(p) /\ IsFarewell(p, last)) => p.last <= last
  <2> SUFFICES ASSUME ~(last \in Due(p) /\ IsFarewell(p, last)), p.last > last PROVE FALSE
      BY <1>2, <1>4
  <2>1. p.last \in Due(p)
      BY <1>1, <1>2, <1>3, <1>4 DEF Due, e
  <2>2. p.last <= last
      BY <2>1 DEF ExecuteCommands
  <2> QED
      BY <1>2, <1>4, <2>2
<1> QED
    BY <1>3, <1>4, <1>2, <1>1, <1>6, <1>9, <1>11, <1>12, <1>13, AtMost DEF e

(* The usercmds after m, to the one numbered to, are executed after t.     *)
Extends(t, m, to, u) ==
    /\ t \in Seq(Nat) /\ m \in Nat /\ to \in Nat /\ m <= to
    /\ \A k \in 1..Len(t) : t[k] \in 1..m
    /\ \A j, k \in 1..Len(t) : j < k => t[j] < t[k]
    /\ u = t \o [k \in 1..(to - m) |-> m + k]
Extended(t, m, to, u) ==
    /\ u \in Seq(Nat) /\ Len(u) = Len(t) + (to - m)
    /\ \A k \in 1..Len(t) : u[k] = t[k]
    /\ \A k \in (Len(t) + 1)..Len(u) : u[k] = m + (k - Len(t))
    /\ \A k \in 1..Len(u) : u[k] \in 1..to
    /\ \A j, k \in 1..Len(u) : j < k => u[j] < u[k]

LEMMA ExtendedAsItShould ==
  ASSUME NEW t, NEW m, NEW to, NEW u, Extends(t, m, to, u)
  PROVE  Extended(t, m, to, u)
<1> SUFFICES ASSUME t \in Seq(Nat), m \in Nat, to \in Nat, m <= to,
                    \A k \in 1..Len(t) : t[k] \in 1..m,
                    \A j, k \in 1..Len(t) : j < k => t[j] < t[k],
                    NEW more, more = [k \in 1..(to - m) |-> m + k], u = t \o more
             PROVE  Extended(t, m, to, u)
    BY DEF Extends
<1> DEFINE n == to - m
           l == Len(t)
<1>1. n \in Nat /\ l \in Nat /\ m + n = to
    BY LenProperties
<1>2. more \in Seq(Nat) /\ Len(more) = n /\ \A k \in 1..n : more[k] = m + k
    BY <1>1
<1>3. u \in Seq(Nat) /\ Len(u) = l + n
    BY <1>1, <1>2, ConcatProperties
<1>4. ASSUME NEW k \in 1..l PROVE u[k] = t[k]
    BY <1>1, <1>2, <1>4, ConcatProperties
<1>5. ASSUME NEW k \in (l + 1)..(l + n) PROVE u[k] = m + (k - l)
  <2>1. k - l \in 1..n
      BY <1>1, <1>5
  <2>2. u[k] = more[k - l]
      BY <1>1, <1>2, <1>5, ConcatProperties
  <2> QED
      BY <1>2, <2>1, <2>2
<1>6. Len(u) = Len(t) + (to - m)
    BY <1>3
<1>7. ASSUME NEW k \in 1..l PROVE u[k] \in 1..m
    BY <1>4, <1>7 DEF l
<1>8. ASSUME NEW k \in 1..(l + n) PROVE u[k] \in 1..to
  <2>1. CASE k \in 1..l
    <3>1. u[k] \in 1..m
        BY <1>7, <2>1
    <3> QED
        BY <1>1, <3>1
  <2>2. CASE k \in (l + 1)..(l + n)
    <3>1. u[k] = m + (k - l)
        BY <1>5, <2>2
    <3> QED
        BY <1>1, <2>2, <3>1
  <2> QED
      BY <1>1, <2>1, <2>2
<1>9. ASSUME NEW j \in 1..(l + n), NEW k \in 1..(l + n), j < k PROVE u[j] < u[k]
  <2>1. CASE k \in 1..l
    <3>1. j \in 1..l
        BY <1>1, <1>9, <2>1
    <3>2. t[j] < t[k]
        BY <1>9, <2>1, <3>1 DEF l
    <3> QED
        BY <1>4, <2>1, <3>1, <3>2
  <2>2. CASE j \in 1..l /\ k \in (l + 1)..(l + n)
    <3>1. u[k] = m + (k - l) /\ u[j] \in 1..m
        BY <1>5, <1>7, <2>2
    <3> QED
        BY <1>1, <2>2, <3>1
  <2>3. CASE j \in (l + 1)..(l + n) /\ k \in (l + 1)..(l + n)
    <3>1. u[k] = m + (k - l) /\ u[j] = m + (j - l)
        BY <1>5, <2>3
    <3> QED
        BY <1>1, <1>9, <3>1
  <2> QED
      BY <1>1, <1>9, <2>1, <2>2, <2>3
<1> QED
    BY <1>3, <1>4, <1>5, <1>6, <1>8, <1>9 DEF l, Extended

LEMMA UsercmdsOfPacket ==
  ASSUME Inv, NEW p \in Packets, Truthful(p), state \in {"CS_PRIMED", "CS_ACTIVE"},
         SV_UserMove(p), lastClientCommand <= lastClientCommand',
         lastClientCommand' \in Nat, p.last <= lastClientCommand',
         UNCHANGED <<cmdNumber, stamps>>,
         state = "CS_ACTIVE" /\ ~missing' => ~missing /\ p.from <= lastUsercmd + 1
  PROVE  /\ state' \in {"CS_PRIMED", "CS_ACTIVE"} /\ lastUsercmd' \in Nat /\ begun' \in Nat
         /\ thought' \in Seq(Nat)
         /\ Thought' /\ CommandsBeforeUsercmds' /\ UsercmdsSurvive'
         /\ state' = "CS_ACTIVE" /\ ~missing' => p.to <= lastUsercmd'
<1> DEFINE from == p.from
           to == p.to
           last == lastUsercmd
<1>1. /\ from \in Nat /\ to \in Nat /\ from \in 1..(to + 1) /\ to <= cmdNumber
      /\ p.last \in Nat /\ \A j \in 1..to : stamps[j] <= p.last
    BY DEF Packets, Truthful
<1>2. /\ last \in Nat /\ cmdNumber \in Nat /\ thought \in Seq(Nat) /\ begun \in Nat
      /\ lastClientCommand \in Nat /\ stamps \in Seq(Nat) /\ Len(stamps) = cmdNumber
      /\ Thought /\ CommandsBeforeUsercmds /\ UsercmdsSurvive
      /\ state = "CS_ACTIVE" /\ ~missing' => ~missing /\ from <= last + 1
    BY DEF Inv, IInv, TypeOK
<1>3. ASSUME UNCHANGED thought, NEW k \in 1..Len(thought)
      PROVE  stamps[thought[k]] <= lastClientCommand'
  <2>1. thought[k] \in 1..Len(stamps) /\ stamps[thought[k]] <= lastClientCommand
      BY <1>2 DEF Thought, CommandsBeforeUsercmds
  <2>2. stamps[thought[k]] \in Nat
      BY <1>2, <2>1
  <2> QED
      BY <1>2, <2>1, <2>2, AtMost
<1>4. CASE from > to
  <2>1. UNCHANGED <<state, lastUsercmd, begun, thought>>
      BY <1>4 DEF SV_UserMove
  <2> HIDE DEF from, to
  <2>2. state = "CS_ACTIVE" /\ ~missing' => ~missing /\ to <= last
      BY <1>1, <1>2, <1>4
  <2>3. Thought'
      BY <1>2, <2>1, <2>2 DEF Thought
  <2>4. CommandsBeforeUsercmds'
      BY <1>3, <2>1 DEF CommandsBeforeUsercmds
  <2>5. UsercmdsSurvive'
      BY <1>2, <2>1, <2>2 DEF UsercmdsSurvive, Thought
  <2> QED
      BY <1>2, <2>1, <2>2, <2>3, <2>4, <2>5 DEF to
<1>5. CASE from <= to
  <2> DEFINE entered == IF state = "CS_PRIMED" THEN from ELSE last
             new == IF from > entered THEN from ELSE entered + 1
             start == IF state = "CS_PRIMED" THEN from ELSE begun
  <2>1. /\ state' = "CS_ACTIVE" /\ begun' = start
        /\ thought' = thought \o [k \in 1..(to - new + 1) |-> new + k - 1]
        /\ lastUsercmd' = IF to >= new THEN to ELSE entered
    <3>1. ~(p.from > p.to)
        BY <1>1, <1>5
    <3> QED
        BY <3>1 DEF SV_UserMove
  <2> HIDE DEF from, to
  <2>2. /\ entered \in Nat /\ new \in Nat \ {0} /\ start \in Nat /\ entered < new
        /\ state = "CS_PRIMED" => entered = from /\ new = from + 1 /\ start = from /\ thought = <<>>
        /\ state = "CS_ACTIVE" => entered = last /\ start = begun
        /\ state = "CS_ACTIVE" /\ ~missing' => new = last + 1
        /\ entered <= cmdNumber
    <3>1. CASE state = "CS_PRIMED"
        BY <1>1, <1>2, <1>5, <3>1 DEF Thought
    <3>2. CASE state = "CS_ACTIVE"
        BY <1>1, <1>2, <1>5, <3>2 DEF Thought
    <3> QED
        BY <3>1, <3>2
  <2> HIDE DEF entered, new, start
  <2>3. \A k \in 1..Len(thought) : thought[k] \in 1..entered
      BY <1>2, <2>2 DEF Thought
  <2>4. ~missing' => start + Len(thought) = entered
    <3>1. CASE state = "CS_PRIMED"
        BY <1>2, <2>2, <3>1
    <3>2. CASE state = "CS_ACTIVE"
        BY <1>2, <2>2, <3>2 DEF Thought
    <3> QED
        BY <3>1, <3>2
  <2>5. CASE to < new
    <3>1. thought' = thought /\ lastUsercmd' = entered
      <4>1. [k \in 1..(to - new + 1) |-> new + k - 1] = <<>>
          BY <1>1, <2>2, <2>5
      <4>2. thought \o <<>> = thought
          BY <1>2, ConcatEmptySeq
      <4>3. ~(to >= new)
          BY <1>1, <2>2, <2>5
      <4> QED
          BY <2>1, <4>1, <4>2, <4>3
    <3>2. Thought'
        BY <1>2, <2>1, <2>2, <2>3, <2>4, <3>1 DEF Thought
    <3>3. CommandsBeforeUsercmds'
        BY <1>3, <3>1 DEF CommandsBeforeUsercmds
    <3>4. UsercmdsSurvive'
      <4>1. ~missing' => \A k \in 1..Len(thought) : thought[k] = start + k
        <5>1. CASE state = "CS_PRIMED"
            BY <2>2, <5>1
        <5>2. CASE state = "CS_ACTIVE"
            BY <1>2, <2>2, <5>2 DEF UsercmdsSurvive
        <5> QED
            BY <5>1, <5>2
      <4> QED
          BY <1>2, <2>1, <3>1, <4>1 DEF UsercmdsSurvive
    <3>5. ~missing' => to <= entered
        BY <1>1, <1>2, <2>2, <2>5
    <3> QED
        BY <1>2, <2>1, <2>2, <3>1, <3>2, <3>3, <3>4, <3>5 DEF to
  <2>6. CASE new <= to
    <3> DEFINE u == thought'
               l == Len(thought)
    <3>1. lastUsercmd' = to /\ l \in Nat
        BY <1>1, <1>2, <2>1, <2>2, <2>6
    <3>2. /\ \A k \in 1..l : thought[k] \in 1..(new - 1)
          /\ \A j, k \in 1..l : j < k => thought[j] < thought[k]
      <4>1. \A k \in 1..l : thought[k] \in 1..(new - 1)
          BY <2>2, <2>3
      <4> QED
          BY <1>2, <4>1 DEF UsercmdsSurvive
    <3>3. /\ u \in Seq(Nat) /\ Len(u) = l + (to - new + 1)
          /\ \A k \in 1..l : u[k] = thought[k]
          /\ \A k \in (l + 1)..Len(u) : u[k] = new + (k - l) - 1
          /\ \A k \in 1..Len(u) : u[k] \in 1..to
          /\ \A j, k \in 1..Len(u) : j < k => u[j] < u[k]
      <4>1. Extends(thought, new - 1, to, thought')
        <5>1. new - 1 \in Nat /\ new - 1 <= to /\ \A k \in Int : (new - 1) + k = new + k - 1
            BY <1>1, <2>2, <2>6
        <5>2. thought' = thought \o [k \in 1..(to - (new - 1)) |-> (new - 1) + k]
          <6>1. to - (new - 1) = to - new + 1
              BY <1>1, <2>2
          <6>2. [k \in 1..(to - (new - 1)) |-> (new - 1) + k] = [k \in 1..(to - new + 1) |-> new + k - 1]
              BY <5>1, <6>1
          <6> QED
              BY <2>1, <6>2
        <5> QED
            BY <1>1, <1>2, <3>2, <5>1, <5>2 DEF Extends
      <4>2. Extended(thought, new - 1, to, thought')
          BY <4>1, ExtendedAsItShould
      <4> QED
          BY <1>1, <2>2, <4>2 DEF Extended
    <3> HIDE DEF u, l
    <3>4. Thought'
      <4>1. ~missing' => to = start + Len(u)
        <5>1. ~missing' => new = entered + 1
            BY <1>1, <2>2
        <5>2. ~missing' => start + l = entered
            BY <2>4 DEF l
        <5>3. start \in Nat /\ entered \in Nat /\ Len(u) = l + (to - new + 1)
            BY <2>2, <3>3
        <5> QED
            BY <1>1, <3>1, <5>1, <5>2, <5>3
      <4> QED
          BY <1>1, <1>2, <2>1, <3>1, <3>3, <4>1 DEF Thought, u
    <3>5. CommandsBeforeUsercmds'
      <4> SUFFICES ASSUME NEW k \in 1..Len(u) PROVE stamps[u[k]] <= lastClientCommand'
          BY DEF CommandsBeforeUsercmds, u
      <4>1. u[k] \in 1..to /\ u[k] \in 1..Len(stamps)
          BY <1>1, <1>2, <3>3
      <4>2. stamps[u[k]] \in Nat /\ stamps[u[k]] <= p.last
        <5>1. PICK j : j = u[k] /\ j \in 1..to /\ j \in 1..Len(stamps)
            BY <4>1
        <5>2. stamps[j] \in Nat /\ stamps[j] <= p.last
            BY <1>1, <1>2, <5>1
        <5> QED
            BY <5>1, <5>2
      <4> QED
          BY <1>1, <4>2, AtMost
    <3>6. UsercmdsSurvive'
      <4>1. ASSUME ~missing', NEW k \in 1..Len(u) PROVE u[k] = start + k
        <5>1. CASE k \in 1..l
          <6>1. state = "CS_ACTIVE" /\ ~missing /\ start = begun
              BY <1>2, <2>2, <4>1, <5>1 DEF l
          <6> QED
              BY <1>2, <3>3, <5>1, <6>1 DEF UsercmdsSurvive, l
        <5>2. CASE k \in (l + 1)..Len(u)
          <6>1. u[k] = new + (k - l) - 1 /\ new = entered + 1 /\ start + l = entered
              BY <1>1, <2>2, <2>4, <3>3, <4>1, <5>2 DEF l
          <6> QED
              BY <2>2, <3>1, <3>3, <5>2, <6>1
        <5> QED
            BY <1>1, <2>2, <3>1, <3>3, <5>1, <5>2
      <4> QED
          BY <2>1, <3>3, <4>1 DEF UsercmdsSurvive, u
    <3> QED
        BY <1>1, <2>1, <2>2, <3>1, <3>3, <3>4, <3>5, <3>6 DEF u, to
  <2> QED
      BY <1>1, <2>2, <2>5, <2>6
<1> QED
    BY <1>1, <1>4, <1>5

(* What is executed of a packet, or nothing.                               *)
Served ==
    /\ state' \in States /\ lastUsercmd' \in Nat /\ begun' \in Nat /\ thought' \in Seq(Nat)
    /\ lostCommands' = lostCommands
    /\ lastClientCommand' \in Nat /\ lastClientCommand <= lastClientCommand'
    /\ lastClientCommand' <= reliableSequence
    /\ executed' \in Seq(Nat) /\ ExecutedInOrder'
    /\ Thought' /\ CommandsBeforeUsercmds' /\ UsercmdsSurvive'
    /\ state' = "CS_ACTIVE" /\ ~missing' => toServer[1].to <= lastUsercmd'
    /\ ~Broken => \/ executed' = executed
                  \/ \E n \in 1..(reliableSequence - Len(executed)) :
                        executed' = executed \o [k \in 1..n |-> Len(executed) + k]

LEMMA PacketIsServed ==
  ASSUME Inv, SV_ExecuteClientMessage
  PROVE  Served
<1>1. PICK p : p = Head(toServer)
    OBVIOUS
<1>2. /\ toServer # <<>> /\ toServer' = Tail(toServer)
      /\ UNCHANGED <<connected, reliableSequence, reliableAcknowledge, reliableCommands,
                     farewell, cmdNumber, outPackets, stamps, toClient>>
      /\ missing' = (missing \/ lostInRow > cl_packetdup \/ ~p.whole)
      /\ state # "CS_FREE"
    BY <1>1 DEF SV_ExecuteClientMessage, clientVars
<1>3. /\ p \in Packets /\ p = toServer[1] /\ Truthful(p) /\ 1 \in 1..Len(toServer)
  <2>1. toServer \in Seq(Packets)
      BY DEF Inv, IInv, TypeOK
  <2>2. 1 \in 1..Len(toServer) /\ p = toServer[1] /\ p \in Packets
      BY <1>1, <1>2, <2>1
  <2> QED
      BY <2>2 DEF Inv, PacketsTruthful, AllTruthful
<1>4. /\ lastClientCommand \in Nat /\ reliableSequence \in Nat /\ lastClientCommand <= reliableSequence
      /\ executed \in Seq(Nat) /\ Len(executed) = lastClientCommand
      /\ state \in States /\ lastUsercmd \in Nat /\ begun \in Nat /\ thought \in Seq(Nat)
      /\ missing \in BOOLEAN
    BY DEF Inv, IInv, TypeOK, NoneLost, ExecutedInOrder
<1>5. Broken' <=> Broken
    BY <1>2 DEF Broken, N
<1>6. CASE state = "CS_ZOMBIE" /\ UNCHANGED serverVars
  <2>1. UNCHANGED <<state, lostCommands, lastClientCommand, executed, lastUsercmd, begun, thought>>
      BY <1>6 DEF serverVars
  <2>2. ExecutedInOrder' /\ CommandsBeforeUsercmds'
      BY <1>2, <1>5, <2>1 DEF Inv, ExecutedInOrder, CommandsBeforeUsercmds
  <2>3. Thought'
      BY <1>2, <1>6, <2>1 DEF Inv, Thought
  <2>4. UsercmdsSurvive'
      BY <1>2, <2>1 DEF Inv, UsercmdsSurvive
  <2> QED
      BY <1>4, <1>6, <2>1, <2>2, <2>3, <2>4 DEF Served
<1>7. CASE ~(state = "CS_ZOMBIE" /\ UNCHANGED serverVars)
  <2>1. ~LosesCommands(p)
    <3>1. p.first \in Nat /\ p.first <= lastClientCommand + 1
        BY <1>3 DEF Packets, Truthful
    <3> QED
        BY <1>4, <3>1 DEF LosesCommands
  <2>2. PICK last \in lastClientCommand..p.last :
           /\ state # "CS_ZOMBIE" /\ lostCommands' = lostCommands
           /\ ExecuteCommands(p, last)
           /\ \/ /\ last \in Due(p) /\ IsFarewell(p, last)
                 /\ state' = "CS_ZOMBIE"
                 /\ UNCHANGED <<lastUsercmd, begun, thought>>
              \/ /\ ~(last \in Due(p) /\ IsFarewell(p, last))
                 /\ SV_UserMove(p)
      BY <1>1, <1>7, <2>1 DEF SV_ExecuteClientMessage
  <2>3. /\ lastClientCommand' = last /\ last \in Nat /\ lastClientCommand <= last
        /\ last <= reliableSequence
        /\ executed' \in Seq(Nat) /\ Len(executed') = last
        /\ ~Broken => \A k \in 1..last : executed'[k] = k
        /\ ~(last \in Due(p) /\ IsFarewell(p, last)) => p.last <= last
        /\ ~Broken => executed' = executed \o [k \in 1..(last - lastClientCommand) |-> Len(executed) + k]
      BY <1>3, <2>2, CommandsOfPacket
  <2>4. ExecutedInOrder'
      BY <1>5, <2>3 DEF ExecutedInOrder
  <2>5. ~Broken => \/ executed' = executed
                   \/ \E n \in 1..(reliableSequence - Len(executed)) :
                        executed' = executed \o [k \in 1..n |-> Len(executed) + k]
    <3> SUFFICES ASSUME ~Broken
                 PROVE  \/ executed' = executed
                        \/ \E n \in 1..(reliableSequence - Len(executed)) :
                              executed' = executed \o [k \in 1..n |-> Len(executed) + k]
        OBVIOUS
    <3>1. PICK n : n = last - lastClientCommand
        OBVIOUS
    <3>2. executed' = executed \o [k \in 1..n |-> Len(executed) + k]
        BY <2>3, <3>1
    <3>3. CASE n = 0
      <4>1. [k \in 1..n |-> Len(executed) + k] = <<>>
          BY <3>3
      <4> QED
          BY <1>4, <3>2, <4>1, ConcatEmptySeq
    <3>4. CASE n # 0
      <4>1. n \in 1..(reliableSequence - Len(executed))
          BY <1>4, <2>3, <3>1, <3>4
      <4> QED
          BY <3>2, <4>1
    <3> QED
        BY <3>3, <3>4
  <2>6. CASE state' = "CS_ZOMBIE" /\ UNCHANGED <<lastUsercmd, begun, thought>>
    <3>1. Thought'
        BY <1>2, <2>6 DEF Inv, Thought
    <3>2. UsercmdsSurvive'
        BY <1>2, <2>6 DEF Inv, UsercmdsSurvive
    <3>3. CommandsBeforeUsercmds'
      <4> SUFFICES ASSUME NEW k \in 1..Len(thought) PROVE stamps[thought[k]] <= last
          BY <1>2, <2>3, <2>6 DEF CommandsBeforeUsercmds
      <4>1. PICK j : j = thought[k] /\ j \in 1..Len(stamps) /\ stamps \in Seq(Nat)
        <5>1. thought[k] \in 1..lastUsercmd /\ lastUsercmd <= cmdNumber
            BY DEF Inv, Thought
        <5>2. cmdNumber \in Nat /\ Len(stamps) = cmdNumber /\ stamps \in Seq(Nat)
            BY DEF Inv, IInv, TypeOK
        <5> QED
            BY <1>4, <5>1, <5>2
      <4>2. stamps[j] \in Nat /\ stamps[j] <= lastClientCommand
          BY <4>1 DEF Inv, CommandsBeforeUsercmds
      <4> QED
          BY <1>4, <2>3, <4>1, <4>2, AtMost
    <3>4. state' \in States /\ state' # "CS_ACTIVE"
        BY <2>6 DEF States
    <3> QED
        BY <1>4, <2>2, <2>3, <2>4, <2>5, <2>6, <3>1, <3>2, <3>3, <3>4 DEF Served
  <2>7. CASE ~(last \in Due(p) /\ IsFarewell(p, last)) /\ SV_UserMove(p)
    <3>1. state \in {"CS_PRIMED", "CS_ACTIVE"}
        BY <1>2, <1>4, <2>2 DEF States
    <3>2. p.last <= lastClientCommand' /\ lastClientCommand' \in Nat /\ lastClientCommand <= lastClientCommand'
        BY <2>3, <2>7
    <3>3. state = "CS_ACTIVE" /\ ~missing' => ~missing /\ p.from <= lastUsercmd + 1
      <4> SUFFICES ASSUME state = "CS_ACTIVE", ~missing'
                   PROVE  ~missing /\ p.from <= lastUsercmd + 1
          OBVIOUS
      <4>1. ~missing /\ ~(lostInRow > cl_packetdup) /\ p.whole
          BY <1>2
      <4>2. lostInRow + 1 <= Dup
        <5>1. lostInRow \in Nat
            BY DupIsPositive DEF Inv, IInv, TypeOK
        <5> QED
            BY <4>1, <5>1, DupIsPositive DEF Dup
      <4>3. Reaches(toServer, outPackets, lostInRow, lastUsercmd)
          BY <4>1 DEF Inv, InReach
      <4> QED
          BY <1>3, <4>1, <4>2, <4>3 DEF Reaches
    <3>4. UNCHANGED <<cmdNumber, stamps>>
        BY <1>2
    <3>5. /\ state' \in {"CS_PRIMED", "CS_ACTIVE"} /\ lastUsercmd' \in Nat /\ begun' \in Nat
          /\ thought' \in Seq(Nat)
          /\ Thought' /\ CommandsBeforeUsercmds' /\ UsercmdsSurvive'
          /\ state' = "CS_ACTIVE" /\ ~missing' => p.to <= lastUsercmd'
        BY <1>3, <2>7, <3>1, <3>2, <3>3, <3>4, UsercmdsOfPacket
    <3>6. state' \in States
        BY <3>5 DEF States
    <3> QED
        BY <1>3, <2>2, <2>3, <2>4, <2>5, <3>5, <3>6 DEF Served
  <2> QED
      BY <2>2, <2>6, <2>7
<1> QED
    BY <1>6, <1>7

LEMMA ExecuteStep ==
  ASSUME Inv, SV_ExecuteClientMessage
  PROVE  Inv'
<1>1. Served
    BY PacketIsServed
<1>2. /\ toServer # <<>> /\ toServer' = Tail(toServer) /\ lostInRow' = 0
      /\ UNCHANGED <<connected, reliableSequence, reliableAcknowledge, reliableCommands,
                     farewell, cmdNumber, outPackets, stamps, toClient>>
      /\ missing' \in BOOLEAN
    BY DEF SV_ExecuteClientMessage, clientVars
<1>3. TypeOK'
  <2>1. toServer' \in Seq(Packets)
    <3>1. toServer \in Seq(Packets)
        BY DEF Inv, IInv, TypeOK
    <3> QED
        BY <1>2, <3>1
  <2>2. lostInRow' \in 0..(cl_packetdup + 1)
      BY <1>2, DupIsPositive
  <2> QED
      BY <1>1, <1>2, <2>1, <2>2 DEF Inv, IInv, TypeOK, Served
<1>4. PICK q, out, r : q = toServer /\ out = outPackets /\ r = toServer'
    OBVIOUS
<1>5. /\ PacketsTruthful' /\ Follows(toServer, outPackets)'
      /\ \A last \in Nat : q[1].to <= last => Reaches(r, out, 0, last)
    BY <1>1, <1>2, <1>3, <1>4, OneFewer DEF Served
<1>6. InReach'
  <2> SUFFICES ASSUME state' = "CS_ACTIVE", ~missing'
               PROVE  Reaches(toServer, outPackets, lostInRow, lastUsercmd)'
      BY DEF InReach
  <2>1. PICK last \in Nat : last = lastUsercmd'
      BY <1>1 DEF Served
  <2>2. q[1].to <= last
      BY <1>1, <1>4, <2>1 DEF Served
  <2>3. Reaches(r, out, 0, last)
      BY <1>5, <2>2
  <2> QED
      BY <1>2, <1>4, <2>1, <2>3 DEF Reaches, Dup
<1>7. NoneLost'
  <2>1. reliableAcknowledge \in Nat /\ lastClientCommand \in Nat /\ lastClientCommand' \in Nat
        /\ reliableAcknowledge <= lastClientCommand /\ ~lostCommands
      BY <1>1 DEF Served, Inv, IInv, TypeOK, NoneLost
  <2> QED
      BY <1>1, <1>2, <2>1 DEF Served, NoneLost
<1>8. RingKeeps' /\ Ends'
    BY <1>2 DEF Inv, IInv, RingKeeps, Ends, Slot, N
<1>9. AcksInOrder'
  <2>1. ASSUME NEW k \in 1..Len(toClient) PROVE toClient[k] <= lastClientCommand'
    <3>1. toClient[k] \in Nat /\ toClient[k] <= lastClientCommand /\ lastClientCommand \in Nat
        BY DEF Inv, IInv, TypeOK, AcksInOrder
    <3> QED
        BY <1>1, <3>1 DEF Served
  <2> QED
      BY <1>2, <2>1 DEF Inv, AcksInOrder
<1>10. Created'
    BY <1>2 DEF Inv, Created, Dup
<1> QED
    BY <1>1, <1>3, <1>5, <1>6, <1>7, <1>8, <1>9, <1>10 DEF Inv, IInv, Served

-----------------------------------------------------------------------------
LEMMA NextInv ==
  ASSUME Inv, [Next]_vars
  PROVE  Inv'
<1>1. CASE CL_AddReliableCommand
  <2>1. CASE RingFull
      BY <1>1, <2>1, DisconnectStep DEF CL_AddReliableCommand
  <2> QED
      BY <1>1, <2>1, AddStep
<1>2. CASE UNCHANGED vars
  <2>1. UNCHANGED <<connected, reliableSequence, reliableAcknowledge, reliableCommands,
                    farewell, cmdNumber, outPackets, stamps, state, lostCommands,
                    lastClientCommand, executed, lastUsercmd, begun, thought, toServer, toClient,
                    lostInRow, missing>>
      BY <1>2 DEF vars, clientVars, serverVars, netVars
  <2>2. TypeOK'
      BY <2>1 DEF Inv, IInv, TypeOK
  <2>3. NoneLost' /\ RingKeeps' /\ Ends' /\ ExecutedInOrder' /\ PacketsTruthful' /\ AcksInOrder'
      BY <2>1 DEF Inv, IInv, NoneLost, RingKeeps, Ends, ExecutedInOrder, PacketsTruthful,
         AllTruthful, Truthful, Text, Slot, Broken, N, AcksInOrder
  <2>4. Created' /\ Thought' /\ CommandsBeforeUsercmds' /\ UsercmdsSurvive'
      BY <2>1 DEF Inv, Created, Thought, CommandsBeforeUsercmds, UsercmdsSurvive, Dup
  <2>5. Follows(toServer, outPackets)' /\ InReach'
      BY <2>1 DEF Inv, Follows, InReach, Reaches, Dup
  <2> QED
      BY <2>2, <2>3, <2>4, <2>5 DEF Inv, IInv
<1> QED
    BY <1>1, <1>2, CreateStep, WriteStep, ParseStep, DisconnectStep, ExecuteStep, SnapshotStep,
       TimeoutStep, LoseStep DEF Next

(* No client is dropped for having lost its commands, no usercmd is        *)
(* executed before a command given earlier, and none is executed twice, out*)
(* of order or - unless too many packets are lost - left out; whatever the *)
(* sizes, and however many packets are lost.                               *)
THEOREM Invariance == Spec => []Inv
<1>1. Init => Inv
    BY InitInv
<1>2. Inv /\ [Next]_vars => Inv'
    BY NextInv
<1> QED
    BY <1>1, <1>2, PTL DEF Spec

(* No client is dropped for having lost its commands, and it holds every   *)
(* command the server has not acknowledged (CL_WritePacket,                *)
(* SV_ClientCommand).                                                      *)
THEOREM CommandsArrive == Spec => []IInv
<1>1. Inv => IInv
    BY DEF Inv
<1> QED
    BY <1>1, Invariance, PTL

(* The promise in the comment of SV_ExecuteClientMessage: no usercmd is    *)
(* executed before a command that was given earlier.                       *)
THEOREM UsercmdsFollowCommands == Spec => []CommandsBeforeUsercmds
<1>1. Inv => CommandsBeforeUsercmds
    BY DEF Inv
<1> QED
    BY <1>1, Invariance, PTL

(* SV_UserMove executes no usercmd twice or out of order, and leaves none  *)
(* out that cl_packetdup makes up for.                                     *)
THEOREM NoUsercmdLeftOut == Spec => []UsercmdsSurvive
<1>1. Inv => UsercmdsSurvive
    BY DEF Inv
<1> QED
    BY <1>1, Invariance, PTL

(* The client's commands are a reliable stream, until "disconnect" is put  *)
(* in a full ring.                                                         *)
THEOREM Refinement == Spec => ImplementsStream
<1>1. Init => Stream!Init
  <2> SUFFICES ASSUME Init PROVE Stream!Init
      OBVIOUS
  <2>1. ~(reliableSequence - reliableAcknowledge > N)
      BY SizeIsPositive DEF Init
  <2> QED
      BY <2>1 DEF Init, Stream!Init
<1>2. ASSUME Inv, [Next]_vars PROVE [Stream!Next]_(Stream!vars)
  <2> USE DEF Stream!Next, Stream!vars
  <2>1. /\ reliableSequence \in Nat /\ reliableAcknowledge \in Nat /\ N \in Nat
        /\ reliableAcknowledge <= reliableSequence
        /\ Broken \in BOOLEAN /\ Broken' \in BOOLEAN
      BY <1>2, SizeIsPositive DEF Inv, IInv, TypeOK, NoneLost, Broken
  <2>2. CASE CL_AddReliableCommand \/ CL_Disconnect
    <3>1. reliableSequence' = reliableSequence + 1 /\ UNCHANGED <<reliableAcknowledge, executed>>
        BY <2>2 DEF CL_AddReliableCommand, CL_Disconnect, serverVars
    <3>2. reliableSequence' \in Nat /\ reliableSequence' > reliableSequence /\ (Broken => Broken')
        BY <2>1, <3>1 DEF Broken, N
    <3>3. Broken' \in {Broken, TRUE}
        BY <2>1, <3>2
    <3> QED
        BY <3>1, <3>2, <3>3 DEF Stream!Give, Broken
  <2>3. CASE SV_ExecuteClientMessage
    <3>1. UNCHANGED <<reliableSequence, reliableAcknowledge>> /\ (Broken' <=> Broken)
        BY <2>3 DEF SV_ExecuteClientMessage, clientVars, Broken, N
    <3>2. CASE Broken
        BY <3>1, <3>2 DEF Stream!Broken, Broken
    <3>3. CASE ~Broken /\ executed' = executed
        BY <3>1, <3>3 DEF Broken
    <3>4. CASE ~Broken /\ executed' # executed
      <4>1. PICK n \in 1..(reliableSequence - Len(executed)) :
               executed' = executed \o [k \in 1..n |-> Len(executed) + k]
          BY <1>2, <2>3, <3>4, PacketIsServed DEF Served
      <4>2. Stream!Execute(n)
          BY <3>1, <3>4, <4>1 DEF Stream!Execute, Broken
      <4> QED
          BY <4>1, <4>2
    <3> QED
        BY <3>2, <3>3, <3>4
  <2>4. CASE CL_ParseServerMessage
    <3>1. UNCHANGED <<reliableSequence, executed>> /\ ~Broken /\ ~Broken'
        BY <1>2, <2>4, ParseStep DEF CL_ParseServerMessage, serverVars
    <3> QED
        BY <3>1 DEF Broken
  <2>5. CASE \/ CL_CreateNewCommands \/ CL_WritePacket \/ SV_SendClientSnapshot
             \/ SV_CheckTimeouts \/ Lose \/ UNCHANGED vars
    <3>1. UNCHANGED <<reliableSequence, reliableAcknowledge, executed>>
        BY <2>5 DEF CL_CreateNewCommands, CL_WritePacket, SV_SendClientSnapshot, SV_CheckTimeouts,
           Lose, vars, clientVars, serverVars, netVars
    <3> QED
        BY <3>1 DEF N
  <2> QED
      BY <1>2, <2>2, <2>3, <2>4, <2>5 DEF Next
<1> QED
    BY <1>1, <1>2, Invariance, PTL DEF Spec, Stream!Spec, ImplementsStream
=============================================================================
