---------------------------- MODULE NetchanProofs ----------------------------
(***************************************************************************)
(* Proofs about Netchan, for every fragment size, buffer size, set of      *)
(* lengths and number of messages and connections.                         *)
(***************************************************************************)
EXTENDS Netchan, Remainders, SequenceTheorems, TLAPS

(* Challenges are numbers.                                                 *)
LEMMA EpochsAreNumbers == Epochs \subseteq Nat
BY SizesAssumption DEF Epochs

LEMMA HistoryIsSeq ==
  ASSUME NEW h \in [Epochs -> Seq(Lengths)], NEW c \in Epochs
  PROVE  h[c] \in Seq(Lengths) /\ Len(h[c]) \in Nat
<1>1. h[c] \in Seq(Lengths)
    OBVIOUS
<1> QED
    BY <1>1

(* The messages that have begun to go out are some of those handed over.   *)
LEMMA StartedSent ==
  ASSUME TypeOK, SenderInOrder, NEW c \in Epochs
  PROVE  /\ Started(c) \in Nat /\ Len(sent[c]) \in Nat
         /\ Started(c) <= Len(sent[c])
<1>1. /\ Len(sent[c]) \in Nat /\ Len(sent[challenge]) \in Nat /\ Len(queue) \in Nat
      /\ outgoingSequence \in Nat \ {0} /\ Unfinished \in {0, 1}
    BY HistoryIsSeq DEF TypeOK, Unfinished
<1>2. outgoingSequence + Unfinished + Len(queue) = Len(sent[challenge]) + 1
    BY DEF SenderInOrder
<1> QED
    BY <1>1, <1>2 DEF Started

(* They are never forgotten. *)
SentGrows ==
    \A c \in Epochs :
       /\ Started(c) \in Nat /\ Started(c)' \in Nat
       /\ Started(c) <= Started(c)'
       /\ \A k \in 1..Started(c) : sent'[c][k] = sent[c][k]

SentKept ==
    /\ challenge' = challenge
    /\ \A c \in Epochs : c # challenge => sent'[c] = sent[c]
    /\ \A k \in 1..Started(challenge) : sent'[challenge][k] = sent[challenge][k]

LEMMA OneLess ==
  ASSUME NEW a \in Nat \ {0}, NEW b \in Nat \ {0}, NEW f \in Nat, NEW g \in Nat,
         NEW x, x = a + f - 1, NEW y, y = b + g - 1
  PROVE  /\ y \in Nat
         /\ a + f <= b + g => x <= y
         /\ b + g = a + 1 => y = a
OBVIOUS

LEMMA KeptGrows ==
  ASSUME TypeOK, SenderInOrder, SentKept, sent' \in [Epochs -> Seq(Lengths)],
         outgoingSequence' \in Nat \ {0}, unsentFragments' \in BOOLEAN,
         outgoingSequence + Unfinished <= outgoingSequence' + Unfinished'
  PROVE  SentGrows
<1> SUFFICES ASSUME NEW c \in Epochs
             PROVE  /\ Started(c) \in Nat /\ Started(c)' \in Nat
                    /\ Started(c) <= Started(c)'
                    /\ \A k \in 1..Started(c) : sent'[c][k] = sent[c][k]
    BY DEF SentGrows
<1>1. Started(c) \in Nat /\ Started(c) <= Len(sent[c])
    BY StartedSent
<1>2. /\ outgoingSequence \in Nat \ {0} /\ Unfinished \in {0, 1} /\ Unfinished' \in {0, 1}
      /\ challenge' = challenge /\ Len(sent[c]) \in Nat
    BY HistoryIsSeq DEF TypeOK, SentKept, Unfinished
<1>3. CASE c = challenge
  <2>1. /\ Started(c) = outgoingSequence + Unfinished - 1
        /\ Started(c)' = outgoingSequence' + Unfinished' - 1
      BY <1>2, <1>3 DEF Started
  <2>2. \A k \in 1..Started(c) : sent'[c][k] = sent[c][k]
      BY <1>3 DEF SentKept
  <2>3. Started(c) <= Started(c)' /\ Started(c)' \in Nat
    <3>1. PICK a, b, f, g, x, y : /\ a = outgoingSequence /\ b = outgoingSequence'
                                  /\ f = Unfinished /\ g = Unfinished'
                                  /\ x = Started(c) /\ y = Started(c)'
        OBVIOUS
    <3>2. a \in Nat \ {0} /\ b \in Nat \ {0} /\ f \in Nat /\ g \in Nat
        BY <1>2, <3>1
    <3>5. a + f <= b + g
        BY <3>1, Zenon
    <3>3. x = a + f - 1 /\ y = b + g - 1
        BY <2>1, <3>1
    <3>4. x <= y /\ y \in Nat
        BY ONLY <3>2, <3>3, <3>5, OneLess
    <3> QED
        BY <3>1, <3>4
  <2> QED
      BY <1>1, <2>2, <2>3
<1>4. CASE c # challenge
  <2>1. Started(c) = Len(sent[c]) /\ Started(c)' = Len(sent'[c]) /\ sent'[c] = sent[c]
      BY <1>2, <1>4 DEF Started, SentKept
  <2> QED
      BY <1>1, <2>1
<1> QED
    BY <1>3, <1>4

LEMMA AppendKeeps ==
  ASSUME TypeOK, SenderInOrder, NEW n \in Lengths, challenge' = challenge,
         sent' = [sent EXCEPT ![challenge] = Append(@, n)]
  PROVE  /\ SentKept
         /\ sent' \in [Epochs -> Seq(Lengths)]
         /\ Len(sent'[challenge]) = Len(sent[challenge]) + 1
         /\ sent'[challenge][Len(sent[challenge]) + 1] = n
         /\ \A k \in 1..Len(sent[challenge]) : sent'[challenge][k] = sent[challenge][k]
         /\ \A c \in Epochs : c # challenge => sent'[c] = sent[c]
<1>1. /\ sent' \in [Epochs -> Seq(Lengths)]
      /\ Len(sent'[challenge]) = Len(sent[challenge]) + 1
      /\ sent'[challenge][Len(sent[challenge]) + 1] = n
      /\ \A k \in 1..Len(sent[challenge]) : sent'[challenge][k] = sent[challenge][k]
      /\ \A c \in Epochs : c # challenge => sent'[c] = sent[c]
    BY DEF TypeOK
<1>2. \A k \in 1..Started(challenge) : k \in 1..Len(sent[challenge])
  <2>1. /\ Started(challenge) \in Nat /\ Len(sent[challenge]) \in Nat
        /\ Started(challenge) <= Len(sent[challenge])
      BY StartedSent DEF TypeOK
  <2> QED
      BY <2>1
<1> QED
    BY <1>1, <1>2 DEF SentKept

LEMMA SameKept ==
  ASSUME sent' = sent, challenge' = challenge
  PROVE  SentKept
BY DEF SentKept

(* A message handed over has a positive length that fits the buffer.       *)
LEMMA LengthFits ==
  ASSUME TypeOK, NEW c \in Epochs, NEW k \in 1..Len(sent[c])
  PROVE  sent[c][k] \in Lengths /\ sent[c][k] \in 1..MAX_MSGLEN
<1>1. sent[c] \in Seq(Lengths)
    BY DEF TypeOK
<1>2. sent[c][k] \in Lengths
    BY <1>1
<1> QED
    BY <1>2, SizesAssumption

(* Packets that were honest stay so while histories grow.                  *)
LEMMA OldPacketsHonest ==
  ASSUME TypeOK, TypeOK', PacketsHonest, SentGrows, challenge <= challenge'
  PROVE  \A p \in net : Honest(p)'
<1> SUFFICES ASSUME NEW p \in net PROVE Honest(p)'
    OBVIOUS
<1>1. /\ p \in Packets
      /\ p.challenge \in Epochs
      /\ p.sequence \in Nat /\ p.start \in Nat /\ p.length \in Nat
    BY DEF TypeOK, Packets
<1>2. /\ p.challenge \in Nat
      /\ challenge \in Nat
      /\ challenge' \in Nat
    BY <1>1, EpochsAreNumbers DEF TypeOK
<1>3. /\ p.challenge <= challenge
      /\ p.sequence \in 1..Started(p.challenge)
    BY DEF PacketsHonest, Honest
<1>4. Started(p.challenge) \in Nat /\ Started(p.challenge)' \in Nat
    BY <1>1 DEF SentGrows
<1>5. p.sequence \in 1..Started(p.challenge)'
    BY <1>1, <1>3, <1>4 DEF SentGrows
<1>6. sent'[p.challenge][p.sequence] = sent[p.challenge][p.sequence]
    BY <1>1, <1>3 DEF SentGrows
<1>7. p.challenge <= challenge'
    BY <1>2, <1>3
<1> QED
    <2>1. Honest(p)
        BY DEF PacketsHonest
    <2> QED
        BY <1>1, <1>5, <1>6, <1>7, <2>1 DEF Honest

(* What the receiver holds stays right while histories grow.               *)
LEMMA ReceiverKeeps ==
  ASSUME TypeOK, TypeOK', SentGrows, challenge <= challenge',
         BufferIsPrefix, DeliveredWhole, UNCHANGED receiverVars
  PROVE  BufferIsPrefix' /\ DeliveredWhole'
<1>0. /\ receiverChallenge \in Epochs
      /\ receiverChallenge \in Nat /\ challenge \in Nat /\ challenge' \in Nat
      /\ receiverChallenge' = receiverChallenge
      /\ Started(receiverChallenge) \in Nat
      /\ Started(receiverChallenge)' \in Nat
    BY EpochsAreNumbers DEF TypeOK, SentGrows, receiverVars
<1>1. BufferIsPrefix'
    <2>1. receiverChallenge <= challenge'
        BY <1>0 DEF BufferIsPrefix
    <2>2. \A k \in 1..Started(receiverChallenge) : k \in 1..Started(receiverChallenge)'
        BY <1>0 DEF SentGrows
    <2>3. (fragmentLength > 0 => fragmentSequence \in 1..Started(receiverChallenge))'
        BY <1>0, <2>2 DEF BufferIsPrefix, receiverVars
    <2>4. (\A i \in Offsets : i < fragmentLength =>
              fragmentBuffer[i] = Byte(receiverChallenge, fragmentSequence, i))'
        BY DEF BufferIsPrefix, receiverVars
    <2> QED
        BY <2>1, <2>3, <2>4 DEF BufferIsPrefix, receiverVars
<1> DEFINE Old == {Message(receiverChallenge, k) : k \in 1..Started(receiverChallenge)}
           New == {Message(receiverChallenge, k) : k \in 1..Started(receiverChallenge)}'
<1>2. \A k \in 1..Started(receiverChallenge) :
         Message(receiverChallenge, k)' = Message(receiverChallenge, k)
    BY <1>0 DEF Message, SentGrows, receiverVars
<1>3. Old \subseteq New
    BY <1>0, <1>2 DEF SentGrows, receiverVars
<1>4. delivered' \in Seq(New)
    <2>1. delivered \in Seq(Old)
        BY DEF DeliveredWhole
    <2> HIDE DEF Old, New
    <2>2. delivered \in Seq(New)
        BY <2>1, <1>3, SeqMonotonic
    <2> QED
        BY <2>2 DEF receiverVars
<1> QED
    BY <1>1, <1>4 DEF DeliveredWhole, receiverVars
-----------------------------------------------------------------------------
(* Sending.                                                                *)

LEMMA PacketTyped ==
  ASSUME NEW c \in Epochs, NEW s \in Nat, NEW f \in BOOLEAN,
         NEW i \in Nat, NEW n \in Nat, NEW m \in Nat
  PROVE  [challenge |-> c, sequence |-> s, fragmented |-> f,
          start |-> i, length |-> n, message |-> m] \in Packets
BY DEF Packets

(* A step of SendPiece for a message in the right place.                   *)
LEMMA SendPieceHonest ==
  ASSUME TypeOK, TypeOK', PacketsHonest, SentGrows, challenge' = challenge,
         NEW length \in Nat, NEW start \in Nat, start <= length,
         outgoingSequence \in 1..Started(challenge)',
         sent'[challenge][outgoingSequence] = length,
         SendPiece(outgoingSequence, length, start)
  PROVE  /\ PacketsHonest'
         /\ unsentFragments' => unsentFragmentStart' <= length
<1> DEFINE n == PieceLength(start, length)
           q == [challenge |-> challenge, sequence |-> outgoingSequence,
                 fragmented |-> TRUE, start |-> start, length |-> n,
                 message |-> outgoingSequence]
<1>1. /\ n \in Nat
      /\ start + n <= length
      /\ n # FRAGMENT_SIZE => start + n = length
    BY SizesAssumption DEF PieceLength
<1>2. challenge \in Nat
    BY EpochsAreNumbers DEF TypeOK
<1> HIDE DEF n
<1>3. \A p : p = q => Honest(p)'
    BY <1>1, <1>2 DEF Honest
<1>4. \A p \in net : Honest(p)'
    BY <1>2, OldPacketsHonest
<1>5. net' = net \cup {q} /\ unsentFragmentStart' = start + n
    BY DEF SendPiece, n
<1> HIDE DEF q
<1>6. PacketsHonest'
    BY <1>3, <1>4, <1>5 DEF PacketsHonest
<1> QED
    BY <1>1, <1>5, <1>6

LEMMA SendWholeHonest ==
  ASSUME TypeOK, TypeOK', PacketsHonest, SentGrows, challenge' = challenge,
         NEW length \in Nat,
         outgoingSequence \in 1..Started(challenge)',
         sent'[challenge][outgoingSequence] = length,
         SendWhole(outgoingSequence, length)
  PROVE  PacketsHonest'
<1> DEFINE q == [challenge |-> challenge, sequence |-> outgoingSequence,
                 fragmented |-> FALSE, start |-> 0, length |-> length,
                 message |-> outgoingSequence]
<1>1. challenge \in Nat
    BY EpochsAreNumbers DEF TypeOK
<1>2. \A p : p = q => Honest(p)'
    BY <1>1 DEF Honest
<1>3. \A p \in net : Honest(p)'
    BY <1>1, OldPacketsHonest
<1>4. net' = net \cup {q}
    BY DEF SendWhole
<1> HIDE DEF q
<1> QED
    BY <1>2, <1>3, <1>4 DEF PacketsHonest
(* What either of them does to the sender's counters, and to their types.  *)
SenderTyped ==
    /\ outgoingSequence \in Nat \ {0}
    /\ unsentFragments \in BOOLEAN
    /\ unsentFragmentStart \in Nat
    /\ unsentMessage \in Nat
    /\ unsentLength \in Nat
    /\ net \subseteq Packets

LEMMA SendPieceCounts ==
  ASSUME TypeOK, NEW length \in Nat, NEW start \in Nat, start <= length,
         NEW m \in Nat, SendPiece(m, length, start)
  PROVE  /\ SenderTyped'
         /\ outgoingSequence' + Unfinished' = outgoingSequence + 1
         /\ unsentFragments' => /\ outgoingSequence' = outgoingSequence
                                /\ unsentMessage' = m
                                /\ unsentLength' = length
<1> DEFINE n == PieceLength(start, length)
<1>1. n \in Nat
    BY SizesAssumption DEF PieceLength
<1> HIDE DEF n
<1>2. net' \subseteq Packets
    <2>1. challenge \in Epochs /\ outgoingSequence \in Nat /\ net \subseteq Packets
          /\ TRUE \in BOOLEAN
        BY DEF TypeOK
    <2>2. net' = net \cup
             {[challenge |-> challenge, sequence |-> outgoingSequence,
               fragmented |-> TRUE, start |-> start, length |-> n, message |-> m]}
        BY DEF SendPiece, n
    <2> QED
        <3>1. [challenge |-> challenge, sequence |-> outgoingSequence,
               fragmented |-> TRUE, start |-> start, length |-> n, message |-> m]
                 \in Packets
            BY <1>1, <2>1, PacketTyped
        <3> QED
            BY <2>1, <2>2, <3>1
<1>3. /\ outgoingSequence' = IF IsLastPiece(start, n, length)
                             THEN outgoingSequence + 1 ELSE outgoingSequence
      /\ unsentFragments' = ~IsLastPiece(start, n, length)
      /\ unsentFragmentStart' = start + n
      /\ unsentMessage' = m
      /\ unsentLength' = length
    BY DEF SendPiece, n
<1>4. outgoingSequence \in Nat \ {0}
    BY DEF TypeOK
<1>5. CASE IsLastPiece(start, n, length)
    <2>1. unsentFragments' = FALSE /\ outgoingSequence' = outgoingSequence + 1
        BY <1>3, <1>5
    <2>2. Unfinished' = 0
        BY <2>1 DEF Unfinished
    <2> QED
        BY <1>1, <1>2, <1>3, <1>4, <2>1, <2>2 DEF SenderTyped
<1>6. CASE ~IsLastPiece(start, n, length)
    <2>1. unsentFragments' = TRUE /\ outgoingSequence' = outgoingSequence
        BY <1>3, <1>6
    <2>2. Unfinished' = 1
        BY <2>1 DEF Unfinished
    <2> QED
        BY <1>1, <1>2, <1>3, <1>4, <2>1, <2>2 DEF SenderTyped
<1> QED
    BY <1>5, <1>6

LEMMA SendWholeCounts ==
  ASSUME TypeOK, NEW length \in Nat, NEW m \in Nat, SendWhole(m, length),
         ~unsentFragments
  PROVE  /\ SenderTyped'
         /\ outgoingSequence' + Unfinished' = outgoingSequence + 1
         /\ ~unsentFragments'
<1>1. /\ challenge \in Epochs /\ outgoingSequence \in Nat /\ net \subseteq Packets
      /\ unsentMessage \in Nat /\ unsentLength \in Nat /\ unsentFragments = FALSE
    BY DEF TypeOK
<1>2. net' \subseteq Packets
    <2>1. 0 \in Nat /\ FALSE \in BOOLEAN
        OBVIOUS
    <2>2. [challenge |-> challenge, sequence |-> outgoingSequence,
           fragmented |-> FALSE, start |-> 0, length |-> length,
           message |-> m] \in Packets
        BY <1>1, <2>1, PacketTyped
    <2> QED
        BY <1>1, <2>2 DEF SendWhole
<1>3. unsentFragments' = FALSE /\ Unfinished' = 0
    BY <1>1 DEF SendWhole, Unfinished
<1>4. /\ outgoingSequence' = outgoingSequence + 1
      /\ unsentFragmentStart' = 0
      /\ unsentMessage' = unsentMessage
      /\ unsentLength' = unsentLength
    BY DEF SendWhole
<1>5. unsentFragments' \in BOOLEAN /\ ~unsentFragments'
    BY <1>3
<1>6. outgoingSequence' \in Nat \ {0} /\ outgoingSequence' + Unfinished' = outgoingSequence + 1
    BY <1>1, <1>3, <1>4
<1>7. unsentFragmentStart' \in Nat /\ unsentMessage' \in Nat /\ unsentLength' \in Nat
    BY <1>1, <1>4
<1> QED
    BY <1>2, <1>5, <1>6, <1>7 DEF SenderTyped

(* Both together: the next message in order is given to Netchan_Transmit.  *)
LEMMA TransmitStep ==
  ASSUME TypeOK, SenderInOrder, PacketsHonest, SentKept, state' = state,
         sent' \in [Epochs -> Seq(Lengths)], ~unsentFragments,
         outgoingSequence \in 1..Len(sent'[challenge]),
         Netchan_Transmit(outgoingSequence, sent'[challenge][outgoingSequence]),
         queue' \in Seq(Nat), UNCHANGED receiverVars
  PROVE  /\ TypeOK'
         /\ PacketsHonest' /\ SentGrows
         /\ outgoingSequence' + Unfinished' = outgoingSequence + 1
         /\ unsentFragments' =>
               /\ outgoingSequence' = outgoingSequence
               /\ unsentMessage' = outgoingSequence
               /\ unsentLength' = sent'[challenge][outgoingSequence]
               /\ unsentFragmentStart' <= unsentLength'
<1> DEFINE length == sent'[challenge][outgoingSequence]
<1>1. length \in Nat
    <2>1. challenge \in Epochs
        BY DEF TypeOK
    <2>2. sent'[challenge] \in Seq(Lengths)
        BY <2>1, HistoryIsSeq
    <2>3. length \in Lengths
        BY <2>2
    <2>4. length \in 1..MAX_MSGLEN
        BY <2>3, SizesAssumption
    <2> QED
        BY <2>4, SizesAssumption
<1>0. outgoingSequence \in Nat \ {0} /\ Unfinished = 0 /\ challenge' = challenge
      /\ challenge \in Epochs
    BY DEF TypeOK, Unfinished, SentKept
<1>2. ASSUME SenderTyped' PROVE TypeOK'
    BY <1>0, <1>2 DEF SenderTyped, TypeOK, receiverVars
<1>5. ASSUME SenderTyped', outgoingSequence' + Unfinished' = outgoingSequence + 1
      PROVE  SentGrows /\ outgoingSequence \in 1..Started(challenge)'
  <2>1. outgoingSequence + Unfinished <= outgoingSequence' + Unfinished'
      BY <1>0, <1>5
  <2>2. SentGrows
      BY <1>5, <2>1, KeptGrows DEF SenderTyped
  <2>3. Started(challenge)' = outgoingSequence
    <3>1. PICK a, b, g, y : /\ a = outgoingSequence /\ b = outgoingSequence'
                            /\ g = Unfinished' /\ y = Started(challenge)'
        OBVIOUS
    <3>2. a \in Nat \ {0} /\ b \in Nat \ {0} /\ g \in Nat /\ b + g = a + 1
        BY <1>0, <1>5, <3>1 DEF SenderTyped, Unfinished
    <3>3. y = b + g - 1
        BY <1>0, <3>1 DEF Started
    <3>4. y = a
        BY ONLY <3>2, <3>3, OneLess
    <3> QED
        BY <3>1, <3>4
  <2> QED
      BY <1>0, <2>2, <2>3
<1> HIDE DEF length
<1>3. CASE SendPiece(outgoingSequence, length, 0)
    <2>1. /\ SenderTyped'
          /\ outgoingSequence' + Unfinished' = outgoingSequence + 1
          /\ unsentFragments' => /\ outgoingSequence' = outgoingSequence
                                 /\ unsentMessage' = outgoingSequence
                                 /\ unsentLength' = length
        BY <1>0, <1>1, <1>3, SendPieceCounts
    <2>2. PacketsHonest' /\ (unsentFragments' => unsentFragmentStart' <= length)
        BY <1>0, <1>1, <1>2, <1>3, <1>5, <2>1, SendPieceHonest DEF length
    <2> QED
        BY <1>2, <1>5, <2>1, <2>2 DEF length
<1>4. CASE SendWhole(outgoingSequence, length)
    <2>1. /\ SenderTyped'
          /\ outgoingSequence' + Unfinished' = outgoingSequence + 1
          /\ ~unsentFragments'
        BY <1>0, <1>1, <1>4, SendWholeCounts
    <2>2. PacketsHonest'
        BY <1>0, <1>1, <1>2, <1>4, <1>5, <2>1, SendWholeHonest DEF length
    <2> QED
        BY <1>2, <1>5, <2>1, <2>2
<1> QED
    BY <1>3, <1>4 DEF Netchan_Transmit, length
-----------------------------------------------------------------------------
(* The inductive invariant, an action at a time.                           *)

LEMMA InitIInv == Init => IInv
<1> SUFFICES ASSUME Init PROVE IInv
    OBVIOUS
<1>1. TypeOK
    <2>1. 1 \in Epochs /\ 0 \in 0..MAX_MSGLEN
        BY SizesAssumption DEF Epochs
    <2>2. NoByte \in Bytes
        BY DEF NoByte, Byte, Bytes
    <2>3. /\ sent \in [Epochs -> Seq(Lengths)]
          /\ queue \in Seq(Nat)
          /\ net \subseteq Packets
        BY DEF Init
    <2>4. fragmentBuffer \in [Offsets -> Bytes]
        BY <2>2 DEF Init
    <2>0. unsentFragments \in BOOLEAN /\ state \in {"connected", "zombie", "free"}
        BY DEF Init
    <2>5. /\ outgoingSequence \in Nat \ {0}
          /\ challenge \in Epochs /\ receiverChallenge \in Epochs
        BY <2>1 DEF Init
    <2>6. /\ unsentFragmentStart \in Nat /\ unsentMessage \in Nat
          /\ unsentLength \in Nat /\ incomingSequence \in Nat
          /\ fragmentSequence \in Nat /\ fragmentLength \in 0..MAX_MSGLEN
        BY <2>1 DEF Init
    <2> QED
        BY <2>0, <2>3, <2>4, <2>5, <2>6 DEF TypeOK
<1>2. SenderInOrder
    BY <1>1 DEF Init, SenderInOrder, Unfinished, TypeOK
<1>3. PacketsHonest
    BY DEF Init, PacketsHonest
<1>4. BufferIsPrefix
    BY DEF Init, BufferIsPrefix, Offsets
<1>5. DeliveredWhole
    BY DEF Init, DeliveredWhole
<1> QED
    BY <1>1, <1>2, <1>3, <1>4, <1>5 DEF IInv

LEMMA SenderSetupStep ==
  ASSUME IInv, SenderSetup
  PROVE  IInv'
<1>1. TypeOK /\ challenge \in Nat
    BY EpochsAreNumbers DEF IInv, TypeOK
<1>2. challenge' \in Epochs /\ challenge' = challenge + 1
    BY <1>1, SizesAssumption DEF SenderSetup, Epochs, TypeOK
<1>3. TypeOK'
    <2>0. unsentFragments' \in BOOLEAN /\ state' \in {"connected", "zombie", "free"}
        BY DEF SenderSetup
    <2>1. queue' \in Seq(Nat) /\ outgoingSequence' \in Nat \ {0}
        BY DEF SenderSetup
    <2>2. unsentFragmentStart' \in Nat /\ unsentMessage' \in Nat /\ unsentLength' \in Nat
        BY DEF SenderSetup
    <2>3. sent' = sent /\ net' = net /\ UNCHANGED receiverVars
        BY DEF SenderSetup
    <2> QED
        BY <1>1, <1>2, <2>0, <2>1, <2>2, <2>3 DEF TypeOK, receiverVars
<1>4. SentGrows /\ challenge <= challenge'
  <2>1. SenderInOrder
      BY DEF IInv
  <2>2. /\ sent' = sent /\ outgoingSequence' = 1 /\ Unfinished' = 0
        /\ \A c \in Epochs : c > challenge => sent[c] = <<>>
      BY <2>1 DEF SenderSetup, SenderInOrder, Unfinished
  <2>3. ASSUME NEW c \in Epochs
        PROVE  Started(c)' = Len(sent[c])
    <3>1. CASE c = challenge'
        BY <1>1, <1>2, <2>2, <3>1 DEF Started
    <3>2. CASE c # challenge'
        BY <2>2, <3>2 DEF Started
    <3> QED
        BY <3>1, <3>2
  <2> QED
      BY <1>1, <1>2, <2>1, <2>2, <2>3, StartedSent DEF SentGrows
<1>5. SenderInOrder'
    <2>0. sent' = sent /\ \A c \in Epochs : c > challenge => sent[c] = <<>>
        BY DEF IInv, SenderInOrder, SenderSetup
    <2>1. \A c \in Epochs : c > challenge' => sent'[c] = <<>>
        <3> SUFFICES ASSUME NEW c \in Epochs, c > challenge' PROVE sent[c] = <<>>
            BY <2>0
        <3>1. c > challenge
            BY <1>1, <1>2, EpochsAreNumbers
        <3> QED
            BY <2>0, <3>1
    <2>2. sent'[challenge'] = <<>>
        BY <1>1, <1>2 DEF IInv, SenderInOrder, SenderSetup
    <2>3. Unfinished' = 0 /\ queue' = <<>> /\ outgoingSequence' = 1 /\ unsentFragments' = FALSE
        BY DEF SenderSetup, Unfinished
    <2> QED
        BY <2>1, <2>2, <2>3 DEF SenderInOrder
<1>6. PacketsHonest'
    BY <1>1, <1>3, <1>4, OldPacketsHonest DEF IInv, SenderSetup, PacketsHonest
<1>7. BufferIsPrefix' /\ DeliveredWhole'
    BY <1>1, <1>3, <1>4, ReceiverKeeps DEF IInv, SenderSetup
<1> QED
    BY <1>3, <1>5, <1>6, <1>7 DEF IInv

LEMMA ReceiverSetupStep ==
  ASSUME IInv, ReceiverSetup
  PROVE  IInv'
<1>1. challenge \in Nat
    BY EpochsAreNumbers DEF IInv, TypeOK
<1>2. TypeOK'
    <2>1. 0 \in 0..MAX_MSGLEN
        BY SizesAssumption
    <2>2. NoByte \in Bytes
        BY DEF NoByte, Byte, Bytes
    <2> QED
        BY <2>1, <2>2 DEF IInv, ReceiverSetup, TypeOK, senderVars
<1>3. SenderInOrder' /\ PacketsHonest'
    BY DEF IInv, ReceiverSetup, SenderInOrder, PacketsHonest, Honest, Unfinished, Started, senderVars
<1>4. BufferIsPrefix'
    BY <1>1 DEF ReceiverSetup, BufferIsPrefix, Offsets, senderVars
<1>5. DeliveredWhole'
    BY DEF ReceiverSetup, DeliveredWhole
<1> QED
    BY <1>2, <1>3, <1>4, <1>5 DEF IInv

LEMMA HandOverStep ==
  ASSUME IInv, NEW length \in Lengths, SV_Netchan_Transmit(length)
  PROVE  IInv'
<1> DEFINE m == Len(sent[challenge]) + 1
<1>1. /\ TypeOK /\ PacketsHonest /\ SenderInOrder
      /\ challenge \in Epochs /\ challenge \in Nat
      /\ sent[challenge] \in Seq(Lengths) /\ Len(sent[challenge]) \in Nat
      /\ outgoingSequence \in Nat \ {0} /\ queue \in Seq(Nat)
      /\ Unfinished \in {0, 1}
    BY EpochsAreNumbers, HistoryIsSeq DEF IInv, TypeOK, Unfinished
<1>3. challenge' = challenge /\ state' = state /\ UNCHANGED receiverVars
    BY DEF SV_Netchan_Transmit
<1>2. /\ SentKept
      /\ sent' \in [Epochs -> Seq(Lengths)]
      /\ Len(sent'[challenge]) = m
      /\ sent'[challenge][m] = length
      /\ \A k \in 1..Len(sent[challenge]) : sent'[challenge][k] = sent[challenge][k]
      /\ \A c \in Epochs : c # challenge => sent'[c] = sent[c]
    BY <1>1, <1>3, AppendKeeps DEF SV_Netchan_Transmit
<1>4. \A c \in Epochs : c > challenge' => sent'[c] = <<>>
    <2> SUFFICES ASSUME NEW c \in Epochs, c > challenge PROVE sent'[c] = <<>>
        BY <1>3
    <2>1. c # challenge
        BY <1>1, EpochsAreNumbers
    <2> QED
        BY <1>1, <1>2, <2>1 DEF SenderInOrder
<1>5. CASE MustQueue
    <2>1. queue' = Append(queue, m)
        BY <1>5 DEF SV_Netchan_Transmit
    <2>2. UNCHANGED <<outgoingSequence, unsentFragments, unsentFragmentStart,
                      unsentMessage, unsentLength, net>>
        BY <1>5 DEF SV_Netchan_Transmit
    <2>3. queue' \in Seq(Nat)
        BY <1>1, <2>1
    <2>4. TypeOK'
        BY <1>1, <1>2, <1>3, <2>2, <2>3 DEF TypeOK, receiverVars
    <2>5. SenderInOrder'
        <3>1. Unfinished' = Unfinished
            BY <2>2 DEF Unfinished
        <3>0. /\ outgoingSequence + Unfinished + Len(queue) = Len(sent[challenge]) + 1
              /\ \A i \in 1..Len(queue) : queue[i] = outgoingSequence + Unfinished + i - 1
              /\ outgoingSequence' = outgoingSequence
            BY <1>1, <2>2 DEF SenderInOrder
        <3>5. /\ Len(queue) \in Nat
              /\ Len(queue') = Len(queue) + 1
              /\ \A i \in 1..Len(queue) : queue'[i] = queue[i]
              /\ queue'[Len(queue) + 1] = m
            BY <1>1, <2>1
        <3> HIDE DEF m
        <3>6. m = Len(sent[challenge]) + 1
            BY DEF m
        <3>2. outgoingSequence' + Unfinished' + Len(queue') = Len(sent'[challenge']) + 1
            <4>1. Len(sent'[challenge']) = m
                BY <1>2, <1>3
            <4>2. /\ outgoingSequence \in Nat /\ Unfinished \in Nat
                  /\ Len(sent[challenge]) \in Nat
                BY <1>1
            <4> QED
                BY <3>0, <3>1, <3>5, <3>6, <4>1, <4>2
        <3>3. \A i \in 1..Len(queue') : queue'[i] = outgoingSequence' + Unfinished' + i - 1
            <4> SUFFICES ASSUME NEW i \in 1..Len(queue')
                         PROVE  queue'[i] = outgoingSequence + Unfinished + i - 1
                BY <3>0, <3>1
            <4>1. CASE i \in 1..Len(queue)
                BY <3>0, <3>5, <4>1
            <4>2. CASE i = Len(queue) + 1
                BY <1>1, <3>0, <3>5, <3>6, <4>2
            <4> QED
                BY <3>5, <4>1, <4>2
        <3>4. unsentFragments' =>
                 /\ unsentMessage' = outgoingSequence'
                 /\ unsentLength' = sent'[challenge'][outgoingSequence']
                 /\ unsentFragmentStart' <= unsentLength'
            <4>1. unsentFragments => outgoingSequence \in 1..Len(sent[challenge])
                BY <1>1 DEF SenderInOrder, Unfinished
            <4> QED
                BY <1>1, <1>2, <1>3, <2>2, <4>1 DEF SenderInOrder
        <3> QED
            BY <1>4, <3>2, <3>3, <3>4 DEF SenderInOrder
    <2>8. SentGrows
        <3>1. Unfinished' = Unfinished /\ outgoingSequence' = outgoingSequence
            BY <2>2 DEF Unfinished
        <3>2. outgoingSequence + Unfinished <= outgoingSequence' + Unfinished'
            BY <1>1, <3>1
        <3> QED
            BY <1>1, <1>2, <2>4, <3>2, KeptGrows DEF TypeOK
    <2>6. PacketsHonest'
        BY <1>1, <1>3, <2>2, <2>4, <2>8, OldPacketsHonest DEF PacketsHonest
    <2>7. BufferIsPrefix' /\ DeliveredWhole'
        BY <1>1, <1>3, <2>4, <2>8, ReceiverKeeps DEF IInv
    <2> QED
        BY <2>4, <2>5, <2>6, <2>7 DEF IInv
<1>6. CASE ~MustQueue
    <2>1. ~unsentFragments /\ queue = <<>> /\ Unfinished = 0
        BY <1>6 DEF MustQueue, Unfinished
    <2>2. outgoingSequence = m
        BY <1>1, <2>1 DEF SenderInOrder
    <2>3. Netchan_Transmit(m, length) /\ queue' = queue
        BY <1>6 DEF SV_Netchan_Transmit
    <2>4. outgoingSequence \in 1..Len(sent'[challenge])
        BY <1>1, <1>2, <2>2
    <2>5. /\ TypeOK'
          /\ PacketsHonest' /\ SentGrows
          /\ outgoingSequence' + Unfinished' = outgoingSequence + 1
          /\ unsentFragments' =>
                /\ outgoingSequence' = outgoingSequence
                /\ unsentMessage' = outgoingSequence
                /\ unsentLength' = sent'[challenge][outgoingSequence]
                /\ unsentFragmentStart' <= unsentLength'
        BY <1>1, <1>2, <1>3, <2>1, <2>2, <2>3, <2>4, TransmitStep
    <2>6. SenderInOrder'
        <3>1. Len(queue') = 0
            BY <2>1, <2>3
        <3>2. outgoingSequence' + Unfinished' + Len(queue') = Len(sent'[challenge']) + 1
            BY <1>1, <1>2, <1>3, <2>2, <2>5, <3>1
        <3> QED
            BY <1>3, <1>4, <2>5, <3>1, <3>2 DEF SenderInOrder
    <2>7. BufferIsPrefix' /\ DeliveredWhole'
        BY <1>1, <1>2, <1>3, <2>5, ReceiverKeeps DEF IInv
    <2> QED
        BY <2>5, <2>6, <2>7 DEF IInv
<1> QED
    BY <1>5, <1>6
LEMMA NextFragmentStep ==
  ASSUME IInv, SV_Netchan_TransmitNextFragment
  PROVE  IInv'
<1>1. /\ TypeOK /\ PacketsHonest /\ SenderInOrder
      /\ challenge \in Epochs /\ challenge \in Nat
      /\ sent[challenge] \in Seq(Lengths) /\ Len(sent[challenge]) \in Nat
      /\ outgoingSequence \in Nat \ {0} /\ queue \in Seq(Nat) /\ Len(queue) \in Nat
      /\ Unfinished \in {0, 1}
    BY EpochsAreNumbers, HistoryIsSeq DEF IInv, TypeOK, Unfinished
<1>2. challenge' = challenge /\ sent' = sent /\ state' = state /\ UNCHANGED receiverVars
    BY DEF SV_Netchan_TransmitNextFragment
<1>3. SentKept /\ sent' \in [Epochs -> Seq(Lengths)]
    BY <1>1, <1>2, SameKept DEF TypeOK
<1>4. \A c \in Epochs : c > challenge' => sent'[c] = <<>>
    BY <1>1, <1>2 DEF SenderInOrder
<1>5. ASSUME TypeOK', SentGrows PROVE BufferIsPrefix' /\ DeliveredWhole'
    BY <1>1, <1>2, <1>5, ReceiverKeeps DEF IInv
<1>6. CASE unsentFragments
    <2>1. Unfinished = 1
        BY <1>6 DEF Unfinished
    <2>2. /\ outgoingSequence \in 1..Len(sent[challenge])
          /\ unsentMessage = outgoingSequence
          /\ unsentLength = sent[challenge][outgoingSequence]
          /\ unsentFragmentStart <= unsentLength
        BY <1>1, <1>6, <2>1 DEF SenderInOrder
    <2>3. /\ SendPiece(outgoingSequence, unsentLength, unsentFragmentStart)
          /\ queue' = queue
        BY <1>6, <2>2 DEF SV_Netchan_TransmitNextFragment
    <2>4. unsentLength \in Nat /\ unsentFragmentStart \in Nat
        BY <1>1 DEF TypeOK
    <2>5. /\ SenderTyped'
          /\ outgoingSequence' + Unfinished' = outgoingSequence + 1
          /\ unsentFragments' => /\ outgoingSequence' = outgoingSequence
                                 /\ unsentMessage' = outgoingSequence
                                 /\ unsentLength' = unsentLength
        BY <1>1, <2>2, <2>3, <2>4, SendPieceCounts
    <2>6. TypeOK'
        BY <1>1, <1>2, <2>3, <2>5 DEF TypeOK, SenderTyped, receiverVars
    <2>9. SentGrows /\ outgoingSequence \in 1..Started(challenge)'
        <3>1. outgoingSequence + Unfinished <= outgoingSequence' + Unfinished'
            BY <1>1, <2>1, <2>5
        <3>2. SentGrows
            BY <1>1, <1>3, <2>5, <3>1, KeptGrows DEF SenderTyped
        <3>3. Started(challenge)' = outgoingSequence
            <4>1. PICK a, b, g, y : /\ a = outgoingSequence /\ b = outgoingSequence'
                                    /\ g = Unfinished' /\ y = Started(challenge)'
                OBVIOUS
            <4>2. a \in Nat \ {0} /\ b \in Nat \ {0} /\ g \in Nat /\ b + g = a + 1
                BY <1>1, <2>5, <4>1 DEF SenderTyped, Unfinished
            <4>3. y = b + g - 1
                BY <1>2, <4>1 DEF Started
            <4>4. y = a
                BY ONLY <4>2, <4>3, OneLess
            <4> QED
                BY <4>1, <4>4
        <3> QED
            BY <1>1, <3>2, <3>3
    <2>7. PacketsHonest' /\ (unsentFragments' => unsentFragmentStart' <= unsentLength)
        BY <1>1, <1>2, <2>2, <2>3, <2>4, <2>6, <2>9, SendPieceHonest
    <2>8. SenderInOrder'
        BY <1>1, <1>2, <1>4, <2>1, <2>2, <2>3, <2>5, <2>7 DEF SenderInOrder
    <2> QED
        BY <1>5, <2>6, <2>7, <2>8, <2>9 DEF IInv
<1>7. CASE ~unsentFragments
    <2>1. Unfinished = 0
        BY <1>7 DEF Unfinished
    <2>2. queue # <<>> /\ Len(queue) > 0
        BY <1>1, <1>7 DEF SV_Netchan_TransmitNextFragment
    <2>3. Head(queue) = outgoingSequence /\ outgoingSequence \in 1..Len(sent[challenge])
        BY <1>1, <2>1, <2>2 DEF SenderInOrder
    <2>4. /\ Netchan_Transmit(outgoingSequence, sent'[challenge][outgoingSequence])
          /\ queue' = Tail(queue)
        BY <1>2, <1>7, <2>3 DEF SV_Netchan_TransmitNextFragment
    <2>5. /\ queue' \in Seq(Nat)
          /\ Len(queue') = Len(queue) - 1
          /\ \A i \in 1..Len(queue') : queue'[i] = queue[i + 1]
        BY <1>1, <2>2, <2>4
    <2>6. /\ TypeOK'
          /\ PacketsHonest' /\ SentGrows
          /\ outgoingSequence' + Unfinished' = outgoingSequence + 1
          /\ unsentFragments' =>
                /\ outgoingSequence' = outgoingSequence
                /\ unsentMessage' = outgoingSequence
                /\ unsentLength' = sent'[challenge][outgoingSequence]
                /\ unsentFragmentStart' <= unsentLength'
        BY <1>1, <1>2, <1>3, <1>7, <2>3, <2>4, <2>5, TransmitStep
    <2>7. SenderInOrder'
        <3>1. outgoingSequence' + Unfinished' + Len(queue') = Len(sent'[challenge']) + 1
            BY <1>1, <1>2, <2>1, <2>5, <2>6 DEF SenderInOrder
        <3>2. \A i \in 1..Len(queue') : queue'[i] = outgoingSequence' + Unfinished' + i - 1
            BY <1>1, <1>2, <2>1, <2>5, <2>6 DEF SenderInOrder
        <3> QED
            BY <1>2, <1>4, <2>6, <3>1, <3>2 DEF SenderInOrder
    <2> QED
        BY <1>5, <2>6, <2>7 DEF IInv
<1> QED
    BY <1>6, <1>7
LEMMA DropStep ==
  ASSUME IInv, SV_DropClient
  PROVE  /\ IInv'
         /\ sent' = [sent EXCEPT ![challenge] = SubSeq(sent[challenge], 1, Started(challenge))]
         /\ \A k \in 1..Started(challenge) : sent'[challenge][k] = sent[challenge][k]
<1> DEFINE n == Started(challenge)
<1>1. /\ TypeOK /\ PacketsHonest /\ SenderInOrder
      /\ challenge \in Epochs /\ challenge \in Nat
      /\ sent[challenge] \in Seq(Lengths) /\ Len(sent[challenge]) \in Nat
      /\ outgoingSequence \in Nat \ {0} /\ Len(queue) \in Nat
      /\ Unfinished \in {0, 1}
    BY EpochsAreNumbers, HistoryIsSeq DEF IInv, TypeOK, Unfinished
<1>2. /\ challenge' = challenge /\ queue' = <<>>
      /\ state' \in {"connected", "zombie", "free"}
      /\ UNCHANGED <<outgoingSequence, unsentFragments, unsentFragmentStart,
                     unsentMessage, unsentLength, net>>
      /\ UNCHANGED receiverVars
      /\ Unfinished' = Unfinished
    BY DEF SV_DropClient, Unfinished
<1>3. /\ n = outgoingSequence + Unfinished - 1
      /\ n = Len(sent[challenge]) - Len(queue)
      /\ n \in Nat /\ n <= Len(sent[challenge])
  <2>1. outgoingSequence + Unfinished + Len(queue) = Len(sent[challenge]) + 1
      BY <1>1 DEF SenderInOrder
  <2> QED
      BY <1>1, <2>1 DEF Started
<1> DEFINE s == SubSeq(sent[challenge], 1, n)
<1>4. sent' = [sent EXCEPT ![challenge] = s]
    BY <1>3 DEF SV_DropClient, SentButQueue
<1>5. s \in Seq(Lengths) /\ Len(s) = n /\ \A k \in 1..n : s[k] = sent[challenge][k]
  <2> DEFINE h == sent[challenge]
  <2>1. h \in Seq(Lengths) /\ n \in Nat /\ n <= Len(h) /\ Len(h) \in Nat
      BY <1>1, <1>3
  <2>2. \A k \in 1..n : h[k] \in Lengths
      BY <2>1, ElementOfSeq
  <2> HIDE DEF h, n
  <2>3. SubSeq(h, 1, n) = [k \in 1..n |-> h[k]]
      BY <2>1
  <2>4. SubSeq(h, 1, n) \in Seq(Lengths) /\ Len(SubSeq(h, 1, n)) = n
      BY <2>1, <2>2, <2>3
  <2> QED
      BY <2>3, <2>4 DEF h
<1> HIDE DEF s
<1>6. /\ sent' \in [Epochs -> Seq(Lengths)] /\ sent'[challenge] = s
      /\ \A c \in Epochs : c # challenge => sent'[c] = sent[c]
    BY <1>1, <1>4, <1>5 DEF TypeOK
<1>7. SentKept
    BY <1>2, <1>5, <1>6 DEF SentKept
<1>8. TypeOK'
  <2>1. queue' \in Seq(Nat)
      BY <1>2
  <2> QED
      BY <1>1, <1>2, <1>6, <2>1 DEF TypeOK, receiverVars
<1> HIDE DEF n
<1>9. SentGrows /\ challenge <= challenge'
  <2>1. outgoingSequence + Unfinished <= outgoingSequence' + Unfinished'
      BY <1>1, <1>2
  <2> QED
      BY <1>1, <1>2, <1>6, <1>7, <1>8, <2>1, KeptGrows DEF TypeOK
<1>10. SenderInOrder'
  <2>1. outgoingSequence' + Unfinished' + Len(queue') = Len(sent'[challenge']) + 1
      BY <1>1, <1>2, <1>3, <1>5, <1>6
  <2>2. unsentFragments' => sent'[challenge'][outgoingSequence'] = sent[challenge][outgoingSequence]
    <3>1. unsentFragments => outgoingSequence \in 1..n
        BY <1>1, <1>3 DEF Unfinished
    <3> QED
        BY <1>2, <1>5, <1>6, <3>1
  <2>3. \A c \in Epochs : c > challenge' => sent'[c] = <<>>
    <3> SUFFICES ASSUME NEW c \in Epochs, c > challenge PROVE sent'[c] = <<>>
        BY <1>2
    <3>1. c # challenge
        BY <1>1, EpochsAreNumbers
    <3> QED
        BY <1>1, <1>6, <3>1 DEF SenderInOrder
  <2> QED
      BY <1>1, <1>2, <2>1, <2>2, <2>3 DEF SenderInOrder
<1>11. PacketsHonest'
    BY <1>1, <1>2, <1>8, <1>9, OldPacketsHonest DEF PacketsHonest
<1>12. BufferIsPrefix' /\ DeliveredWhole'
    BY <1>1, <1>2, <1>8, <1>9, ReceiverKeeps DEF IInv
<1>13. IInv'
    BY <1>8, <1>10, <1>11, <1>12 DEF IInv
<1> QED
    BY <1>4, <1>5, <1>6, <1>13 DEF s, n
-----------------------------------------------------------------------------
(* Receiving.                                                              *)

(* Delivering the next message whole keeps deliveries whole and in order.  *)
LEMMA HandUpStep ==
  ASSUME TypeOK, DeliveredWhole, NEW k \in 1..Started(receiverChallenge),
         k > incomingSequence,
         delivered' = Append(delivered, Message(receiverChallenge, k)),
         incomingSequence' = k, UNCHANGED <<senderVars, receiverChallenge>>
  PROVE  DeliveredWhole'
<1> DEFINE M == {Message(receiverChallenge, j) : j \in 1..Started(receiverChallenge)}
<1>1. M' = M
    BY DEF Message, Started, Unfinished, senderVars
<1>2. Message(receiverChallenge, k) \in M /\ Message(receiverChallenge, k).sequence = k
    BY DEF Message
<1>3. \A m \in M : m.sequence \in Nat
    BY DEF Message
<1> HIDE DEF M
<1>4. delivered \in Seq(M) /\ Len(delivered) \in Nat
    BY DEF DeliveredWhole, M
<1>5. /\ delivered' \in Seq(M)
      /\ Len(delivered') = Len(delivered) + 1
      /\ \A i \in 1..Len(delivered) : delivered'[i] = delivered[i]
      /\ delivered'[Len(delivered) + 1] = Message(receiverChallenge, k)
    BY <1>2, <1>4
<1>6. \A i \in 1..Len(delivered) :
         delivered[i].sequence \in Nat /\ delivered[i].sequence <= incomingSequence
    BY <1>3, <1>4 DEF DeliveredWhole
<1>7. k \in Nat /\ incomingSequence \in Nat
    BY DEF TypeOK
<1>8. \A i \in 1..Len(delivered') : delivered'[i].sequence <= incomingSequence'
    BY <1>2, <1>4, <1>5, <1>6, <1>7
<1>9. ASSUME NEW i \in 1..Len(delivered'), NEW j \in 1..Len(delivered'), i < j
      PROVE  delivered'[i].sequence < delivered'[j].sequence
    <2>1. i \in 1..Len(delivered)
        BY <1>4, <1>5, <1>9
    <2>2. CASE j \in 1..Len(delivered)
        <3>1. delivered[i].sequence < delivered[j].sequence
            BY <1>4, <1>9, <2>1, <2>2 DEF DeliveredWhole
        <3> QED
            BY <1>5, <2>1, <2>2, <3>1
    <2>3. CASE j = Len(delivered) + 1
        BY <1>2, <1>5, <1>6, <1>7, <2>1, <2>3
    <2> QED
        BY <1>4, <1>5, <2>2, <2>3
<1>10. DOMAIN delivered' = 1..Len(delivered')
    BY <1>5
<1> QED
    BY <1>1, <1>5, <1>8, <1>9, <1>10 DEF DeliveredWhole, M

(* Everything of the sender's and the packets stays put.                   *)
LEMMA SenderKeeps ==
  ASSUME SenderInOrder, PacketsHonest, UNCHANGED <<senderVars, net>>
  PROVE  /\ SenderInOrder' /\ PacketsHonest'
         /\ \A c : Started(c)' = Started(c)
         /\ \A c, k : Message(c, k)' = Message(c, k)
BY DEF SenderInOrder, PacketsHonest, Honest, Unfinished, Started, Message, senderVars

LEMMA ProcessStep ==
  ASSUME IInv, NEW p \in net, Netchan_Process(p)
  PROVE  IInv'
<1> DEFINE k == p.sequence
           size == sent[receiverChallenge][k]
<1>1. /\ TypeOK /\ PacketsHonest /\ SenderInOrder /\ BufferIsPrefix /\ DeliveredWhole
      /\ p \in Packets
      /\ UNCHANGED <<senderVars, net>> /\ receiverChallenge' = receiverChallenge
      /\ sent' = sent /\ challenge' = challenge
    BY DEF IInv, TypeOK, Netchan_Process, senderVars
<1>2. /\ p.challenge = receiverChallenge /\ k > incomingSequence
      /\ k \in Nat /\ p.start \in Nat /\ p.length \in Nat
      /\ p.fragmented \in BOOLEAN
    BY <1>1 DEF Netchan_Process, ChecksumMatches, IsNew, Packets
<1>3. /\ p.message = k
      /\ k \in 1..Started(receiverChallenge)
      /\ k \in 1..Len(sent[receiverChallenge])
      /\ p.start + p.length <= size
      /\ p.fragmented /\ p.length # FRAGMENT_SIZE => p.start + p.length = size
      /\ ~p.fragmented => p.start = 0 /\ p.length = size
  <2>1. /\ Started(receiverChallenge) \in Nat /\ Len(sent[receiverChallenge]) \in Nat
        /\ Started(receiverChallenge) <= Len(sent[receiverChallenge])
      BY <1>1, StartedSent DEF TypeOK
  <2> QED
      BY <1>1, <1>2, <2>1 DEF PacketsHonest, Honest
<1>4. size \in 1..MAX_MSGLEN /\ MAX_MSGLEN \in Nat
    BY <1>1, <1>3, LengthFits, SizesAssumption DEF TypeOK
<1>5. /\ SenderInOrder' /\ PacketsHonest'
      /\ Started(receiverChallenge)' = Started(receiverChallenge)
      /\ \A j : Message(receiverChallenge, j)' = Message(receiverChallenge, j)
    BY <1>1, SenderKeeps
<1>6. \A i \in Nat : Byte(receiverChallenge, k, i) \in Bytes
    BY <1>1, <1>2, EpochsAreNumbers DEF Byte, Bytes, TypeOK
<1> HIDE DEF size, k
<1>7. CASE ~p.fragmented /\ ProcessWhole(p)
    <2>1. [i \in 0..(p.length - 1) |-> Byte(p.challenge, p.message, i)]
              = [i \in 0..(size - 1) |-> Byte(receiverChallenge, k, i)]
        BY <1>2, <1>3, <1>7
    <2>2. /\ delivered' = Append(delivered, Message(receiverChallenge, k))
          /\ incomingSequence' = k
        BY <1>2, <1>3, <1>7, <2>1 DEF ProcessWhole, HandUp, Message, size, k
    <2>3. DeliveredWhole'
        BY <1>1, <1>2, <1>3, <2>2, HandUpStep
    <2>4. UNCHANGED <<fragmentSequence, fragmentLength, fragmentBuffer>>
        BY <1>7 DEF ProcessWhole
    <2>5. BufferIsPrefix'
        BY <1>1, <1>5, <2>4 DEF BufferIsPrefix
    <2>6. TypeOK'
        BY <1>1, <1>2, <2>2, <2>4 DEF TypeOK, senderVars
    <2> QED
        BY <1>5, <2>3, <2>5, <2>6 DEF IInv
<1>8. CASE p.fragmented /\ ProcessFragment(p)
    <2> DEFINE have == Assembled(p)
               now == have + p.length
               bytes == Copied(p, have)
    <2>1. /\ have \in 0..MAX_MSGLEN
          /\ \A i \in Offsets : i < have => fragmentBuffer[i] = Byte(receiverChallenge, k, i)
        <3>1. CASE k # fragmentSequence
            <4>1. have = 0
                BY <3>1 DEF Assembled, k
            <4> QED
                BY <1>4, <4>1 DEF Offsets
        <3>2. CASE k = fragmentSequence
            <4>1. have = fragmentLength
                BY <3>2 DEF Assembled, k
            <4> QED
                BY <1>1, <3>2, <4>1 DEF BufferIsPrefix, TypeOK
        <3> QED
            BY <3>1, <3>2
    <2>2. fragmentSequence' = k
        BY <1>8 DEF ProcessFragment, k
    <2> HIDE DEF have
    <2>3. CASE /\ ~Follows(p, have)
               /\ fragmentLength' = have
               /\ UNCHANGED <<fragmentBuffer, incomingSequence, delivered>>
        <3>1. BufferIsPrefix'
            BY <1>1, <1>3, <1>5, <2>1, <2>2, <2>3 DEF BufferIsPrefix
        <3>2. DeliveredWhole'
            BY <1>1, <1>5, <2>3 DEF DeliveredWhole
        <3>3. TypeOK'
            BY <1>1, <1>2, <2>1, <2>2, <2>3 DEF TypeOK, senderVars
        <3> QED
            BY <1>5, <3>1, <3>2, <3>3 DEF IInv
    <2>4. CASE Follows(p, have)
        <3>1. now \in 0..MAX_MSGLEN /\ p.start = have
            BY <1>2, <1>4, <2>1, <2>4 DEF Follows
        <3>2. \A i \in Offsets :
                 bytes[i] = IF have <= i /\ i < now
                            THEN Byte(p.challenge, p.message, p.start + (i - have))
                            ELSE fragmentBuffer[i]
            BY DEF Copied
        <3>3. \A i \in Offsets : i < now => bytes[i] = Byte(receiverChallenge, k, i)
            <4> SUFFICES ASSUME NEW i \in Offsets, i < now
                         PROVE  bytes[i] = Byte(receiverChallenge, k, i)
                OBVIOUS
            <4>1. CASE have <= i
                <5>1. p.start + (i - have) = i
                    BY <1>2, <1>4, <2>1, <3>1 DEF Offsets
                <5> QED
                    BY <1>2, <1>3, <3>2, <4>1, <5>1
            <4>2. CASE ~(have <= i)
                <5>1. i < have
                    BY <1>4, <2>1, <4>2 DEF Offsets
                <5> QED
                    BY <2>1, <3>2, <4>2, <5>1
            <4> QED
                BY <4>1, <4>2
        <3>4. bytes \in [Offsets -> Bytes]
            <4>1. fragmentBuffer \in [Offsets -> Bytes]
                BY <1>1 DEF TypeOK
            <4>2. \A i \in Offsets : bytes[i] \in Bytes
                <5> SUFFICES ASSUME NEW i \in Offsets PROVE bytes[i] \in Bytes
                    OBVIOUS
                <5>1. i \in Nat
                    BY <1>4 DEF Offsets
                <5>2. CASE i < now
                    BY <1>6, <3>3, <5>1, <5>2
                <5>3. CASE ~(i < now)
                    BY <3>2, <4>1, <5>3
                <5> QED
                    BY <5>2, <5>3
            <4> QED
                BY <4>2 DEF Copied
        <3> HIDE DEF now, bytes
        <3>5. CASE /\ fragmentBuffer' = bytes
                   /\ fragmentLength' = now
                   /\ UNCHANGED <<incomingSequence, delivered>>
            <4>1. BufferIsPrefix'
                BY <1>1, <1>3, <1>5, <2>2, <3>3, <3>5 DEF BufferIsPrefix
            <4>2. DeliveredWhole'
                BY <1>1, <1>5, <3>5 DEF DeliveredWhole
            <4>3. TypeOK'
                BY <1>1, <1>2, <2>2, <3>1, <3>4, <3>5 DEF TypeOK, senderVars
            <4> QED
                BY <1>5, <4>1, <4>2, <4>3 DEF IInv
        <3>6. CASE /\ p.length # FRAGMENT_SIZE
                   /\ fragmentBuffer' = bytes
                   /\ fragmentLength' = 0
                   /\ HandUp(k, now, [i \in 0..(now - 1) |-> bytes[i]])
            <4>1. now = size
                BY <1>3, <1>8, <3>1, <3>6 DEF now
            <4>2. [i \in 0..(now - 1) |-> bytes[i]]
                     = [i \in 0..(size - 1) |-> Byte(receiverChallenge, k, i)]
                <5>1. \A i \in 0..(now - 1) : i \in Offsets /\ i < now
                    BY <1>4, <4>1 DEF Offsets
                <5> QED
                    BY <3>3, <4>1, <5>1
            <4>3. /\ delivered' = Append(delivered, Message(receiverChallenge, k))
                  /\ incomingSequence' = k
                BY <3>6, <4>1, <4>2 DEF HandUp, Message, size, k
            <4>4. DeliveredWhole'
                BY <1>1, <1>2, <1>3, <4>3, HandUpStep
            <4>5. BufferIsPrefix'
                BY <1>1, <1>4, <3>6 DEF BufferIsPrefix, Offsets
            <4>6. TypeOK'
                BY <1>1, <1>2, <1>4, <2>2, <3>4, <3>6, <4>3 DEF TypeOK, senderVars
            <4> QED
                BY <1>5, <4>4, <4>5, <4>6 DEF IInv
        <3> QED
            BY <1>8, <2>4, <3>5, <3>6 DEF ProcessFragment, have, now, bytes, k
    <2> QED
        BY <1>8, <2>3, <2>4 DEF ProcessFragment, have
<1> QED
    BY <1>7, <1>8 DEF Netchan_Process
-----------------------------------------------------------------------------
(* IInv is an invariant: the types are right, messages go out in the order *)
(* they are handed over, packets carry what their sequence number says,    *)
(* the receiver's buffer holds a prefix of one message, and what           *)
(* Netchan_Process returns is whole and in order.                          *)
THEOREM Invariance == Spec => []IInv
<1>1. IInv /\ [Next]_vars => IInv'
    <2> SUFFICES ASSUME IInv, [Next]_vars PROVE IInv'
        OBVIOUS
    <2>1. CASE SenderSetup
        BY <2>1, SenderSetupStep
    <2>2. CASE ReceiverSetup
        BY <2>2, ReceiverSetupStep
    <2>7. CASE SV_DropClient
        BY <2>7, DropStep
    <2>8. CASE ZombieToFree
        <3>1. TypeOK'
            BY <2>8 DEF IInv, TypeOK, ZombieToFree, receiverVars
        <3>2. SenderInOrder' /\ PacketsHonest'
            BY <2>8 DEF IInv, SenderInOrder, PacketsHonest, Honest, Unfinished, Started, ZombieToFree
        <3>3. BufferIsPrefix' /\ DeliveredWhole'
            BY <2>8 DEF IInv, BufferIsPrefix, DeliveredWhole, Message, Started, Unfinished,
                        ZombieToFree, receiverVars
        <3> QED
            BY <3>1, <3>2, <3>3 DEF IInv
    <2>3. CASE \E length \in Lengths : SV_Netchan_Transmit(length)
        BY <2>3, HandOverStep
    <2>4. CASE SV_Netchan_TransmitNextFragment
        BY <2>4, NextFragmentStep
    <2>5. CASE \E p \in net : Netchan_Process(p)
        BY <2>5, ProcessStep
    <2>6. CASE UNCHANGED vars
        <3>1. TypeOK'
            BY <2>6 DEF IInv, TypeOK, vars, senderVars, receiverVars
        <3>2. SenderInOrder' /\ PacketsHonest'
            BY <2>6, SenderKeeps DEF IInv, vars
        <3>3. BufferIsPrefix' /\ DeliveredWhole'
            BY <2>6 DEF IInv, BufferIsPrefix, DeliveredWhole, Message, Started, Unfinished,
                        vars, senderVars, receiverVars
        <3> QED
            BY <3>1, <3>2, <3>3 DEF IInv
    <2> QED
        BY <2>1, <2>2, <2>3, <2>4, <2>5, <2>6, <2>7, <2>8 DEF Next
<1> QED
    BY <1>1, InitIInv, PTL DEF Spec
-----------------------------------------------------------------------------
(* Refinement.                                                             *)

(* Netchan_Process returns nothing, or some earlier unseen message, whole. *)
LEMMA ProcessDelivers ==
  ASSUME IInv, IInv', NEW p \in net, Netchan_Process(p)
  PROVE  \/ delivered' = delivered
         \/ \E k \in 1..Started(receiverChallenge) :
               /\ delivered' = Append(delivered, Message(receiverChallenge, k))
               /\ \A i \in DOMAIN delivered : delivered[i].sequence < k
<1> DEFINE M == {Message(receiverChallenge, j) : j \in 1..Started(receiverChallenge)}
<1>1. receiverChallenge' = receiverChallenge /\ sent' = sent
    BY DEF Netchan_Process, senderVars
<1>2. delivered' = delivered \/ \E x : delivered' = Append(delivered, x)
    BY DEF Netchan_Process, ProcessFragment, ProcessWhole, HandUp
<1>3. SUFFICES ASSUME NEW x, delivered' = Append(delivered, x)
               PROVE  \E k \in 1..Started(receiverChallenge) :
                         /\ delivered' = Append(delivered, Message(receiverChallenge, k))
                         /\ \A i \in DOMAIN delivered : delivered[i].sequence < k
    BY <1>2
<1>4. M' = M
  <2>1. Started(receiverChallenge)' = Started(receiverChallenge)
      BY DEF Netchan_Process, Started, Unfinished, senderVars
  <2> QED
      BY <1>1, <2>1 DEF Message
<1> HIDE DEF M
<1>5. delivered \in Seq(M) /\ delivered' \in Seq(M)
    BY <1>4 DEF IInv, DeliveredWhole, M
<1>6. /\ Len(delivered) \in Nat
      /\ Len(delivered') = Len(delivered) + 1
      /\ \A i \in 1..Len(delivered) : delivered'[i] = delivered[i]
      /\ delivered'[Len(delivered) + 1] = x
      /\ DOMAIN delivered = 1..Len(delivered)
      /\ DOMAIN delivered' = 1..Len(delivered')
    BY <1>3, <1>5
<1>7. x \in M
    BY <1>5, <1>6
<1>8. PICK k \in 1..Started(receiverChallenge) : x = Message(receiverChallenge, k)
    BY <1>7 DEF M
<1>9. x.sequence = k
    BY <1>8 DEF Message
<1>10. \A i \in 1..Len(delivered) : delivered[i].sequence < k
    <2> SUFFICES ASSUME NEW i \in 1..Len(delivered)
                 PROVE  delivered[i].sequence < k
        OBVIOUS
    <2>1. /\ i \in DOMAIN delivered' /\ Len(delivered) + 1 \in DOMAIN delivered'
          /\ i < Len(delivered) + 1
        BY <1>6
    <2>2. delivered'[i].sequence < delivered'[Len(delivered) + 1].sequence
        BY <2>1 DEF IInv, DeliveredWhole
    <2> QED
        BY <1>6, <1>9, <2>2
<1> QED
    BY <1>3, <1>6, <1>8, <1>10

(* Every behaviour of the netchan, whatever the network loses, repeats or  *)
(* reorders and however often the client reconnects, is a behaviour of the *)
(* ordered stream of whole messages that the code above relies on.         *)
THEOREM Refinement == Spec => ImplementsStream
<1>1. Init => Stream!Init
    BY DEF Init, Stream!Init, Epochs
<1>2. IInv /\ IInv' /\ [Next]_vars => [Stream!Next]_(Stream!vars)
    <2> SUFFICES ASSUME IInv, IInv', [Next]_vars PROVE [Stream!Next]_(Stream!vars)
        OBVIOUS
    <2>1. CASE SenderSetup
        BY <2>1 DEF SenderSetup, Stream!Next, Stream!SenderReconnects, receiverVars
    <2>2. CASE ReceiverSetup
        BY <2>2 DEF ReceiverSetup, Stream!Next, Stream!ReceiverReconnects, senderVars
    <2>3. ASSUME NEW length \in Lengths, SV_Netchan_Transmit(length)
          PROVE  Stream!Next
        BY <2>3 DEF SV_Netchan_Transmit, Stream!Next, Stream!HandOver, receiverVars
    <2>4. CASE SV_Netchan_TransmitNextFragment
        BY <2>4 DEF SV_Netchan_TransmitNextFragment, Stream!vars, receiverVars
    <2>7. CASE SV_DropClient
        <3> DEFINE n == Started(challenge)
        <3>1. /\ n \in Nat /\ n <= Len(sent[challenge]) /\ Len(sent[challenge]) \in Nat
            BY StartedSent DEF IInv, TypeOK
        <3>2. UNCHANGED <<challenge, receiverChallenge, delivered>>
            BY <2>7 DEF SV_DropClient, receiverVars
        <3>3. sent' = [sent EXCEPT ![challenge] = SubSeq(sent[challenge], 1, n)]
            BY <2>7, DropStep
        <3>4. receiverChallenge = challenge => \A i \in DOMAIN delivered : delivered[i].sequence <= n
            <4> SUFFICES ASSUME receiverChallenge = challenge, NEW i \in DOMAIN delivered
                         PROVE  delivered[i].sequence <= n
                OBVIOUS
            <4> DEFINE M == {Message(receiverChallenge, k) : k \in 1..Started(receiverChallenge)}
            <4>1. delivered \in Seq(M)
                BY DEF IInv, DeliveredWhole
            <4> HIDE DEF M
            <4>2. delivered[i] \in M
                BY <4>1
            <4>3. PICK k \in 1..n : delivered[i] = Message(receiverChallenge, k)
                BY <4>2 DEF M
            <4>4. delivered[i].sequence = k
                BY <4>3 DEF Message
            <4> QED
                BY <3>1, <4>4
        <3> HIDE DEF n
        <3>5. n \in 0..Len(sent[challenge]) /\ Stream!Discard(n)
            BY <3>1, <3>2, <3>3, <3>4 DEF Stream!Discard
        <3> QED
            BY <3>5 DEF Stream!Next
    <2>8. CASE ZombieToFree
        BY <2>8 DEF ZombieToFree, Stream!vars, receiverVars
    <2>5. ASSUME NEW p \in net, Netchan_Process(p)
          PROVE  Stream!Next \/ UNCHANGED Stream!vars
        <3>1. UNCHANGED <<sent, challenge, receiverChallenge>>
            BY <2>5 DEF Netchan_Process, senderVars
        <3>2. CASE delivered' = delivered
            BY <3>1, <3>2 DEF Stream!vars
        <3>3. ASSUME NEW k \in 1..Started(receiverChallenge),
                     delivered' = Append(delivered, Message(receiverChallenge, k)),
                     \A i \in DOMAIN delivered : delivered[i].sequence < k
              PROVE  Stream!Next
            <4>1. Message(receiverChallenge, k)
                     = Stream!Message(receiverChallenge, k, sent[receiverChallenge][k])
                BY DEF Message, Stream!Message, Byte
            <4>2. k \in 1..Len(sent[receiverChallenge])
                <5>1. /\ Started(receiverChallenge) \in Nat /\ Len(sent[receiverChallenge]) \in Nat
                      /\ Started(receiverChallenge) <= Len(sent[receiverChallenge])
                    BY StartedSent DEF IInv, TypeOK
                <5> QED
                    BY <5>1
            <4> QED
                BY <3>1, <3>3, <4>1, <4>2 DEF Stream!Next, Stream!Deliver
        <3> QED
            BY <2>5, <3>2, <3>3, ProcessDelivers
    <2>6. CASE UNCHANGED vars
        BY <2>6 DEF vars, senderVars, receiverVars, Stream!vars
    <2> QED
        BY <2>1, <2>2, <2>3, <2>4, <2>5, <2>6, <2>7, <2>8 DEF Next
<1> QED
    BY <1>1, <1>2, Invariance, PTL DEF Spec, Stream!Spec, ImplementsStream
-----------------------------------------------------------------------------
(* Nothing is cut off.                                                     *)

(* All of message k, of n bytes, has been sent. *)
Complete(k, n) ==
    \/ WasSent(k, FALSE, 0, n)
    \/ \A j \in 0..(n \div FRAGMENT_SIZE) :
          WasSent(k, TRUE, j * FRAGMENT_SIZE, IF n - j * FRAGMENT_SIZE < FRAGMENT_SIZE
                                              THEN n - j * FRAGMENT_SIZE ELSE FRAGMENT_SIZE)
(* Its first q fragments, all full, have been sent.                        *)
FirstSent(k, q) == \A j \in 0..(q - 1) : WasSent(k, TRUE, j * FRAGMENT_SIZE, FRAGMENT_SIZE)

(* Messages before the one being sent are complete, and of that one all    *)
(* that lies before unsentFragmentStart has been sent, in full fragments.  *)
CompleteSoFar ==
    /\ \A k \in 1..(outgoingSequence - 1) : Complete(k, sent[challenge][k])
    /\ unsentFragments =>
          \E q \in Nat : unsentFragmentStart = q * FRAGMENT_SIZE /\ FirstSent(outgoingSequence, q)

(* What has been sent stays in the network. *)
LEMMA CompleteStays ==
  ASSUME net \subseteq net', challenge' = challenge
  PROVE  /\ \A k, n : Complete(k, n) => Complete(k, n)'
         /\ \A k, q : FirstSent(k, q) => FirstSent(k, q)'
BY DEF Complete, FirstSent, WasSent

(* Another fragment after q full ones. *)
LEMMA PieceCompletes ==
  ASSUME NEW k \in Nat, NEW length \in Nat, NEW q \in Nat, q * FRAGMENT_SIZE <= length,
         k = outgoingSequence, challenge' = challenge,
         FirstSent(k, q), SendPiece(k, length, q * FRAGMENT_SIZE)
  PROVE  /\ net \subseteq net'
         /\ unsentFragments' \in BOOLEAN
         /\ unsentFragments' => /\ outgoingSequence' = k
                                /\ unsentFragmentStart' = (q + 1) * FRAGMENT_SIZE
                                /\ FirstSent(k, q + 1)'
         /\ ~unsentFragments' => outgoingSequence' = k + 1 /\ Complete(k, length)'
<1> DEFINE F == FRAGMENT_SIZE
           start == q * F
           n == PieceLength(start, length)
           p == [challenge |-> challenge, sequence |-> k, fragmented |-> TRUE,
                 start |-> start, length |-> n, message |-> k]
<1>1. F \in Nat \ {0} /\ start \in Nat /\ start <= length /\ start = F * q
    BY SizesAssumption
<1> HIDE DEF F, start
<1>2. n \in Nat /\ n = IF start + F > length THEN length - start ELSE F
    BY <1>1 DEF PieceLength, F
<1>3. /\ net' = net \cup {p} /\ unsentFragmentStart' = start + n
      /\ unsentFragments' = ~IsLastPiece(start, n, length)
      /\ outgoingSequence' = IF IsLastPiece(start, n, length) THEN k + 1 ELSE k
    BY DEF SendPiece, start, F
<1>4. net \subseteq net' /\ p \in net' /\ unsentFragments' \in BOOLEAN
    BY <1>3
<1>5. FirstSent(k, q)'
    BY <1>4, CompleteStays
<1>6. WasSent(k, TRUE, start, n)'
    BY <1>4 DEF WasSent
<1> HIDE DEF p, n
<1>7. IsLastPiece(start, n, length) <=> n < F
    BY <1>1, <1>2 DEF IsLastPiece, F
<1>8. \A j \in 0..q : j = q \/ j \in 0..(q - 1)
    OBVIOUS
<1>9. CASE n < F
  <2>1. length = F * q + n /\ n \in 0..(F - 1)
      BY <1>1, <1>2, <1>9
  <2>2. length \div F = q
      BY <1>1, <2>1, QuotientIs
  <2>3. ASSUME NEW j \in 0..q
        PROVE  WasSent(k, TRUE, j * F, IF length - j * F < F THEN length - j * F ELSE F)'
    <3>1. CASE j = q
      <4>1. j * F = start /\ length - j * F = n
          BY <1>1, <2>1, <3>1 DEF start
      <4> QED
          BY <1>6, <1>9, <4>1 DEF WasSent
    <3>2. CASE j \in 0..(q - 1)
      <4>1. q - j >= 1 /\ q - j \in Int
          BY <3>2
      <4>2. F * (q - j) >= F
          BY <1>1, <4>1
      <4>3. length - j * F = F * (q - j) + n /\ j * F \in Nat
          BY <1>1, <2>1, <3>2
      <4>4. ~(length - j * F < F)
          BY <1>1, <1>2, <4>2, <4>3
      <4>5. WasSent(k, TRUE, j * F, F)'
          BY <1>5, <3>2 DEF FirstSent, F, WasSent
      <4> QED
          BY <4>4, <4>5 DEF WasSent
    <3> QED
        BY <1>8, <3>1, <3>2
  <2>4. Complete(k, length)'
      BY <2>2, <2>3 DEF Complete, F
  <2> QED
      BY <1>3, <1>4, <1>7, <1>9, <2>4
<1>10. CASE ~(n < F)
  <2>1. n = F
      BY <1>1, <1>2, <1>10
  <2>2. unsentFragmentStart' = (q + 1) * F
      BY <1>1, <1>3, <2>1
  <2>3. ASSUME NEW j \in 0..q PROVE WasSent(k, TRUE, j * F, F)'
    <3>1. CASE j = q
        BY <1>6, <2>1, <3>1 DEF start
    <3>2. CASE j \in 0..(q - 1)
        BY <1>5, <3>2 DEF FirstSent, F
    <3> QED
        BY <1>8, <3>1, <3>2
  <2>4. FirstSent(k, q + 1)'
    <3>1. q + 1 - 1 = q
        OBVIOUS
    <3> QED
        BY <2>3, <3>1 DEF FirstSent, F, WasSent
  <2> QED
      BY <1>3, <1>4, <1>7, <1>10, <2>2, <2>4 DEF F
<1> QED
    BY <1>2, <1>9, <1>10

(* The next message, or another fragment of the one being sent. *)
LEMMA SendExtends ==
  ASSUME CompleteSoFar, NEW k \in Nat, k = outgoingSequence, challenge' = challenge, NEW length \in Nat,
         \/ ~unsentFragments /\ Netchan_Transmit(k, length)
         \/ unsentFragments /\ unsentFragmentStart <= length
            /\ SendPiece(k, length, unsentFragmentStart)
  PROVE  /\ net \subseteq net'
         /\ unsentFragments' => /\ outgoingSequence' = k
                                /\ \E q \in Nat : /\ unsentFragmentStart' = q * FRAGMENT_SIZE
                                                 /\ FirstSent(k, q)'
         /\ ~unsentFragments' => outgoingSequence' = k + 1 /\ Complete(k, length)'
<1>1. CASE \E q \in Nat : /\ q * FRAGMENT_SIZE <= length /\ FirstSent(k, q)
                        /\ SendPiece(k, length, q * FRAGMENT_SIZE)
  <2>1. PICK q \in Nat : /\ q * FRAGMENT_SIZE <= length /\ FirstSent(k, q)
                       /\ SendPiece(k, length, q * FRAGMENT_SIZE)
      BY <1>1
  <2>2. /\ net \subseteq net'
        /\ unsentFragments' => /\ outgoingSequence' = k
                               /\ unsentFragmentStart' = (q + 1) * FRAGMENT_SIZE
                               /\ FirstSent(k, q + 1)'
        /\ ~unsentFragments' => outgoingSequence' = k + 1 /\ Complete(k, length)'
      BY <2>1, PieceCompletes
  <2>3. q + 1 \in Nat
      OBVIOUS
  <2> QED
      BY <2>2, <2>3
<1>2. CASE SendWhole(k, length) /\ ~unsentFragments
  <2>1. /\ net' = net \cup {[challenge |-> challenge, sequence |-> k, fragmented |-> FALSE,
                             start |-> 0, length |-> length, message |-> k]}
        /\ outgoingSequence' = k + 1 /\ unsentFragments' = unsentFragments
      BY <1>2 DEF SendWhole
  <2>2. WasSent(k, FALSE, 0, length)'
      BY <2>1 DEF WasSent
  <2>3. Complete(k, length)'
      BY <2>2 DEF Complete
  <2> QED
      BY <1>2, <2>1, <2>3
<1>3. CASE ~unsentFragments /\ SendPiece(k, length, 0)
  <2>1. 0 * FRAGMENT_SIZE = 0 /\ FirstSent(k, 0) /\ 0 \in Nat
      BY SizesAssumption DEF FirstSent
  <2> QED
      BY <1>1, <1>3, <2>1
<1>4. CASE unsentFragments /\ unsentFragmentStart <= length
           /\ SendPiece(k, length, unsentFragmentStart)
    BY <1>1, <1>4 DEF CompleteSoFar
<1> QED
    BY <1>2, <1>3, <1>4 DEF Netchan_Transmit

LEMMA SendCompletes ==
  ASSUME CompleteSoFar, outgoingSequence \in Nat \ {0}, challenge' = challenge,
         \A i \in 1..(outgoingSequence - 1) : sent'[challenge][i] = sent[challenge][i],
         NEW length \in Nat, sent'[challenge][outgoingSequence] = length,
         \/ ~unsentFragments /\ Netchan_Transmit(outgoingSequence, length)
         \/ unsentFragments /\ unsentFragmentStart <= length
            /\ SendPiece(outgoingSequence, length, unsentFragmentStart)
  PROVE  CompleteSoFar'
<1>1. PICK k, h : k = outgoingSequence /\ h = sent'[challenge]
    OBVIOUS
<1>2. k \in Nat \ {0} /\ h[k] = length /\ \A i \in 1..(k - 1) : h[i] = sent[challenge][i]
    BY <1>1
<1>3. /\ net \subseteq net'
      /\ unsentFragments' => /\ outgoingSequence' = k
                             /\ \E q \in Nat : /\ unsentFragmentStart' = q * FRAGMENT_SIZE
                                              /\ FirstSent(k, q)'
      /\ ~unsentFragments' => outgoingSequence' = k + 1 /\ Complete(k, length)'
  <2>1. \/ ~unsentFragments /\ Netchan_Transmit(k, length)
        \/ unsentFragments /\ unsentFragmentStart <= length
           /\ SendPiece(k, length, unsentFragmentStart)
      BY <1>1
  <2> QED
      BY <1>1, <1>2, <2>1, SendExtends
<1>4. \A i \in 1..(k - 1) : Complete(i, h[i])'
  <2> TAKE i \in 1..(k - 1)
  <2>1. Complete(i, h[i])
      BY <1>1, <1>2 DEF CompleteSoFar
  <2> QED
      BY <1>3, <2>1, CompleteStays
<1>5. ~unsentFragments' => Complete(k, h[k])'
    BY <1>2, <1>3 DEF Complete, WasSent
<1>6. \A i \in 1..(outgoingSequence' - 1) : Complete(i, h[i])'
  <2>1. CASE unsentFragments'
      BY <1>3, <1>4, <2>1
  <2>2. CASE ~unsentFragments'
    <3> SUFFICES ASSUME NEW i \in 1..k PROVE Complete(i, h[i])'
        BY <1>2, <1>3, <2>2
    <3>1. CASE i \in 1..(k - 1)
        BY <1>4, <3>1
    <3>2. CASE i = k
        BY <1>5, <2>2, <3>2 DEF Complete, WasSent
    <3> QED
        BY <1>2, <3>1, <3>2
  <2> QED
      BY <2>1, <2>2
<1>7. sent'[challenge'] = h
    BY <1>1
<1>8. unsentFragments' =>
         \E q \in Nat : unsentFragmentStart' = q * FRAGMENT_SIZE /\ FirstSent(outgoingSequence, q)'
    BY <1>3 DEF FirstSent, WasSent
<1> QED
    BY <1>6, <1>7, <1>8 DEF CompleteSoFar, Complete, WasSent

LEMMA CompleteStep ==
  ASSUME IInv, CompleteSoFar, [Next]_vars
  PROVE  CompleteSoFar'
<1>1. /\ SenderInOrder /\ challenge \in Epochs /\ outgoingSequence \in Nat \ {0}
      /\ sent[challenge] \in Seq(Lengths) /\ Len(sent[challenge]) \in Nat
      /\ queue \in Seq(Nat) /\ Len(queue) \in Nat /\ unsentFragments \in BOOLEAN
      /\ unsentFragmentStart \in Nat /\ TypeOK
    BY HistoryIsSeq DEF IInv, TypeOK
<1>2. /\ outgoingSequence + Unfinished + Len(queue) = Len(sent[challenge]) + 1
      /\ \A i \in 1..Len(queue) : queue[i] = outgoingSequence + Unfinished + i - 1
      /\ unsentFragments =>
            /\ unsentMessage = outgoingSequence
            /\ unsentLength = sent[challenge][outgoingSequence]
            /\ unsentFragmentStart <= unsentLength
      /\ Unfinished = IF unsentFragments THEN 1 ELSE 0
    BY <1>1 DEF SenderInOrder, Unfinished
<1>3. outgoingSequence - 1 <= Len(sent[challenge])
    BY <1>1, <1>2
<1>4. Lengths \subseteq Nat
    BY SizesAssumption
<1>5. CASE SenderSetup
    BY <1>5 DEF SenderSetup, CompleteSoFar
<1>6. ASSUME UNCHANGED <<challenge, net, outgoingSequence, unsentFragments, unsentFragmentStart>>,
             \A i \in 1..(outgoingSequence - 1) : sent'[challenge][i] = sent[challenge][i]
      PROVE  CompleteSoFar'
    BY <1>6 DEF CompleteSoFar, Complete, FirstSent, WasSent
<1>7. CASE ReceiverSetup
    BY <1>6, <1>7 DEF ReceiverSetup, senderVars
<1>8. ASSUME NEW length \in Lengths, SV_Netchan_Transmit(length) PROVE CompleteSoFar'
  <2>1. /\ challenge' = challenge
        /\ Len(sent'[challenge]) = Len(sent[challenge]) + 1
        /\ sent'[challenge][Len(sent[challenge]) + 1] = length
        /\ \A k \in 1..Len(sent[challenge]) : sent'[challenge][k] = sent[challenge][k]
      BY <1>1, <1>8, AppendKeeps DEF SV_Netchan_Transmit
  <2>2. \A i \in 1..(outgoingSequence - 1) : sent'[challenge][i] = sent[challenge][i]
      BY <1>1, <1>3, <2>1
  <2>3. CASE MustQueue
      BY <1>6, <1>8, <2>1, <2>2, <2>3 DEF SV_Netchan_Transmit
  <2>4. CASE ~MustQueue
    <3>1. ~unsentFragments /\ outgoingSequence = Len(sent[challenge]) + 1
        BY <1>1, <1>2, <2>4 DEF MustQueue
    <3>2. Netchan_Transmit(outgoingSequence, length) /\ length \in Nat
        BY <1>4, <1>8, <2>4, <3>1 DEF SV_Netchan_Transmit
    <3> QED
        BY <1>1, <2>1, <2>2, <3>1, <3>2, SendCompletes
  <2> QED
      BY <2>3, <2>4
<1>9. CASE SV_Netchan_TransmitNextFragment
  <2>1. challenge' = challenge /\ sent' = sent
      BY <1>9 DEF SV_Netchan_TransmitNextFragment
  <2>2. CASE unsentFragments
    <3>1. outgoingSequence \in 1..Len(sent[challenge])
        BY <1>1, <1>2, <2>2
    <3>2. unsentLength \in Nat
        BY <1>1 DEF TypeOK
    <3>3. SendPiece(outgoingSequence, unsentLength, unsentFragmentStart)
        BY <1>2, <1>9, <2>2 DEF SV_Netchan_TransmitNextFragment
    <3> QED
        BY <1>1, <1>2, <2>1, <2>2, <3>2, <3>3, SendCompletes
  <2>3. CASE ~unsentFragments
    <3>1. queue # <<>> /\ Len(queue) > 0
        BY <1>1, <1>9, <2>3 DEF SV_Netchan_TransmitNextFragment
    <3>2. Head(queue) = outgoingSequence /\ outgoingSequence \in 1..Len(sent[challenge])
        BY <1>1, <1>2, <2>3, <3>1
    <3>3. Netchan_Transmit(outgoingSequence, sent[challenge][outgoingSequence])
        BY <1>9, <2>3, <3>2 DEF SV_Netchan_TransmitNextFragment
    <3>4. PICK length \in Nat : length = sent[challenge][outgoingSequence]
      <4>1. sent[challenge][outgoingSequence] \in Lengths
          BY <1>1, <3>2
      <4> QED
          BY <1>4, <4>1
    <3>5. Netchan_Transmit(outgoingSequence, length) /\ sent'[challenge][outgoingSequence] = length
          /\ \A i \in 1..(outgoingSequence - 1) : sent'[challenge][i] = sent[challenge][i]
        BY <2>1, <3>3, <3>4
    <3> QED
        BY <1>1, <2>1, <2>3, <3>5, SendCompletes
  <2> QED
      BY <2>2, <2>3
<1>12. CASE SV_DropClient
  <2>1. \A i \in 1..(outgoingSequence - 1) : sent'[challenge][i] = sent[challenge][i]
    <3>1. \A i \in 1..(outgoingSequence - 1) : i \in 1..Started(challenge)
        BY <1>1, <1>2 DEF Started
    <3> QED
        BY <1>12, <3>1, DropStep
  <2> QED
      BY <1>6, <1>12, <2>1 DEF SV_DropClient
<1>13. CASE ZombieToFree
    BY <1>6, <1>13 DEF ZombieToFree
<1>10. CASE \E p \in net : Netchan_Process(p)
    BY <1>6, <1>10 DEF Netchan_Process, senderVars
<1>11. CASE UNCHANGED vars
    BY <1>6, <1>11 DEF vars, senderVars
<1> QED
    BY <1>5, <1>7, <1>8, <1>9, <1>10, <1>11, <1>12, <1>13 DEF Next

(* Of every message that the sender has moved on from, packets enough to   *)
(* put it together have been sent, the empty one included that ends a      *)
(* message of exactly so many full fragments.                              *)
THEOREM NothingCutOff == Spec => []SentCompletely
<1>1. Init => CompleteSoFar
    BY DEF Init, CompleteSoFar
<1>2. CompleteSoFar => SentCompletely
    BY DEF CompleteSoFar, SentCompletely, Complete
<1>3. IInv /\ CompleteSoFar /\ [Next]_vars => CompleteSoFar'
    BY CompleteStep
<1> QED
    BY <1>1, <1>2, <1>3, Invariance, PTL DEF Spec
=============================================================================
