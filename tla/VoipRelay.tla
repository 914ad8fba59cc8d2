------------------------------ MODULE VoipRelay ------------------------------
(***************************************************************************)
(* Voice from a talker to a listener: recorded and numbered by the         *)
(* talker's client (CL_CaptureVoip, CL_WritePacket), put in the listener's *)
(* queue by the server (SV_UserVoip), written into snapshots as far as     *)
(* they have room (SV_WriteVoipToClient), and decoded (CL_ParseVoip).      *)
(*                                                                         *)
(* Messages are lost, and else arrive in order (Netchan), so that one way  *)
(* is a step and the other a message at a time.  A talker's recordings are *)
(* told apart by their generation, a byte that skips zero; the next player *)
(* in the talker's slot begins at one again.                               *)
(***************************************************************************)
EXTENDS Integers, Sequences, FiniteSets

CONSTANTS QueueLength,      \* VOIP_QUEUE_LENGTH
          MaxGeneration,    \* 255
          PacketFrames,     \* VOIP_MAX_PACKET_FRAMES
          DecodedPackets,   \* the packets that fit in CL_ParseVoip's buffer: 4
          NoPacket,
          Recordings,       \* bound: how many each talker begins, by turn
          MaxSequence       \* bound

Packet == [who : DOMAIN Recordings, recording : Nat \ {0}, generation : 1..MaxGeneration,
           sequence : 0..MaxSequence, frames : 1..PacketFrames]

ASSUME VoipAssumption ==
    /\ QueueLength \in Nat \ {0} /\ MaxGeneration \in Nat \ {0} /\ PacketFrames \in Nat \ {0}
    /\ DecodedPackets \in Nat \ {0} /\ NoPacket \notin Packet
    /\ Recordings \in Seq(Nat) /\ Recordings # <<>> /\ MaxSequence \in Nat

VARIABLES talker,       \* voipOutgoing*; history: who it is and which recording
          voip,         \* the listener's queue on the server: voipPacket (NoPacket: not
                        \* in memory), queuedVoipIndex, queuedVoipPackets
          listener,     \* state, downloadName, and voipIncoming* of its client
          snapshot,     \* packets on the way to the listener, not yet parsed
          played        \* history: the last packet decoded

voipVars == <<talker, voip, listener, snapshot, played>>

Ring == 0..QueueLength - 1

VoipTypeOK ==
    /\ talker.who \in DOMAIN Recordings /\ talker.recording \in 0..Recordings[talker.who]
    /\ talker.generation \in 0..MaxGeneration /\ talker.sequence \in Nat
    /\ talker.pending \in 0..PacketFrames
    /\ \A i \in Ring : voip.packet[i] = NoPacket \/ voip.packet[i] \in Packet
    /\ voip.index \in Ring /\ voip.queued \in 0..QueueLength
    /\ listener.here \in BOOLEAN /\ listener.downloading \in BOOLEAN
    /\ listener.generation \in 0..MaxGeneration /\ listener.sequence \in Nat
    /\ \A k \in DOMAIN snapshot : snapshot[k] \in Packet
-----------------------------------------------------------------------------
NewTalker(w) == [who |-> w, recording |-> 0, generation |-> 0, sequence |-> 0, pending |-> 0]
EmptyVoip == [packet |-> [i \in Ring |-> NoPacket], index |-> 0, queued |-> 0]

(* Where the k-th of the queued packets is, and all of them. *)
RingSlot(v, k) == (v.index + k - 1) % QueueLength
Queued(v) == [k \in 1..v.queued |-> v.packet[RingSlot(v, k)]]

(* CL_VoipNewGeneration, as a recording begins or after silence, unless a  *)
(* packet is pending. *)
NextGeneration(g) == IF g = MaxGeneration THEN 1 ELSE g + 1
CL_VoipNewGeneration ==
    /\ talker.pending = 0 /\ talker.recording < Recordings[talker.who]
    /\ talker' = [talker EXCEPT !.generation = NextGeneration(@), !.sequence = 0, !.recording = @ + 1]
    /\ UNCHANGED <<voip, listener, snapshot, played>>

(* CL_CaptureVoip: a packet of some frames is recorded, if none is pending. *)
CL_CaptureVoip(frames) ==
    /\ talker.recording > 0 /\ talker.pending = 0
    /\ talker' = [talker EXCEPT !.pending = frames]
    /\ UNCHANGED <<voip, listener, snapshot, played>>

(* SV_UserVoip, for one listener: muted, not addressed, with a talker who  *)
(* downloads, or with a packet that did not come, it is not among the      *)
(* hearers.  That the listener downloads is not asked.                     *)
HasRoom(v) == v.queued < QueueLength
SV_UserVoip(p) ==
    IF listener.here /\ HasRoom(voip)
    THEN voip' = [voip EXCEPT !.packet[RingSlot(voip, voip.queued + 1)] = p, !.queued = @ + 1]
    ELSE UNCHANGED voip

(* CL_WritePacket sends what is pending, and it comes to the server or is  *)
(* lost; or drops it, when it is for nobody.                               *)
Outgoing == [who |-> talker.who, recording |-> talker.recording, generation |-> talker.generation,
             sequence |-> talker.sequence, frames |-> talker.pending]
SendVoip(heard) ==
    /\ talker.pending > 0
    /\ talker.sequence + talker.pending <= MaxSequence
    /\ talker' = [talker EXCEPT !.sequence = @ + talker.pending, !.pending = 0]
    /\ IF heard THEN SV_UserVoip(Outgoing) ELSE UNCHANGED voip
    /\ UNCHANGED <<listener, snapshot, played>>
DropVoip ==
    /\ talker.pending > 0
    /\ talker' = [talker EXCEPT !.pending = 0]
    /\ UNCHANGED <<voip, listener, snapshot, played>>

(* SV_WriteVoipToClient: the first n of the queued packets have room in a  *)
(* snapshot, which comes to the client or is lost.  While there is a       *)
(* download all go nowhere.                                                *)
FreedFirst(v, n) ==
    [i \in Ring |-> IF \E k \in 1..n : i = RingSlot(v, k) THEN NoPacket ELSE v.packet[i]]
Advanced_IndexKept(v, n) == [v EXCEPT !.packet = FreedFirst(v, n), !.queued = @ - n]
Advanced(v, n) ==
    [packet |-> FreedFirst(v, n), index |-> (v.index + n) % QueueLength, queued |-> v.queued - n]
SV_WriteVoipToClient(n, comes) ==
    /\ listener.here /\ voip.queued > 0 /\ snapshot = <<>>
    /\ listener.downloading => n = voip.queued
    /\ voip' = Advanced(voip, n)
    /\ snapshot' = IF comes /\ ~listener.downloading THEN SubSeq(Queued(voip), 1, n) ELSE <<>>
    /\ UNCHANGED <<talker, listener, played>>

(* CL_ParseVoip.  The decoder goes on, after concealing the frames that    *)
(* are missing, or begins anew.  Of what the listener ignores nothing is   *)
(* noticed. *)
Difference(p) == p.sequence - listener.sequence
Continues(p) == p.generation = listener.generation /\ Difference(p) \in 0..DecodedPackets - 1
NextSequence_One(p) == p.sequence + 1
NextSequence(p) == p.sequence + p.frames
CL_ParseVoip(ignored) ==
    /\ snapshot # <<>>
    /\ snapshot' = Tail(snapshot)
    /\ IF ignored
       THEN UNCHANGED <<listener, played>>
       ELSE LET p == Head(snapshot)
            IN  /\ listener' = [listener EXCEPT !.generation = p.generation, !.sequence = NextSequence(p)]
                /\ played' = p
    /\ UNCHANGED <<talker, voip>>

(* Another player takes the talker's slot, or the same one, after the      *)
(* connection was cleared on both sides.                                   *)
TalkerChanges ==
    /\ talker.who < Len(Recordings)
    /\ talker' = NewTalker(talker.who + 1)
    /\ UNCHANGED <<voip, listener, snapshot, played>>

(* SV_FreeClient, when the listener is dropped: the queued packets are     *)
(* freed, from queuedVoipIndex as long as that is less than their number.  *)
Freed(v) == [i \in Ring |-> IF v.index <= i /\ i < v.queued THEN NoPacket ELSE v.packet[i]]
SV_FreeClient ==
    /\ listener.here
    /\ voip' = [voip EXCEPT !.packet = Freed(voip), !.queued = 0]
    /\ listener' = [listener EXCEPT !.here = FALSE, !.downloading = FALSE]
    /\ snapshot' = <<>>
    /\ UNCHANGED <<talker, played>>

(* SV_DirectConnect overwrites the slot, of a client that was dropped or   *)
(* that reconnects, and the client begins anew.                            *)
ListenerConnects ==
    /\ voip' = EmptyVoip
    /\ listener' = [here |-> TRUE, downloading |-> FALSE, generation |-> 0, sequence |-> 0]
    /\ snapshot' = <<>> /\ played' = NoPacket
    /\ UNCHANGED talker

(* A download begins or ends. *)
DownloadChanges ==
    /\ listener.here
    /\ listener' = [listener EXCEPT !.downloading = ~@]
    /\ UNCHANGED <<talker, voip, snapshot, played>>
-----------------------------------------------------------------------------
VoipInit ==
    /\ talker = NewTalker(1)
    /\ voip = EmptyVoip
    /\ listener = [here |-> TRUE, downloading |-> FALSE, generation |-> 0, sequence |-> 0]
    /\ snapshot = <<>> /\ played = NoPacket

VoipNext ==
    \/ CL_VoipNewGeneration
    \/ \E frames \in 1..PacketFrames : CL_CaptureVoip(frames)
    \/ \E heard \in BOOLEAN : SendVoip(heard)
    \/ DropVoip
    \/ \E n \in 0..voip.queued, comes \in BOOLEAN : SV_WriteVoipToClient(n, comes)
    \/ \E ignored \in BOOLEAN : CL_ParseVoip(ignored)
    \/ TalkerChanges
    \/ SV_FreeClient
    \/ ListenerConnects
    \/ DownloadChanges

VoipSpec == VoipInit /\ [][VoipNext]_voipVars
-----------------------------------------------------------------------------
(* Packet p was recorded after packet q. *)
RecordedAfter(p, q) ==
    \/ p.who > q.who
    \/ p.who = q.who /\ p.recording > q.recording
    \/ p.who = q.who /\ p.recording = q.recording /\ p.sequence >= q.sequence + q.frames

InOrder(s) == \A i, j \in DOMAIN s : i < j => RecordedAfter(s[j], s[i])

(* Wherever the ring's index is, the queued packets are in memory, in the  *)
(* order of their recording and after all that went on before: none is     *)
(* sent twice, or sent after it is freed.                                  *)
RelayInv ==
    /\ VoipTypeOK
    /\ \A k \in 1..voip.queued : Queued(voip)[k] # NoPacket
    /\ InOrder((IF played = NoPacket THEN <<>> ELSE <<played>>)
                   \o snapshot \o Queued(voip)
                   \o (IF talker.pending = 0 THEN <<>> ELSE <<Outgoing>>))

(* The decoder goes on from one packet to the next, with the frames that   *)
(* are missing between them concealed, if they are of one recording and    *)
(* few enough are missing, and else begins anew (cl_parse.c:756), whatever *)
(* was lost on either way or found no room; so long as the same player     *)
(* talks and has not begun as many recordings as a byte counts.            *)
DecodedRight ==
    (snapshot # <<>> /\ played # NoPacket) =>
        LET p == Head(snapshot)
            missing == p.sequence - (played.sequence + played.frames)
        IN  (p.who = played.who /\ p.recording - played.recording < MaxGeneration) =>
                IF p.recording = played.recording /\ missing < DecodedPackets
                THEN Continues(p) /\ Difference(p) = missing
                ELSE ~Continues(p)

(* A packet before the one expected "shouldn't happen unless the packet is *)
(* corrupted or something" (cl_parse.c:762).  (It does not hold: the next  *)
(* player in the talker's slot begins with the same generation.)           *)
NeverMisordered ==
    snapshot # <<>> =>
        ~(Head(snapshot).generation = listener.generation /\ Difference(Head(snapshot)) < 0)

(* The "destructor for data allocated in a client structure" (SV_FreeClient, *)
(* sv_client.c:391) leaves none of the client's packets in memory.  (It    *)
(* does not hold: their number is taken for the index of the last.)        *)
DestructorFreesAll == ~listener.here => \A i \in Ring : voip.packet[i] = NoPacket
==============================================================================
