------------------------------ MODULE Download ------------------------------
(***************************************************************************)
(* A client downloads the files it lacks from the server, one after        *)
(* another: CL_ParseDownload and CL_NextDownload in the client,            *)
(* SV_WriteDownloadToClient and the commands download, nextdl, stopdl and  *)
(* donedl in server/sv_client.c.                                           *)
(*                                                                         *)
(* The server sends each block once as the window allows, and when no      *)
(* answer comes for a second begins the window again; how long an answer   *)
(* takes is left open, so it may do so whenever the window is sent.  The   *)
(* client's commands arrive in order, each once (ClientCommands,           *)
(* ImplementsStream); the server's messages are lost, or arrive in order   *)
(* and once (Netchan, ImplementsStream).                                   *)
(***************************************************************************)
EXTENDS Integers, Sequences

CONSTANTS
    MAX_DOWNLOAD_WINDOW,    \* blocks sent and not acknowledged
    BlockNumbers,           \* the block numbers a message can hold: 2^16
    NumBlocks,              \* the blocks of data in each file of clc.downloadList
    Refused,                \* the files the server does not let be downloaded
    MaxInFlight,            \* bound: messages on the way to the client
    MaxCommands             \* bound: commands on the way to the server

Files == DOMAIN NumBlocks
W == MAX_DOWNLOAD_WINDOW

ASSUME DownloadAssumption ==
    /\ MAX_DOWNLOAD_WINDOW \in Nat \ {0}
    /\ BlockNumbers \in Nat /\ BlockNumbers > MAX_DOWNLOAD_WINDOW
    /\ NumBlocks \in Seq(Nat) /\ NumBlocks # <<>>
    /\ Refused \subseteq Files
    /\ MaxInFlight \in Nat \ {0}
    /\ MaxCommands \in Nat \ {0}

VARIABLES
    (* client: clc *)
    connected,              \* FALSE after an ERR_DROP
    wanted,                 \* the file in clc.downloadName, or 0
    downloadBlock,          \* clc.downloadBlock: the next block
    written,                \* the contents of the temporary file
    saved,                  \* history: what each file held when it was renamed
    (* server: client_t *)
    state,                  \* CS_CONNECTED, CS_PRIMED or CS_ZOMBIE
    downloadName,           \* the file asked for, or 0
    open,                   \* whether cl->download is open
    downloadCurrentBlock,   \* the blocks read
    downloadClientBlock,    \* the blocks acknowledged
    downloadXmitBlock,      \* the next block to send
    downloadBlocks,         \* the ring of blocks
    (* between them *)
    toClient,               \* download messages, oldest first
    commands                \* reliable commands not executed, oldest first

clientVars == <<connected, wanted, downloadBlock, written, saved>>
window == <<downloadCurrentBlock, downloadClientBlock, downloadXmitBlock, downloadBlocks>>
serverVars == <<state, downloadName, open, window>>
downloadVars == <<clientVars, serverVars, toClient, commands>>

Slots == 0..(W - 1)
Slot(k) == k % W
MinOf(a, b) == IF a < b THEN a ELSE b

(* A block of data is its file and its number.                             *)
EOF == <<0, 0>>
Garbage == <<0, 1>>
Block(f, k) == IF k < NumBlocks[f] THEN <<f, k>> ELSE EOF
Contents(f) == [k \in 1..NumBlocks[f] |-> <<f, k - 1>>]
Unsaved == <<EOF>>

Command(op, arg) == [op |-> op, arg |-> arg]

(* The gamestate has come, and CL_InitDownloads has begun the first file.  *)
DownloadInit ==
    /\ connected = TRUE
    /\ wanted = 1
    /\ downloadBlock = 0
    /\ written = <<>>
    /\ saved = [f \in Files |-> Unsaved]
    /\ state = "CS_CONNECTED"
    /\ downloadName = 0
    /\ open = FALSE
    /\ downloadCurrentBlock = 0
    /\ downloadClientBlock = 0
    /\ downloadXmitBlock = 0
    /\ downloadBlocks = [s \in Slots |-> EOF]
    /\ toClient = <<>>
    /\ commands = <<Command("download", 1)>>

-----------------------------------------------------------------------------
(* The server.                                                             *)

(* Mutant: the window holds one block more than the ring.                  *)
ReadUpTo_PastWindow(f, acked) == MinOf(acked + W + 1, NumBlocks[f] + 1)

(* Blocks are read while the window has room, the last of them the empty   *)
(* block at the end.                                                       *)
ReadUpTo(f, acked) == MinOf(acked + W, NumBlocks[f] + 1)

(* What the client has acknowledged of the file: opening it resets this.   *)
Acknowledged == IF open THEN downloadClientBlock ELSE 0

(* Mutant: nothing is sent twice.                                          *)
NextToSend_Once(xmit, current, acked) == xmit

(* A window that has been sent is sent again.                              *)
NextToSend(xmit, current, acked) == IF xmit = current THEN acked ELSE xmit

RingWith(f, from, to) ==
    [s \in Slots |->
        LET read == {k \in from..(to - 1) : Slot(k) = s}
        IN  IF read = {} THEN downloadBlocks[s]
            ELSE Block(f, CHOOSE k \in read : \A j \in read : j <= k)]

(* SV_WriteDownloadToClient when the file may not be downloaded.           *)
RefuseDownload ==
    /\ downloadName \in Refused
    /\ toClient' = Append(toClient, [block |-> 0, hasSize |-> TRUE, refused |-> TRUE,
                                     data |-> EOF])
    /\ downloadName' = 0
    /\ UNCHANGED <<clientVars, state, open, window, commands>>

(* SV_WriteDownloadToClient otherwise: opening resets the window.          *)
SendBlock ==
    /\ downloadName \in Files \ Refused
    /\ LET f == downloadName
           acked == Acknowledged
           from == IF open THEN downloadCurrentBlock ELSE 0
           current == ReadUpTo(f, acked)
           block == NextToSend(IF open THEN downloadXmitBlock ELSE 0, current, acked)
       IN  /\ block < current
           /\ open' = TRUE
           /\ downloadClientBlock' = acked
           /\ downloadCurrentBlock' = current
           /\ downloadBlocks' = RingWith(f, from, current)
           /\ downloadXmitBlock' = block + 1
           /\ toClient' = Append(toClient, [block |-> block % BlockNumbers,
                                            hasSize |-> block = 0, refused |-> FALSE,
                                            data |-> downloadBlocks'[Slot(block)]])
    /\ UNCHANGED <<clientVars, state, downloadName, commands>>

SV_SendDownloadMessages ==
    /\ Len(toClient) < MaxInFlight
    /\ RefuseDownload \/ SendBlock

SV_CloseDownload == downloadName' = 0 /\ open' = FALSE

(* The block the client acknowledges is the oldest of the window.          *)
Acknowledges(k) == k = downloadClientBlock

(* Mutant: the file is complete when its last block of data is.            *)
IsEnd_Early == downloadBlocks[Slot(downloadClientBlock + 1)] = EOF

(* The file is complete when its empty block is acknowledged.              *)
IsEnd == downloadBlocks[Slot(downloadClientBlock)] = EOF

SV_BeginDownload_f(f) ==
    /\ downloadName' = f
    /\ open' = FALSE
    /\ UNCHANGED <<state, window>>

SV_StopDownload_f == SV_CloseDownload /\ UNCHANGED <<state, window>>

SV_NextDownload_f(k) ==
    \/ /\ Acknowledges(k)
       /\ IsEnd
       /\ SV_CloseDownload
       /\ UNCHANGED <<state, window>>
    \/ /\ Acknowledges(k)
       /\ ~IsEnd
       /\ downloadClientBlock' = downloadClientBlock + 1
       /\ UNCHANGED <<state, downloadName, open, downloadCurrentBlock, downloadXmitBlock,
                      downloadBlocks>>
    \/ /\ ~Acknowledges(k)
       /\ state' = "CS_ZOMBIE"
       /\ SV_CloseDownload
       /\ UNCHANGED window

(* The gamestate that follows is not modelled here.                        *)
SV_DoneDownload_f ==
    /\ state' = "CS_PRIMED"
    /\ UNCHANGED <<downloadName, open, window>>

SV_ExecuteClientCommand ==
    /\ commands # <<>>
    /\ state # "CS_ZOMBIE"
    /\ LET c == Head(commands)
       IN  \/ c.op = "download" /\ SV_BeginDownload_f(c.arg)
           \/ c.op = "nextdl" /\ SV_NextDownload_f(c.arg)
           \/ c.op = "stopdl" /\ SV_StopDownload_f
           \/ c.op = "donedl" /\ SV_DoneDownload_f
    /\ commands' = Tail(commands)
    /\ UNCHANGED <<clientVars, toClient>>

-----------------------------------------------------------------------------
(* The client.                                                             *)

(* Com_Error(ERR_DROP): the connection is over.                            *)
Leave == connected' = FALSE /\ UNCHANGED <<wanted, downloadBlock, written, commands>>

(* FS_CompareZipChecksum: the file is one of those the server references.  *)
ChecksumKnown(contents) == \E f \in Files : contents = Contents(f)

(* CL_NextDownload, once the block at the end has come and the temporary   *)
(* file has been renamed.                                                  *)
CL_NextDownload ==
    /\ saved' = [saved EXCEPT ![wanted] = written]
    /\ \/ /\ ~ChecksumKnown(written)
          /\ Leave
       \/ /\ ChecksumKnown(written)
          /\ LET acknowledged == Append(commands, Command("nextdl", downloadBlock))
                 more == wanted < Len(NumBlocks)
             IN  /\ commands' = Append(acknowledged, IF more THEN Command("download", wanted + 1)
                                                     ELSE Command("donedl", 0))
                 /\ wanted' = IF more THEN wanted + 1 ELSE 0
          /\ downloadBlock' = 0
          /\ written' = <<>>
          /\ UNCHANGED connected

TakeBlock(data) ==
    \/ /\ data = EOF
       /\ CL_NextDownload
    \/ /\ data # EOF
       /\ written' = Append(written, data)
       /\ downloadBlock' = downloadBlock + 1
       /\ commands' = Append(commands, Command("nextdl", downloadBlock))
       /\ UNCHANGED <<connected, wanted, saved>>

IsExpected(m) == m.block = downloadBlock % BlockNumbers

(* The client reads the size of the file if it expects the first block,    *)
(* not if the server wrote it.  If they differ it reads the rest out of    *)
(* step: garbage, which is refused or taken for data.                      *)
ReadsSize(m) == m.block = 0 /\ downloadBlock = 0
InStep(m) == m.hasSize = ReadsSize(m)

CL_ParseDownload ==
    /\ connected
    /\ toClient # <<>>
    /\ Len(commands) < MaxCommands
    /\ toClient' = Tail(toClient)
    /\ LET m == Head(toClient)
       IN  \/ /\ wanted = 0         \* "stopdl"; the rest of the message is not read
              /\ \/ /\ commands' = Append(commands, Command("stopdl", 0))
                    /\ UNCHANGED clientVars
                 \/ Leave /\ UNCHANGED saved
           \/ /\ wanted # 0
              /\ ~InStep(m) \/ m.refused
              /\ Leave
              /\ UNCHANGED saved
           \/ /\ wanted # 0
              /\ ~IsExpected(m)
              /\ UNCHANGED <<clientVars, commands>>
           \/ /\ wanted # 0
              /\ IsExpected(m)
              /\ ~m.refused
              /\ TakeBlock(IF InStep(m) THEN m.data ELSE Garbage)
    /\ UNCHANGED serverVars

-----------------------------------------------------------------------------
Lose ==
    /\ toClient # <<>>
    /\ toClient' = Tail(toClient)
    /\ UNCHANGED <<clientVars, serverVars, commands>>

DownloadNext ==
    \/ SV_SendDownloadMessages
    \/ SV_ExecuteClientCommand
    \/ CL_ParseDownload
    \/ Lose

DownloadSpec == DownloadInit /\ [][DownloadNext]_downloadVars

(* The server sends while a download is in progress, the client's commands *)
(* arrive, and the network does not lose every copy of the block that the  *)
(* client waits for.                                                       *)
DownloadFairness ==
    /\ WF_downloadVars(SV_SendDownloadMessages)
    /\ WF_downloadVars(SV_ExecuteClientCommand)
    /\ WF_downloadVars(CL_ParseDownload)
    /\ SF_downloadVars(CL_ParseDownload /\ IsExpected(Head(toClient)))

FairDownloadSpec == DownloadSpec /\ DownloadFairness

-----------------------------------------------------------------------------
(* Properties.                                                             *)

(* Every variable holds a value of its type.                               *)
Data == (Files \X Nat) \cup {EOF, Garbage}
Messages == [block : 0..(BlockNumbers - 1), hasSize : BOOLEAN, refused : BOOLEAN, data : Data]
DownloadTypeOK ==
    /\ connected \in BOOLEAN
    /\ wanted \in Files \cup {0}
    /\ downloadBlock \in Nat
    /\ written \in Seq(Data)
    /\ saved \in [Files -> Seq(Data)]
    /\ state \in {"CS_CONNECTED", "CS_PRIMED", "CS_ZOMBIE"}
    /\ downloadName \in Files \cup {0}
    /\ open \in BOOLEAN
    /\ downloadCurrentBlock \in Nat
    /\ downloadClientBlock \in Nat
    /\ downloadXmitBlock \in Nat
    /\ downloadBlocks \in [Slots -> Data]
    /\ toClient \in Seq(Messages)
    /\ commands \in Seq([op : {"download", "nextdl", "stopdl", "donedl"}, arg : Nat])

(* The ring holds every block that the client has not acknowledged.        *)
WindowHeld ==
    open =>
       /\ downloadClientBlock <= downloadCurrentBlock
       /\ \A k \in downloadClientBlock..(downloadCurrentBlock - 1) :
             downloadBlocks[Slot(k)] = Block(downloadName, k)

(* What is written is the beginning of the file, without a gap or a        *)
(* repetition, and a file that is renamed is whole and is itself, though   *)
(* messages are lost, the window is sent again and block numbers wrap.     *)
SavedWhole ==
    /\ written = [k \in 1..downloadBlock |-> <<wanted, k - 1>>]
    /\ \A f \in Files : saved[f] \in {Unsaved, Contents(f)}

(* No client is dropped for a "broken download": every nextdl names the    *)
(* block the server waits for ("The argument will be the last acknowledged *)
(* block from the client, it should be the same as                         *)
(* cl->downloadClientBlock").                                              *)
NeverBroken == state # "CS_ZOMBIE"

(* The server is never ahead of the client: what it takes for acknowledged *)
(* is written, so it sends again all that the client may lack.             *)
ServerBehind ==
    open /\ downloadName = wanted /\ connected => downloadClientBlock <= downloadBlock

DownloadInv == DownloadTypeOK /\ WindowHeld /\ ServerBehind /\ SavedWhole

(* The client tells the server that it has all the files, in the end,      *)
(* unless the connection ends or it comes to a file that is refused.  (The *)
(* refusal is sent once: if it is lost the client waits for ever.)         *)
EventuallyDone ==
    <>(\/ ~connected
       \/ wanted \in Refused
       \/ state = "CS_PRIMED" /\ \A f \in Files : saved[f] = Contents(f))

(* "if we have already reached our window, automatically start             *)
(* retransmitting" (sv_client.c:832): sending a block again does not make  *)
(* the client end the connection.                                          *)
RetransmissionHarmless == connected
=============================================================================
