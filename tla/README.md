# Quackulous: a verification of its client/server core

Quackulous is a Tremulous (ioquake3) game: an authoritative server (`src/src/server`), clients
(`src/src/client`), the messages between them (`src/src/qcommon`), and game code on both sides
(`src/src/game`, `src/src/cgame`), with bots as the main addition. The modules here model the part
in which the hard problems are: agreement between a server and its clients over datagrams that are
lost, duplicated and reordered, with rings of fixed size on both ends, and agreement between server
and game about who is there; and, of the game, its shared structures: waypoints and searches, votes,
spawn queues, memory. TLC checks every module on small instances; some components also have
proofs, checked by TLAPS, for every value of their constants.

## 1. Inventory

Each component: its state, its operations, what it talks to, what is hard, what makes it correct.

| component | state | operations | hard | correct when |
|---|---|---|---|---|
| netchan (`net_chan.c`, `sv_net_chan.c`) | sequence numbers, the message being fragmented, the reassembly buffer, the server's queue | set-up, transmit, next fragment, process, drop | loss, duplication, reordering, old connections, messages of exactly k fragments | what is delivered is whole, in order, at most once; what is handed over is sent to its end, unless the client is dropped first |
| server commands (`sv_main.c`, `sv_snapshot.c`, `cl_cgame.c`, `cg_snapshot.c`) | a ring at each end, sequence and acknowledgement | add, drop, repeat, acknowledge, execute | the ring full, lost acknowledgements, a cgame that lags, a drop that itself adds commands | executed once, in order, without a gap, or the client is dropped and finds out |
| client commands and usercmds (`cl_main.c`, `cl_input.c`, `sv_client.c`) | ring, usercmds of past packets; last command and usercmd taken | add, create, write packet, disconnect, execute, time out | order between commands and usercmds, bursts of loss, leaving with a full ring | commands once and in order and before later usercmds; usercmds never twice; a client that left is gone |
| downloads (`sv_client.c`, `cl_parse.c`, `files.c`) | window of blocks, current/acknowledged/next block; temporary file | download, nextdl, stopdl, donedl, send, retransmit | lost blocks, windows sent again, wrapping numbers, one file after another | a file that is renamed is whole; the end is reached |
| snapshots (`sv_snapshot.c`, `cl_parse.c`) | rings of frames and of entities at each end, the base asked for | build, encode, parse, ask for a base, gamestate, new map | a base overwritten or lost, a ring shared by all clients, packets of the last map | decoded from what it was encoded from |
| slots and game clients (`sv_client.c`, `g_client.c`, `sv_init.c`, `sv_ccmds.c`) | `svs.clients`, `level.clients`, one flag shared | connect, refuse, enter, drop, time out, restart | nested calls between server and game, refusal after acceptance, duplicate GUIDs | both agree about every slot; an address has one slot |
| challenges and the client's connection state (`sv_client.c`, `cl_main.c`) | the table of challenges; `clc.state` | getchallenge, connect, connectResponse, disconnect | out-of-band packets lost, late or duplicated, eviction | both mean the same connection, and none is begun again by a late packet |
| bots (`g_bot.c`) | bot flag, `g_bot_count`, path | spawn, remove, count, think | slots without a network client: no acknowledgements, no packets | what is counted and removed as a bot is one |
| bot navigation (`g_nav.c`) | graph of waypoints, paths of indices | add, delete, link, load, search | indices stale after a deletion, paths longer than the limit, links full | edits change what they name and nothing else; a path is one of the graph, to the goal, and not followed for ever when it is stale |
| rate limiting (`sv_main.c`) | buckets in hash chains | look up, count, reclaim | reclaiming while chained | no address gets more than its rate, or is refused for less |
| VoIP relay (`sv_client.c`, `sv_snapshot.c`) | ring of queued packets | queue, write, free | the ring full or advanced when freed | packets in order, decoded with the right state, each freed once |
| server frame, map_restart, shutdown | `sv.state`, `svs.time`, `sv.serverId` | frame, restart, spawn, shut down | clients between two maps | clients are carried over or dropped |
| pure validation (`sv_client.c`) | `gotCP`, `pureAuthentic` | cp | cp of an earlier gamestate | |
| master server (`src/src/master`) | table of servers | heartbeat, getservers, time out | challenges, time | |
| votes (`g_cmds.c`, `g_main.c`) | the ballot, who has voted, what waits to be executed | call, vote, leave, check, end | voters who come, leave and change teams, a vote called while another waits | counters and voters agree; what is executed was passed; an early decision is right |
| spawn queues (`g_main.c`, `g_team.c`, `g_active.c`) | a ring for each team | push, pop, remove, follow | one who leaves from the middle of a ring that has wrapped; a playerState_t that is another's | first come, first served; nobody's place is lost but by leaving it, or to one that leaves with the same number |
| game memory (`bg_alloc.c`) | the free list of a pool | alloc, free, defragment | blocks split at the end, merged with one neighbour only | nothing is handed out twice or lost |
| map rotation; buildables; movers; entity allocation (`src/src/game`) | level state | | scripts, timers, trees | |
| combat, physics, collision; message encoding; command buffer; VM; file system; rendering, sound, UI; platform; libraries | | | | not modelled, see section 8 |

How they interact: the client's packets and the server's messages travel over netchans, one for
each direction. Each carries acknowledgements of the other, which is how reliable commands, bases
of snapshots and downloads go forward. Server and client call their game code synchronously, and
the game calls back (`trap_SendServerCommand`, `trap_DropClient`, `trap_BotAllocateClient`). Each
process has a single thread, so the concurrency is that of messages, and of calls that nest.

## 2. Modules

| module | what it is |
|---|---|
| `Netchan` | one direction of a netchan, with the server's queue; EXTENDS the standard modules only |
| `OrderedDatagrams` | what a netchan promises: an ordered, lossy stream of whole messages |
| `NetchanProofs` | its invariant, and that it implements `OrderedDatagrams` |
| `ServerCommands` | the reliable commands from the server to a client |
| `ClientCommands` | the reliable commands and usercmds from a client to the server |
| `ReliableStream` | what both promise: commands once, in order, without a gap, until the stream breaks |
| `ServerCommandsProofs`, `ClientCommandsProofs` | the invariants of both, and that they implement `ReliableStream` |
| `Remainders` | the arithmetic of their rings |
| `Download`, `MCDownload` | files over UDP, one after another |
| `DeltaSnapshot` | snapshots as differences |
| `DeltaSnapshotProofs` | that the client has every base, and what it makes of it is what was sent |
| `ClientSlots`, `MCClientSlots` | slots of the server, clients of the game, bots |
| `ClientSlotsProofs` | the invariant of `ClientSlots` |
| `Connection`, `MCConnection` | challenges, connection and disconnection between a client and its slot |
| `LeakyBucket` | the rate limit of connectionless requests |
| `VoipRelay` | voice from a talker over the server to a listener |
| `MCServer` | `VoipRelay`, `LeakyBucket` and `Download` in one run |
| `ServerProofs` | proofs about `VoipRelay`, `LeakyBucket`, `Download` and `Connection` |
| `WaypointGraph` | what editing waypoints promises: a graph of places |
| `NavGraph` | the array of waypoints with its indices, and its file |
| `NavPath` | the A* search |
| `BotPath` | the path a bot keeps while `NavGraph` changes |
| `Votes` | a ballot and what comes of it |
| `FairQueue` | a line without pushing in |
| `SpawnQueue` | the spawn queues of both teams, and spectators who follow |
| `GameMemory` | the pool of `bg_alloc.c` |
| `MCGame` | the modules of the game in one run |
| `GameProofs` | proofs about `NavGraph`, `NavPath`, `Votes`, `SpawnQueue` and `GameMemory` |

The layers are composed by their abstractions. `ServerCommands`, `ClientCommands`, `Download` and
`DeltaSnapshot` take for a channel what `Netchan` is shown to implement: a sequence of messages
whose head is received or lost. `Download` takes for its commands what `ClientCommands` is shown to
implement: a queue without loss. So each can be checked with the failures its lower layer leaves it.
`BotPath` is composed with `NavGraph` itself, whose actions go on while the bot keeps its path.

`MCServer` and `MCGame` put modules that share no state in one run: the variable `focus` is chosen
in the first state, and only the part it names moves, so the states of a run are the union of those
of its parts, and each property is checked with one exploration of them. The parts have names of
their own (`GraphInit`, `PathNext`, ...), so that one module can extend them all.

`PROJECT.json` gives for every definition that models code the lines it stands for, and for every
property the change of the code that breaks it. Definitions named `X_Something` that precede `X`
are such changes; no specification uses them.

### Netchan

State: `netchan_t` of the sender (`outgoingSequence`, `unsent*`), the queue `netchan_start_queue`,
`state` (a client, a zombie, or free), `netchan_t` of the receiver (`incomingSequence`, `fragment*`), and
`net`, the set of all packets ever sent. Any packet may be received at any time, any number of times, or never; so loss,
duplication, delay and reordering are unrestricted. Actions: `SenderSetup` (`SV_DirectConnect` calls
`Netchan_Setup`), `ReceiverSetup` (connectResponse), `SV_Netchan_Transmit`,
`SV_Netchan_TransmitNextFragment`, `Netchan_Process`, `SV_DropClient`, `ZombieToFree`. A drop discards the
queue (`SV_Netchan_FreeQueue`) and leaves the rest of the netchan alone: a message in the middle of its
fragments goes on, and the server sends to the zombie as it did to the client (`SV_SendClientMessages` and
`SV_SendQueuedMessages` pass over free slots only) for as long as it is one. A client that timed out is free
at once. A message is its ordinal and its length, and byte i of it is the triple of connection, ordinal and i, so bytes of two messages never look alike.
`sent` and `delivered` are history; what a drop discards is taken out of `sent`, and the next message has the
number of the first that was discarded, as on the wire. `OrderedDatagrams` has `Discard` for that: the last messages
may go, but none that was delivered. `checksum` in a packet is modelled by its challenge: the check
tells connections apart, unless two hash alike.

Left out: the loopback ring, `cl_packetdelay`, out-of-band messages, the encryption of
`CL_Netchan_Encode`, wrapping of the 32-bit sequence. A message handed over that is longer than
`MAX_MSGLEN` is an error in the code and not among `Lengths`.

### ServerCommands

State: of `client_t` the state, `reliableSequence`, `reliableAcknowledge`, the ring; of the client
`serverCommandSequence`, its ring, the snapshots not yet executed, the connection; the messages on
the way. The text of a command is its number, so that a slot that holds the wrong number is a wrong
command. `SV_SendServerCommand` and `SV_DropClient` build their effect as functions on the record
`cl` of the client, because `SV_AddServerCommand` calls `SV_DropClient`, which calls
`SV_AddServerCommand`, within one step. `CG_TransitionSnapshot` executes what precedes the snapshot
it moves to. The gamestate, which restarts the sequence at the client, and the configstrings that are longer
than a command are left out.

### ClientCommands

State: of `clc` and `cl` the ring, sequence, acknowledgement, the last usercmd and what the last
packets had; of `client_t` the last command and usercmd. `stamps`, `executed`, `thought`, `begun`,
`farewell`, `lostInRow` and `missing` are history. `CL_Disconnect` is the whole of it: the command,
three packets, the end of the connection; `CL_AddReliableCommand` on a full ring calls it.
`SV_ExecuteClientMessage` executes commands until one is missing or one disconnects, then the
usercmds. A packet that the server ignores (an old `serverId`) is one that is lost.

### Download

State: the fields `download*` of `client_t` and of `clc`, the temporary file and the files renamed.
`SendBlock` is `SV_WriteDownloadToClient`: open if not open, read while the window has room, begin
the window again if it has been sent, send one block. When the second without an answer is over is
left open, so the window may be sent again at any time. `CL_ParseDownload` includes the rename, the
check of the checksum, and the next `download` or `donedl`. Left out: disk errors, cURL, prompts.

### DeltaSnapshot

State: `client_t.frames`, `svs.snapshotEntities`, `deltaMessage`; `cl.snapshots`,
`cl.parseEntities`. A message carries the contents of its base as the server sees them, and an
entity is the number of the message it was sent in: the client decodes correctly exactly when its
base has the same contents. The entities of other clients take room in the ring
(`SnapshotsOfOthers`). A gamestate carries the `serverId`; it is sent again when the client seems to
have missed it. Left out: which entities are visible, the bits of a delta, a snapshot too large for
a message, queued gamestates, map_restart, downloads in progress.

### ClientSlots

State: for each slot, of `client_t` the state and the address, of `sharedEntity_t` the flag
`SVF_BOT` and `inuse`, of `gclient_t` `pers.connected` and `pers.guid`; and `g_bot_count`. What a
call of the game or the server does to the record of one slot is a function, so that calls that nest
are nested functions: `Bot_Spawn` is `SV_BotAllocateClient`, `ClientConnect`, `ClientBegin`.
`SV_DirectConnect` has a disjunct for each way the game can answer; `Restarted` is the end of
`SV_SpawnServer` and `SV_MapRestart_f`: the game begins anew, frames run and spawn bots, clients are
connected again or dropped, a last frame runs. Which client times out, is kicked or lags is left open. Left out:
challenges, `sv_reconnectlimit`, pings, local clients, what a slot owns in memory.

### Connection

State: `clc.state`, `clc.challenge` and the time since the last request; `svs.challenges`; of the one
`client_t` of this client the state, the challenge and the times since `lastConnectTime` and
`lastPacketTime`; and the packets on their way. A packet may be received any number of times while
it lives (`Lifetime` seconds), or never. A second is the unit of time, so any number of events happen
within one. Numbers drawn with `rand` are those nobody remembers (`FreshChallenges`); two that are
equal by chance are left out. Others ask for challenges (`OtherAsks`) and so evict ours; which entry
is the oldest is left open, as `svs.time` orders them in ways this module does not keep. The slot is
the client's whenever the server has one for it; that an address has one is `ClientSlots`' matter.
`BegunOnce` rests on `sv_reconnectlimit`: twice the life of a packet is less (`PacketsExpire`, section 4).

### LeakyBucket

State: `buckets`, `bucketHashes`, the clock. Pointers are numbers of buckets, 0 is null. An address
of a type that is neither IPv4 nor IPv6 is never found again (the `switch` of `SVC_BucketForAddress`
has no case for it) and takes a new bucket for every request. `owed` is history: an ideal bucket of
the address. The clock counts from -`HalfRange` to `HalfRange` - 1 and round again, as `int` milliseconds
do (they become negative after 24 days); `MaxTime` ends a behaviour before it has gone round once. A chain of
`bucketHashes` is the least set that holds its head and the `next` of its members (`InChain`). `SVC_RateLimit` is called with one burst and period, those of the connectionless commands.

### VoipRelay

State: what is pending at the talker and its generation and sequence; the ring of one listener; what
is in its snapshot; generation and sequence at the listener. A packet also says, as history, which
recording of which talker it is of. `TalkerChanges`: another player in the same slot begins with
generations of its own. While the listener downloads `SV_WriteVoipToClient` empties the ring and
sends nothing; `SV_UserVoip` asks only whether the *talker* downloads. Left out: targets, muting,
spatial voice, the codec.

### NavGraph, WaypointGraph

State: `g_navGraph` and the file of the map. A waypoint has a place and the set of indices of its
neighbours (their order in the array has no effect on what is modelled); `NAV_DeleteWaypoint` moves the last
to the index that is free. `CutShort` is what `NAV_LoadFromFile` makes of a file longer than its
buffer: the last number may be cut within its digits. `WaypointGraph` knows no indices: nodes are
places, links pairs of places. `ImplementsGraph` says that the array is such a graph at every step,
with files. Floating-point positions are members of `Places`, and what sees what is any relation.
`NAV_UnlinkWaypoints` is never called.

### NavPath

State: that of one call of `NAV_FindPath`, one action for each turn of its loops: `NAV_FindPath`
(arguments and start), `Expand` (one node), `StopSearch`, `StepBack` (one node of the path, from its
end). Distances are whole numbers and any metric (`IsMetric`: the triangle inequality is what the proof
needs of space), weights are multiplied by 10. `Passable` and `Multiplier` are what the team makes of walls and
flanks. The reference is `BestCosts`, Bellman's equations. If a path has more nodes than there is
room for, the first ones are missing.

### BotPath

State: of `gclient_t` the path, index, goal and time of the last search. What the search finds is
any path of the graph (`Ways`; that it is one is `NavPath`), what the bot wants and where it is are
left open. `trail` is history: the places the path meant when it was found.

### Votes

State: who is where and has voted what (`pers.voted`, `pers.vote`), `level.vote*` of one team or of
everyone, what has passed and waits. One kind of vote goes at a time. Counters below `Least` are not
reached: one who comes back to a team during its vote is counted again as it leaves, so that the counters of
a *team* vote can become negative; `VoteInv` claims exactness only for votes of everyone. Percentages are
compared as integers where the code uses `float`.

### SpawnQueue, FairQueue

State: both rings with `front` and `back`; of each client the team, whether it lives and has a class,
whom it follows, and `ps.clientNum` (`psClient`), which `SpectatorClientEndFrame` copies from the
one who is followed, and `pers.stickySpec` (`sticky`; `cg_stickySpec`, which is on unless a player turns it off, and
may change at any time). With it one may come to follow team-mates who are dead and wait, and goes on following one who
dies; `G_FollowLockView` then copies the number at once (`NumberOfTarget`). `NewTarget` is the client that
`G_FollowNewClient` comes to, up or down the numbers; `SentOn` are those whom `G_StopFromFollowing` sends on, found by
the number in the *playerState_t* of the one who leaves, which is another's if it follows. `LeaveTeam` is the part of
`ChangeTeam` and `LeaveServer` in which both hazards meet: it takes `ps.clientNum` out of the queue.

There may be as many clients as slots. If all of them wait in one queue its length is 0
(`G_GetSpawnQueueLength`), the walks from front to back find nobody, and nobody is served or can leave; `Full` names that
state. `QueuesAreFair` says that those who wait are always a line in which one joins at the end, a full one included.
`PlacesKept` says who may take a place away. That everyone is served is not claimed: a player who waits loses its place to a
follower that leaves the team, and is not told (section 5). `EventuallyServed` makes an exception for one who is watched, and
holds of fewer clients than slots (two, in rings of three, 93 060 states), but not of a full ring (`SpawnQueueFull.cfg`).

Left out: intermission, which ends all following (`MoveClientToIntermission`), the teams kept over a restart
(`restartTeam`). One who is connecting (`CON_CONNECTING`) is taken for connected.

### GameMemory

State: the list of free blocks with its links, and what is handed out. Addresses are units of the
32 bytes to which sizes are rounded. `BG_Free` with an empty list writes through a null pointer
(`bg_alloc.c:148`): that leads to `crashed`, or to nothing in a virtual machine where address 0 is
memory.

## 3. Runs

| run | instance | checks |
|---|---|---|
| `netchan` | fragments of 2 bytes, lengths 1 and 4, three messages on each of two connections and a drop on each (376 380 states) | `IInv`, `SentCompletely`, `ImplementsStream`, `QueueDrains` |
| `server_commands` | ring of 4, five commands and what drops add, one message on the way, two snapshots pending | `IInv`, `ImplementsStream`, `DropNoticed`, `EventuallyExecuted` |
| `client_commands` | ring of 2, two commands and "disconnect", three usercmds, `cl_packetdup` 1 (225 370 states) | `IInv`, `CommandsBeforeUsercmds`, `UsercmdsSurvive`, `ImplementsStream`, `EventuallyExecuted`, `EventuallyGone` |
| `delta_snapshot` | six frames, a server ring of 3 entities shared with others, eight messages, two maps (2 737 463 states) | `IInv`, `SnapshotsFaithful`, `BaseHeld` |
| `client_slots` | three slots, one reserved, three addresses of two players, up to two bots (131 556 states) | `IInv` |
| `client_slots_flag` | two slots | `FlaggedAreBots` is violated |
| `connection` | two challenges kept, four to draw, three packets on their way, packets that live a second, `sv_reconnectlimit` three | `ConnInv`, `BegunOnce` |
| `server` | a ring of two packets, two generations, two talkers; three buckets, three addresses, a clock of four bits; window of 3, block numbers modulo 4, files of 7, 3 and 3 blocks, the last refused (647 736 states) | `RelayInv`, `DecodedRight`, `ChainInv`, `RateBounded`, `RefusedRight`, `DownloadInv`, `NeverBroken`, `DownloadsEnd` |
| `game` | three waypoints with room for one neighbour; searches of a five-node graph with every choice of links; three voters; three players, rings of four; a pool of seven units (224 122 states) | `GraphInv`, `SearchInv`, `FindsPath`, `VoteInv`, `ExecutesWhatPassed`, `QueueInv`, `PoolInv`, `ImplementsGraph`, `EarlyDecisionRight`, `QueuesAreFair`, `StalePathEnds`, `PlacesKept` |
| `download_again` | window of 2, files of 5 and 2 blocks | `RetransmissionHarmless` is violated |
| `voip_leak` | as `server` | `DestructorFreesAll` is violated |
| `spawn_queue_follow` | two players, rings of three | `QueuedAreOfTheTeam` is violated |

Six more configurations show counterexamples that are not among the runs; see section 5.

What the properties say, beyond the comments at their definitions:

* **netchan**: whatever the network does, `delivered` is a sequence of whole messages in order. The
  invariant names the reason: every packet is honest about the message it is of, and the buffer is a
  prefix of the message whose number is remembered. `SentCompletely` is about the other end: once the
  sender goes on, all the pieces, an empty last one included, have been sent. `QueueDrains`: what was handed over is
  sent to its end, unless the connection is set up again, the slot becomes free, or a drop discards it.
* **server_commands, client_commands**: the ring holds all that is not acknowledged and
  acknowledgements are true, hence the commands executed are 1, 2, 3, ... until the ring overflows.
* **server**, downloads: `DownloadInv` (with `SavedWhole`) for files that are longer than the window. `NeverBroken` holds there and
  fails for a file that fits in the window (section 5).
* **delta_snapshot**: a base that the server uses is one the client has; the comment in the client
  says "not supposed to happen".
* **client_slots**: a client the server has is one the game has; `OneSlotPerAddress`, `BotsAreBots` and
  `OwnGameClient` are parts of `IInv`.
* **connection**: `ConnInv` is that client and server mean the same connection when both have one.
  `BegunOnce`: a "connect" that comes late begins neither a connection that is in use nor one that was
  used and has been dropped.
* **server**, voice: `DecodedRight` says that the decoder goes on without a reset only with the packets of one
  recording, missing as many frames as were lost. **Rates**: `ChainInv` (each chain holds the buckets of its addresses, in
  both directions), `RateBounded` and `RefusedRight` against an ideal bucket.
* **game**: `GraphInv` and `ImplementsGraph` for the graph; `SearchInv` is what A* keeps, `FindsPath` what it
  returns, against the reference; `StalePathEnds` is that a path whose indices went stale is
  replaced. `EarlyDecisionRight`: what is decided early is what any votes of the others would give.
  `QueueInv` is about the two ways the code looks through a ring, which must see the same clients;
  `PlacesKept`: who waits loses its place by its turn, by giving it up, or to one of the team that leaves with its number.
  `PoolInv` covers every unit of the pool by one block.

### Bounds

Counters are bounded by guards: `MaxMessages`, `MaxEpoch`, `MaxCommands`, `MaxUsercmds`,
`MaxEntities`, `MaxLevels`, `MaxInFlight`, `MaxPending`, `MaxPackets`, `MaxSequence`, `MaxTime`, `MaxWaypoints`, `Least`;
`Lengths`, `VisibleCounts`, `BotCounts`, `Recordings`, `Queries` and `Texts` are sets of inputs.
Each bound is past the point at which the structure it concerns has wrapped or overflowed:

* Two connections are enough for packets of an old one on a new one, three messages for one that is
  fragmented, one queued behind it and one that finds a queue; length 4 is exactly two fragments.
* The ring of 4 takes five commands, two to overflow and one more from the drop; with two pending
  snapshots the cgame falls a whole ring behind.
* The third command of `client_commands`, which wraps its ring of two, is "disconnect". Three
  usercmds are more than a packet of two holds; two packets lost in a row are more than
  `cl_packetdup` makes up for.
* A file of 7 blocks and its empty one are two rounds of four block numbers. No window that is the
  last of a file holds a number zero that is sent again: that is where the two defects of section 5 are, with instances of
  their own. In the code 2^16 blocks of 1024 bytes make a round.
* `PACKET_BACKUP` 6 lets bases be one or two messages old (the server wants `PACKET_BACKUP - 3`). The
  server's ring of three entities is smaller than any server's (`maxclients * PACKET_BACKUP *
  MAX_SNAPSHOT_ENTITIES`), so that it wraps between a base and its use: the harder case for `RolledOff`.
* Three slots with one reserved, a player with two addresses (a duplicate GUID), another player, and
  up to two bots fill the server in every mixture.

* Four challenges are two in the table, one of the client and one on its way or in the slot: when all are
  remembered `SV_GetChallenge` waits, which costs behaviours but no kind of them. A packet lives one second, so that
  the limit of three is just more than twice that; with a limit of two `BegunOnce` fails.
* Three recordings are one more than there are generations; the clock of four bits wraps from 7 to -8, and
  nine ticks go well past that; three buckets for three addresses, one of which takes a new one each time, run out.
* Three waypoints let the last move to either index; a file of two of them fits, of three does not. Five nodes
  along a line with every choice of links have cheaper ways that are found later and walls that mislead the search.
* A pool of seven units holds three blocks with gaps between and after them.
* Three voters are the fewest of whom one can leave while the vote of two decides.
* Three players in one queue have a middle to leave from, and rings of four wrap under them. They go twice: all of one team, one of
  them with `stickySpec` and one who comes and goes; and with one who changes teams, comes and goes and changes its
  `stickySpec`, and another to follow (`QueueBound`).

`CHECK_DEADLOCK FALSE` is in every configuration, because each instance ends at its bounds, and the
program may stand still there: a connection that is over, a download that is done, a client that
waits for a refusal that was lost. That nothing waits that should not is for the liveness
properties.

### Fairness

Each `FairSpec` assumes that what the main loops call in every frame goes on happening (weak
fairness of `SV_SendClientSnapshot`, `CL_WritePacket`, `CG_TransitionSnapshot`,
`SV_Netchan_TransmitNextFragment`, `SV_SendDownloadMessages`, `SV_CheckTimeouts` of a silent client),
since `SV_Frame` and `CL_Frame` come round for ever, and that the network does not lose every message
of an endless series (strong fairness of the receipt of messages). Nothing is assumed of what users
do. In `Download` the commands arrive (weak fairness): that is `EventuallyExecuted` of
`ClientCommands`. There the block that the client waits for, if it is received again and again
(strong fairness), is received in the end. `BotPath` assumes that time passes and that a bot who
is to find a path anew gets to it (`G_CheckBotCount` and `Bot_Think` run in every frame); not that it gets on along
a path. `SpawnSpec` assumes that a team has a free spawn again and again (without one nobody spawns, as intended); only
`EventuallyServed` needs it. `SV_Netchan_TransmitNextFragment` is called for zombies too, and for free slots no more: its fairness
is that of clients that are not free.
`ClientSlots`, `DeltaSnapshot`, `Connection`, `VoipRelay`, `LeakyBucket`, `Votes` and `GameMemory` assume no fairness.

## 4. What is proved

TLAPS checks all of the following for every size of rings, fragments, buffers, tables and graphs, every
bound and every clock, from the assumptions the modules state of their constants alone (`SizesAssumption`,
`BoundsAssumption`, `SlotsAssumption`, `VoteAssumption`, `PathAssumption`, `NavAssumption`, `SnapshotAssumption`,
`VoipAssumption`, `BucketAssumption`, `DownloadAssumption`, `ConnectionAssumption`, `SpawnAssumption`, `PoolAssumption`: constants are
numbers, sizes are not zero, lengths fit the buffer, players are finitely many, a query is one). Some theorems
have a hypothesis more, as what they state is not true of every instance:

* `NoZeroAtTheEnd` (downloads): no last window of a file holds a block, but the first, whose number is 0. Section 5 has
  what happens otherwise; `MCDownload`'s files `Long` and `Shorter` meet it, its `Short` does not.
* `PacketsExpire` (connections): a packet and the answer to it are gone before `sv_reconnectlimit`, `sv_zombietime` (and
  a second) and `sv_timeout` are over. With the defaults of 3, 2 and 200 seconds packets may live one second; with two
  TLC finds a connection that is begun again by a "connect" sent for it before.

| theorem | statement |
|---|---|
| `NetchanProofs!Invariance` | `Spec => []IInv` |
| `NetchanProofs!NothingCutOff` | `Spec => []SentCompletely` |
| `NetchanProofs!Refinement` | `Spec => ImplementsStream` |
| `ServerCommandsProofs!Invariance` | `Spec => []IInv` |
| `ServerCommandsProofs!Refinement` | `Spec => ImplementsStream` |
| `ClientCommandsProofs!CommandsArrive` | `Spec => []IInv` |
| `ClientCommandsProofs!UsercmdsFollowCommands` | `Spec => []CommandsBeforeUsercmds` |
| `ClientCommandsProofs!NoUsercmdLeftOut` | `Spec => []UsercmdsSurvive` |
| `ClientCommandsProofs!Refinement` | `Spec => ImplementsStream` |
| `ClientSlotsProofs!Invariance` | `Spec => []IInv` |
| `DeltaSnapshotProofs!EncodedFromWhatWasSent` | `Spec => []IInv` |
| `DeltaSnapshotProofs!BasesAreHeld` | `Spec => []BaseHeld` |
| `DeltaSnapshotProofs!SnapshotsAreFaithful` | `Spec => []SnapshotsFaithful` |
| `ServerProofs!VoiceRelayedInOrder` | `VoipSpec => []RelayInv` |
| `ServerProofs!VoiceDecodedRight` | `VoipSpec => []DecodedRight` |
| `ServerProofs!BucketsAreFound` | `BucketSpec => []ChainInv` |
| `ServerProofs!RatesAreBounded` | `BucketSpec => []RateBounded` |
| `ServerProofs!NoneRefusedWithoutReason` | `BucketSpec => []RefusedRight` |
| `ServerProofs!DownloadsWhole` | `NoZeroAtTheEnd`: `DownloadSpec => []DownloadInv` |
| `ServerProofs!DownloadsNeverBroken` | `NoZeroAtTheEnd`: `DownloadSpec => []NeverBroken` |
| `ServerProofs!ConnectionsAgree` | `PacketsExpire`: `ConnSpec => []ConnInv` |
| `ServerProofs!SessionsBeginOnce` | `PacketsExpire`: `ConnSpec => BegunOnce` |
| `GameProofs!VotesCounted` | `VoteSpec => []VoteInv` |
| `GameProofs!VoteCarriedOut` | `VoteSpec => []ExecutesWhatPassed` |
| `GameProofs!DecidedAsItWouldBe` | `VoteSpec => EarlyDecisionRight` |
| `GameProofs!GraphStaysWhole` | `GraphSpec => []GraphInv` |
| `GameProofs!GraphImplemented` | `GraphSpec => ImplementsGraph` |
| `GameProofs!SearchIsRight` | `PathSpec => []SearchInv` |
| `GameProofs!PathIsShort` | `PathSpec => []FindsPath` |
| `GameProofs!QueuesHoldThoseWhoWait` | `SpawnSpec => []QueueInv` |
| `GameProofs!QueuesServeInOrder` | `SpawnSpec => QueuesAreFair` |
| `GameProofs!PlacesAreKept` | `SpawnSpec => PlacesKept` |
| `GameProofs!PoolIsWhole` | `MemSpec => []PoolInv` |

**Netchan.** That `delivered` is whole and in order is not inductive. The invariant adds
`PacketsHonest`: every packet, also one of an earlier connection, says the truth about which piece of
which message it is; `SenderInOrder`: the sequence number of what is being sent is the ordinal of
the message (the queue is what lies between the two); `BufferIsPrefix`: the receiver's buffer holds
a prefix of the message it remembers. Packets stay honest because what has begun to go out (`Started`) is
never forgotten (`SentGrows`): a drop takes from `sent` only what waits in the queue.
Receipt then has three cases: a packet of another connection is dropped by its checksum; a whole
message is delivered; a fragment extends the prefix or is dropped, and a fragment that is not full
completes it. Refinement: `ProcessDelivers` shows that receipt is a stutter or a `Deliver`.
`NothingCutOff` needs the sender's side of the buffer: of a message in the middle of being sent, what went out
so far is what its fragments cover, and all that came before it is complete.

**ServerCommands.** `ExecutedInOrder` rests on `ClientKeeps` (the client's ring), this on
`MessagesFaithful` (what is on the way), this on `WindowHeld` (the server's ring) and `AcksInOrder`
(no acknowledgement runs ahead). Arithmetic enters in one lemma of
`Remainders`, `RemaindersDiffer`: numbers less than N apart have different slots. `StoreKeeps` carries the ring through a command added, and through the
commands that a drop adds, in a nested call too. After an overflow the window is no longer a
window, and the invariant claims nothing of the texts.

**ClientCommands.** The properties say nothing of the packets on the way, so the invariant (`Inv`) must:
`PacketsTruthful` (a packet holds the commands it names, as long as the ring has not overflowed, and its
usercmds were stamped with commands no later than its last), hence `ExecutedInOrder` and
`CommandsBeforeUsercmds`. That usercmds survive loss is about several packets at once. `Follows`: each
packet's usercmds reach back to those of every packet sent no more than `cl_packetdup` + 1 before it.
`Reaches`: so, while no more than `cl_packetdup` are lost in a row, they reach back to what was
executed. A packet lost or executed shortens the series, one sent lengthens it (`SendKeeps`,
`ReceiveKeeps`, `OneFewer`); `CL_Disconnect` sends three in one step (`ThreeMore`). `ExecuteStep` goes
through the loops of `SV_ExecuteClientMessage` by what they leave behind (`CommandsOfPacket`,
`UsercmdsOfPacket`).

**ClientSlots.** Nearly every step changes slots one by one, so most of the invariant is proved of
one record (`Good`) and of each function that makes one from another. `Frees`: a step that gives no
slot a new address keeps `OneSlotPerAddress`. `SV_DirectConnect` alone gives an address
(`AddressGiven`), and the slot it chooses is the one that has the address, if there is one
(`SlotForAddress`). A new map goes through records that are fresh. The strengthening is
`GhostsWereBots`: a game client whose slot was freed without the game being told (`SV_BotFreeClient`)
was a bot, so what a player finds "already connected" in a slot is at most a bot's client.

**Votes.** A vote that is counted is one more or one fewer in a finite set (`CountOfPlayers`); `VoteInv`
needs that no answer outlives its vote, or the next vote begins with answers nobody gave. Of the
early decision, `MajorityStays` is the arithmetic: once the votes of one side exceed the threshold of
all voters no other votes undo it. `NoneWaitsStep`: while there is a vote nothing waits, as the call of one
carries out what did, so what waits after a frame was passed in that frame.

**NavGraph.** `GraphInv` is inductive as it stands; what takes work is counting neighbours, as sets that
are renumbered (`RenumberedFit`) and filled up in the order of indices (`FirstFew`, `NeighborsFit`).
The refinement of a deletion (`DeletesPlace`) goes through the two maps between old and new indices
(`MovedFrom`, `After`), inverse to each other but for the waypoint that goes. A file that did not fit sets
`broken`, after which the abstract graph promises nothing.

**NavPath.** `Tree` (the predecessors of what was reached are a tree of usable links with its
costs, and everything a closed node leads to is reached) and `Chain` (the path so far is a chain of
such links to the goal) together are inductive: `ExpandStep`, `StopStep`, `BackStep`. Nothing is
assumed of the order in which nodes are expanded but that `Current` is open.
That the path is short is about a search that never opens a closed waypoint again, guided by a distance that may exceed
the cost (`PathIsShort`). `ScoresBounded`: seven times the score of a closed waypoint is no more than `Slack` times any
cost of a way to it, where `Slack` is 7, or 10 for aliens. It is inductive because of `OpenOnTheWay`: on each way to a
waypoint that is not closed lies an open one, reached well enough (`LookedAt`), and what is looked at next promises no more than
that one (`CurrentBounded`); the estimate never falls along a link by more than `Slack` sevenths of its cost
(`Estimates`, from the triangle inequality). That the score is not below the best cost of `BestCosts`, after as many rounds as waypoints are closed, and
that the path costs what its ends' scores differ by (`CostOfPath`) complete it.

**SpawnQueue.** All three results rest on `Lined`, read from the front: the first places of a ring hold those who
wait, each once, and the others nobody; in a full ring every place is one of the first, though its length is 0. A step of
the game does to a ring what `Goes` names: one joins at the end, the first is served, or one leaves from wherever it waits
and those behind move up, around the end of the array (`Spans`, `Steps` are its steps without remainders). There is room for
one who does not wait yet, as there are no more clients than slots and each waits once (`RoomForOne`), so nobody overtakes the
front. The line of a ring is then a sequence, and each of the three is a step of `FairQueue`. Whom a follower is sent on to,
and with what number, need only be some client (`TargetFound`, `OnwardTyped`): the rings stay lines whoever is taken out.
`PlacesAreKept` follows who is: `LeaverTakes` that it is the one whose number the leaver has, `PoppedKeeps` and `RemovedKeeps` that the
others still wait.

**GameMemory.** A block that is taken out, put in, shortened or lengthened is looked at twice. As a map of sizes by address
(`Packed`, `Covered`: `BlockRemoved`, `BlockAdded`, `BlockShortened`, `BlockLengthened`) it says which units are
free. As a node it must leave the list a list: `ListLinked` has the links agree and a rank go up along them, so that no block is
outside the list in a ring of its own; what is read from the head then never comes to a block twice
(`ListEnds`) and comes to all (`ListComesToAll`), and a search through it finds what there is
(`FirstFound`). `Pool` says that free blocks and those handed out share out the addresses. Each round of
`BG_DefragmentMemory` makes one of two blocks and covers what was covered, so as many rounds as there are blocks are enough
(`DefragmentedIs`). The list and the rounds are recursive functions of numbers: `Iterates` shows that
such a function exists, and a statement about all its values is shown by its least exception (`LeastNumber`).

**DeltaSnapshot.** `DeltaInd` follows a snapshot from the frame it was made in to the client's ring: `MessagesInOrder` and
`LevelsInOrder` (numbers and levels of what is on its way go up, in both directions); `GamestateOnce` (only the last
gamestate can still reach a client that waits for it, and a client that is active asks for nothing older);
`FramesInRing` and `FramesKept` (the frame of what the client may ask for has kept its slot and its entities);
`SnapshotsRight` (what the client has of message n is what n had, in a ring that has taken no more than what came since);
`AskedHeld` and `SnapshotsOnWay` (the base of a delta on its way is one the client has and will still have).
A base is never missing for two reasons: the client asks only for what it has, and the server refuses a base that
another `PACKET_BACKUP - 3` messages would push out. The slots of both rings are arithmetic of `Remainders`
(`SlotAgain`), the room of the client's ring is that of `PACKET_BACKUP` whole snapshots (`Room`).

**Voice.** `VoipInd` says of each packet, queued or in the snapshot, that it is of a recording that has begun, and that
these are in the order of recording; of the decoder, that it stands where the packet it played last ended
(`DecoderKept`). Generations are counted modulo their range (`GenerationOf`), so two recordings of one talker that differ by
a whole round look alike; `DecodedRight` claims what is true of those too. `SV_WriteVoipToClient` drops from the front of the
ring and `SV_UserVoip` adds at its end, so order is kept if the slots are those of a ring (`RingSlotsDiffer`).

**Rates.** The inductive invariant (`BucketInd`) reads a chain by its links, both ways (`Linked`), and adds
`AllReached`: whatever set holds the head of a hash and the `next` of its members holds each bucket of that hash. So
no induction along the chain is needed: when a bucket is taken out, or put in at the head, a set closed under
the new links is made one closed under the old. For the rates, `Account` relates the count of a bucket to what its address
ideally owes: they differ by less than a period, at the time the bucket was last looked at. `SignedOfDifference` is
about the clock: the difference of two times, taken as an `int`, is what lies between them unless the clock
has gone round (`MaxTime` is less than that).

**Downloads.** `DownloadInd` puts all that the client says in one line of positions, file by file and block by block
(`Script`): the commands on their way follow each other in it up to where the client is, and the first is the one the server
waits for (`ServerAt`, `WindowRight`). Each block on its way was sent for a place less than a window before or
behind that of the client, or belongs to the last window of the file before (`BlockSent`); numbers repeat only after more than
a window, so the client takes a block only if it is the one it waits for. The exception is number 0 of a file that is over,
which the client takes for the first of the next: `NoZeroAtTheEnd` excludes it.

**Connections.** `ConnInv` rests on time: nothing in a "connect" says whether it is late. `ConnInd` says so of each packet:
`EarlierConnects` (once a connection is accepted, what was sent for another is older than the slot), `ResponsesRecent`,
`UsedConnects` (a "connect" whose challenge made a connection that was used was sent at most two lives of a packet after the
slot was taken), with the slot still taken in each case. So a slot that `SV_DirectConnect` takes, or one that is given
up as a zombie or in silence, finds none of them (`NotTaken`); that is what `PacketsExpire` is for. `NewToClient` and
`NotUsedBefore` are that a challenge which the client receives is one it has not used; `SilentSince` relates the two
clocks of a slot.

**Only model-checked.** `BotPath`, whose composition with `NavGraph` claims a liveness property only; every liveness property, as
liveness under fairness needs ENABLED, which this prover does not support. No module declares a
recursive operator, and no theorem cites an induction rule.

## 5. Findings

1. `download_again`: block zero that is sent again to a client that has it carries a file size the
   client does not read; what follows is read out of step, and the connection ends.
2. `client_slots_flag`: a bot that is kicked or times out (a bot sends no packets, so it does) leaves
   the flag `SVF_BOT` on its slot. The next player there is sent nothing, not even the gamestate.
3. `voip_leak`: `SV_FreeClient` takes the number of queued packets for the index of the last. Once the ring has
   moved on, packets are lost with their memory when the client is dropped.
4. `spawn_queue_follow`: `G_LeaveTeam` looks in the queue for `ps.clientNum`, which is another's while one follows;
   who leaves the team stays in its queue. `SpawnQueuePlaces.cfg` below is the other side of it.

Six configurations that are no runs of the list (TLC's `tlc -config X.cfg M` shows each) have
counterexamples to smaller disagreements:

* `ServerCommandsDrop.cfg` (`ServerCommands`, `NoRecursiveDrop`): the comment at `sv_main.c:147` says
  the test `==` keeps a broadcast in `SV_DropClient` from causing a recursive drop. When a client is
  dropped for another reason with its ring exactly full, the broadcast is the command that overflows
  it: `SV_DropClient` is entered again, and the game is told twice.
* `ClientCommandsDisconnect.cfg` (`ClientCommands`, `SlotLeftForDisconnect`): `cl_main.c:586` says a slot is
  left open for the command "disconnect". With `MAX_RELIABLE_COMMANDS` unacknowledged none is, and it
  overwrites a command.
* `DownloadBroken.cfg` (`MCDownload`, `NeverBroken`): a download message does not say which file it is of. A block
  zero of a file that fits in the window, received after the next file was begun, makes the client
  acknowledge a block that the server does not wait for, and it is dropped for a "broken download".
* `VotesCounted.cfg` (`MCGame`, `CastMeansCounted`): who leaves a team during its vote and comes back is told
  "vote already cast" (`g_cmds.c:1546`), but its vote has been taken out of the counters.
* `SpawnQueuePlaces.cfg` (`SpawnQueue`, `PlacesAreOnesOwn`): with `stickySpec` one may watch a team-mate who is dead and
  waits (`g_cmds.c:2707`, `g_client.c:604`), with its `ps.clientNum`. Who then leaves the team or the server takes the place of the
  one it watches out of the queue (`g_team.c:151`).
* `SpawnQueueFull.cfg` (`SpawnQueue`, `EventuallyServed`): on a server of `MAX_CLIENTS` whose players all wait in one queue, the
  length of the queue is 0, and nobody is ever served.

## 6. Hazards

`PROJECT.json` lists what is hard to test in this code, each at its line, with the properties that
would catch it going wrong, or the reason that none does yet. Those without a property are the
subject of the plan.

## 7. Plan

Done: all modules of section 2. What would come next, in this order:

1. Liveness of `Connection`: a client that keeps asking comes in, or is told why not. It does not
   hold of the code as it is (a client in `CA_CHALLENGING` never asks for a second challenge), and without symmetry the
   states are too many for this instance; it needs an instance without other clients.
2. Every invariant of the passing runs is stated by a theorem; what is left to prove is about modules to come.
3. The gamestate: `Netchan`'s queue composed with `SV_ExecuteClientMessage`'s test for a lost gamestate; downloads
   composed with the ring of `ClientCommands`.
4. The master server's table; map rotation; build points; movers.

## 8. What is not modelled, and why

* Combat, movement, collision, missiles: floating point on the state of one player at a time.
* `msg.c`, `huffman.c`: the encoding of fields in bits; a message here is the record it encodes.
* `cmd.c`, `cvar.c`, `vm*.c`, `files.c` beyond the check of a downloaded file: text, loaders,
  interpreters and search paths of one thread.
* Administration, bans, sessions, name logs: text and lists in files, one command at a time.
* Rendering, sound, console, menus, cinematics, the cgame beyond the commands it executes: presentation.
* `sys/`, sockets: system calls. The network is the part of them that is modelled, as the channels.
* `opus`, `speex`, `jpeg`, `zlib` and the other libraries in the tree: third-party code.
* Pure validation, the delayed restart, `SV_Shutdown`: small and sequential; what they do to a
  client is one of the drops in `ClientSlots`.
