----------------------------- MODULE ClientSlots -----------------------------
(***************************************************************************)
(* The slots of the server (svs.clients, server/sv_client.c) and the       *)
(* clients and entities of the game with the same numbers (level.clients   *)
(* and g_entities, game/g_client.c), which players and bots (game/g_bot.c) *)
(* come to and leave.                                                      *)
(*                                                                         *)
(* Server and game each keep their own record of a slot, and one bit,      *)
(* SVF_BOT, is shared.  Calls between them nest: the game refuses a client *)
(* the server connects, drops others meanwhile, and takes slots for bots;  *)
(* the server disconnects a client the game has, and connects all of them  *)
(* again to a new map.                                                     *)
(***************************************************************************)
EXTENDS Naturals, FiniteSets

CONSTANTS
    maxclients,             \* sv_maxclients, level.maxclients
    sv_privateClients,      \* slots kept for those who know the password
    Remotes,                \* the addresses, with qport, players connect from
    GuidOf,                 \* the player at each address
    BotCounts,              \* the values g_bot_count is given
    Nobody                  \* no address, no player

ASSUME SlotsAssumption ==
    /\ maxclients \in Nat \ {0}
    /\ sv_privateClients \in 0..maxclients
    /\ Nobody \notin Remotes
    /\ DOMAIN GuidOf = Remotes
    /\ BotCounts \subseteq Nat /\ BotCounts # {}

VARIABLES
    slots,                  \* what server and game keep of each slot
    g_bot_count             \* how many bots there are to be

vars == <<slots, g_bot_count>>

Slots == 0..(maxclients - 1)
Live == {"CS_CONNECTED", "CS_PRIMED", "CS_ACTIVE"}
Bot == "bot"
First(S) == {i \in S : \A j \in S : i <= j}

(* client_t.state and netchan.remoteAddress; the flag SVF_BOT of the       *)
(* entity; gclient_t.pers.connected, entity.inuse and pers.guid.           *)
NoClient == [state |-> "CS_FREE", remoteAddress |-> Nobody, svfBot |-> FALSE,
             connected |-> "CON_DISCONNECTED", inuse |-> FALSE, guid |-> Nobody]

Init ==
    /\ slots = [i \in Slots |-> NoClient]
    /\ g_bot_count \in BotCounts

-----------------------------------------------------------------------------
(* What the game does to the client c of one slot.                         *)

InGame(c) == c.connected # "CON_DISCONNECTED"

(* ClientConnect, when it does not refuse the client.  One that is already *)
(* connected is left as it is.                                             *)
ClientConnect(c, guid) ==
    IF InGame(c) THEN c ELSE [c EXCEPT !.connected = "CON_CONNECTING", !.guid = guid]

ClientBegin(c) ==
    IF c.connected = "CON_CONNECTING"
    THEN [c EXCEPT !.connected = "CON_CONNECTED", !.inuse = TRUE] ELSE c

ClientDisconnect(c) ==
    IF InGame(c)
    THEN [c EXCEPT !.connected = "CON_DISCONNECTED", !.inuse = FALSE, !.guid = Nobody] ELSE c

(* G_InitGame wipes clients and entities, the flag of these included.      *)
G_InitGame(c) ==
    [c EXCEPT !.svfBot = FALSE, !.connected = "CON_DISCONNECTED", !.inuse = FALSE,
              !.guid = Nobody]

-----------------------------------------------------------------------------
(* What the server does.                                                   *)

(* Mutant: the game is not told.                                           *)
SV_DropClient_Quietly(c) ==
    IF c.state = "CS_ZOMBIE" THEN c ELSE [c EXCEPT !.state = "CS_ZOMBIE"]

SV_DropClient(c) ==
    IF c.state = "CS_ZOMBIE" THEN c ELSE [ClientDisconnect(c) EXCEPT !.state = "CS_ZOMBIE"]

SV_ClientEnterWorld(c) == [ClientBegin(c) EXCEPT !.state = "CS_ACTIVE"]

SV_BotAllocateClient(c) ==
    [c EXCEPT !.state = "CS_ACTIVE", !.remoteAddress = Nobody, !.svfBot = TRUE]

SV_BotFreeClient(c) ==
    IF c.state = "CS_FREE" THEN c ELSE [c EXCEPT !.state = "CS_FREE", !.svfBot = FALSE]

Dropped(s, dropped) ==
    [i \in Slots |-> IF i \in dropped THEN SV_DropClient(s[i]) ELSE s[i]]

-----------------------------------------------------------------------------
(* Bots.                                                                   *)

(* Bot_Spawn in a free slot, and one that ClientConnect refuses.           *)
Bot_Spawn(c) ==
    [ClientBegin(ClientConnect(SV_BotAllocateClient(c), Bot)) EXCEPT !.svfBot = TRUE]
Bot_Refused(c) == SV_BotFreeClient(SV_BotAllocateClient(c))

(* The k highest of the slots in S, or all of them.                        *)
Highest(S, k) == {i \in S : Cardinality({j \in S : j > i}) < k}
FreeSlots(s) == {i \in Slots : s[i].state = "CS_FREE"}

(* k calls of Bot_Spawn, all of them refused or none: that depends on      *)
(* g_password.  A client the game still has is not refused; any other slot *)
(* is given back, and tried again.                                         *)
Bot_SpawnAll(s, k, refused) ==
    LET tried == Highest(FreeSlots(s), k)
        taken == {i \in tried : refused => \A j \in tried : j >= i => InGame(s[j])}
        failed == {i \in tried : ~InGame(s[i]) /\ \A j \in tried : j > i => InGame(s[j])}
    IN  [i \in Slots |->
            IF i \in taken THEN Bot_Spawn(s[i])
            ELSE IF i \in failed THEN Bot_Refused(s[i]) ELSE s[i]]

Bots(s) == {i \in Slots : s[i].inuse /\ s[i].svfBot}

G_CheckBotCount(s, refused) ==
    LET needed == IF g_bot_count > maxclients THEN maxclients ELSE g_bot_count
        current == Cardinality(Bots(s))
        removed == IF current > needed THEN Highest(Bots(s), current - needed) ELSE {}
    IN  IF current < needed THEN Bot_SpawnAll(s, needed - current, refused)
        ELSE [i \in Slots |-> IF i \in removed THEN SV_BotFreeClient(s[i]) ELSE s[i]]

G_RunFrame ==
    /\ \E refused \in BOOLEAN : slots' = G_CheckBotCount(slots, refused)
    /\ UNCHANGED g_bot_count

Cmd_AddBot_f ==
    /\ \E refused \in BOOLEAN : slots' = Bot_SpawnAll(slots, 1, refused)
    /\ UNCHANGED g_bot_count

Cmd_RemoveBot_f ==
    /\ \E i \in Bots(slots) : slots' = [slots EXCEPT ![i] = SV_BotFreeClient(@)]
    /\ UNCHANGED g_bot_count

SetBotCount ==
    /\ g_bot_count' \in BotCounts
    /\ UNCHANGED slots

-----------------------------------------------------------------------------
(* Players.                                                                *)

(* The slots that are in use from this address.                            *)
SlotsOf(r) == {i \in Slots : slots[i].state # "CS_FREE" /\ slots[i].remoteAddress = r}

(* The slot a client from r is given: the one it has, or the first that is *)
(* free, after the reserved ones if it does not know the password.         *)
SlotFor(r) ==
    IF SlotsOf(r) # {} THEN First(SlotsOf(r))
    ELSE UNION {First({i \in FreeSlots(slots) : i >= start}) : start \in {0, sv_privateClients}}

(* Others in the game with the same GUID.  One may lag once it has begun.  *)
SameGuid(r, i) == {j \in Slots \ {i} : InGame(slots[j]) /\ slots[j].guid = GuidOf[r]}
MayLag(j) == slots[j].connected = "CON_CONNECTED"

(* ClientConnect called for client c in slot i: those of the same GUID     *)
(* that lag are dropped, in order, up to the first that does not, for whom *)
(* the new client is refused.                                              *)
SV_DirectConnect(r) ==
    /\ \E i \in SlotFor(r) :
          LET new == [slots[i] EXCEPT !.state = "CS_FREE", !.remoteAddress = r]
              same == SameGuid(r, i)
              accepted == [ClientConnect(new, GuidOf[r]) EXCEPT !.state = "CS_CONNECTED"]
          IN  \/ /\ InGame(new)
                 /\ slots' = [slots EXCEPT ![i] = accepted]
              \/ /\ ~InGame(new)         \* banned, or a wrong password
                 /\ slots' = [slots EXCEPT ![i] = new]
              \/ /\ ~InGame(new)         \* "Duplicate GUID"
                 /\ \E j \in same :
                       /\ \A k \in same : k < j => MayLag(k)
                       /\ slots' = [Dropped(slots, {k \in same : k < j}) EXCEPT ![i] = new]
              \/ /\ ~InGame(new)
                 /\ \A j \in same : MayLag(j)
                 /\ slots' = [Dropped(slots, same) EXCEPT ![i] = accepted]
              \/ /\ ~InGame(new)         \* malformed userinfo
                 /\ \A j \in same : MayLag(j)
                 /\ slots' = [Dropped(slots, same) EXCEPT
                                 ![i] = SV_DropClient(ClientConnect(new, GuidOf[r]))]
    /\ UNCHANGED g_bot_count

(* A packet from a client that has no gamestate: it is sent one, but not   *)
(* to a slot with the flag (SV_SendMessageToClient).                       *)
SV_SendClientGameState ==
    /\ \E i \in Slots :
          /\ slots[i].state = "CS_CONNECTED"
          /\ slots[i].remoteAddress # Nobody
          /\ slots' = [slots EXCEPT ![i].state = "CS_PRIMED"]
    /\ UNCHANGED g_bot_count

(* A packet from a client that has the gamestate: its first usercmd, or    *)
(* the command "disconnect".                                               *)
HasGameState(i) ==
    /\ slots[i].state \in {"CS_PRIMED", "CS_ACTIVE"}
    /\ slots[i].remoteAddress # Nobody
    /\ ~slots[i].svfBot

SV_UserMove ==
    /\ \E i \in Slots :
          /\ HasGameState(i)
          /\ slots[i].state = "CS_PRIMED"
          /\ slots' = [slots EXCEPT ![i] = SV_ClientEnterWorld(@)]
    /\ UNCHANGED g_bot_count

SV_Disconnect_f ==
    /\ \E i \in Slots :
          /\ HasGameState(i)
          /\ slots' = [slots EXCEPT ![i] = SV_DropClient(@)]
    /\ UNCHANGED g_bot_count

(* The game drops a client: it is kicked, or idle.                         *)
SV_GameDropClient ==
    /\ \E i \in Slots :
          /\ InGame(slots[i])
          /\ slots' = [slots EXCEPT ![i] = SV_DropClient(@)]
    /\ UNCHANGED g_bot_count

(* Time is left open: any client may have been silent for long enough, and *)
(* a bot always is.                                                        *)
SV_CheckTimeouts ==
    /\ \E late \in SUBSET (Slots \ FreeSlots(slots)) :
          slots' = [i \in Slots |-> IF i \in late
                                    THEN [SV_DropClient(slots[i]) EXCEPT !.state = "CS_FREE"]
                                    ELSE slots[i]]
    /\ UNCHANGED g_bot_count

-----------------------------------------------------------------------------
(* A new map.                                                              *)

GuidAt(c) == IF c.remoteAddress = Nobody THEN Bot ELSE GuidOf[c.remoteAddress]

ToConnect(s) == {i \in Slots : s[i].state \in Live /\ ~InGame(s[i])}

(* A client that stays loads the new map, or enters the same one again.    *)
Again(c, enters) ==
    IF enters THEN SV_ClientEnterWorld(c) ELSE [c EXCEPT !.state = "CS_CONNECTED"]

(* The game begins anew, and runs frames in which bots are spawned; then   *)
(* the clients are connected again, or dropped, if the game denies them or *)
(* has one with the same GUID already; and the game runs a frame more.     *)
Restarted(enters) ==
    \E refused \in BOOLEAN :
    \E begun \in {G_CheckBotCount([i \in Slots |-> G_InitGame(slots[i])], refused)} :
    \E kept \in SUBSET ToConnect(begun) :
       /\ \A i, j \in kept :
             i # j /\ GuidAt(begun[i]) = GuidAt(begun[j]) => GuidAt(begun[i]) = Bot
       /\ LET connected(i) ==
                 IF i \in kept \/ (begun[i].state \in Live /\ InGame(begun[i]))
                 THEN Again(ClientConnect(begun[i], GuidAt(begun[i])), enters)
                 ELSE IF i \in ToConnect(begun) THEN SV_DropClient(begun[i]) ELSE begun[i]
          IN  slots' = G_CheckBotCount([i \in Slots |-> connected(i)], refused)

SV_SpawnServer == Restarted(FALSE) /\ UNCHANGED g_bot_count
SV_MapRestart_f == Restarted(TRUE) /\ UNCHANGED g_bot_count

-----------------------------------------------------------------------------

Next ==
    \/ G_RunFrame
    \/ Cmd_AddBot_f
    \/ Cmd_RemoveBot_f
    \/ SetBotCount
    \/ \E r \in Remotes : SV_DirectConnect(r)
    \/ SV_SendClientGameState
    \/ SV_UserMove
    \/ SV_Disconnect_f
    \/ SV_GameDropClient
    \/ SV_CheckTimeouts
    \/ SV_SpawnServer
    \/ SV_MapRestart_f

Spec == Init /\ [][Next]_vars

-----------------------------------------------------------------------------
(* Properties.                                                             *)

(* Every variable holds a value of its type.                               *)
Guids == {GuidOf[r] : r \in Remotes}
Clients == [state : Live \cup {"CS_FREE", "CS_ZOMBIE"}, remoteAddress : Remotes \cup {Nobody},
            svfBot : BOOLEAN,
            connected : {"CON_DISCONNECTED", "CON_CONNECTING", "CON_CONNECTED"},
            inuse : BOOLEAN, guid : Guids \cup {Nobody, Bot}]
TypeOK ==
    /\ slots \in [Slots -> Clients]
    /\ g_bot_count \in BotCounts

(* The game has every client that the server has, and has let it in before *)
(* the server lets it play; it has none that has been dropped.  So no      *)
(* packet, frame or command reaches a client that the game does not know.  *)
GameHas(c) ==
    /\ c.state \in Live => InGame(c)
    /\ c.state = "CS_ACTIVE" => c.connected = "CON_CONNECTED"
    /\ c.state = "CS_ZOMBIE" => ~InGame(c)
    /\ c.inuse <=> c.connected = "CON_CONNECTED"
GameHasClients == \A i \in Slots : GameHas(slots[i])

(* An address has one slot at most, however often it connects, and though  *)
(* slots of zombies and dropped clients keep the addresses they had: a     *)
(* packet belongs to one client.                                           *)
OneSlotPerAddress ==
    \A i, j \in Slots :
       /\ slots[i].state # "CS_FREE" /\ slots[j].state # "CS_FREE"
       /\ slots[i].remoteAddress = slots[j].remoteAddress
       /\ slots[i].remoteAddress # Nobody
       => i = j

(* What the game counts, removes and moves as a bot (G_CheckBotCount,      *)
(* Cmd_RemoveBot_f, G_RunFrame) is a bot: it never removes a player, nor   *)
(* counts a bot whose slot has gone, though the flag outlives its bot.     *)
BotsAreBots ==
    \A i \in Bots(slots) : slots[i].state \in Live /\ slots[i].remoteAddress = Nobody

(* No player is given the game client of another, with its score and its   *)
(* rights, though ClientConnect leaves a client alone that is already      *)
(* connected.  (It may be given that of a bot that was removed:            *)
(* SV_BotFreeClient does not tell the game.)                               *)
OwnGameClient ==
    \A i \in Slots :
       slots[i].state \in Live /\ slots[i].remoteAddress # Nobody =>
          slots[i].guid \in {GuidOf[slots[i].remoteAddress], Bot}

(* A client of the game whose slot the server has freed was a bot, and     *)
(* without an address there is no player.                                  *)
GhostsWereBots ==
    \A i \in Slots : InGame(slots[i]) =>
       /\ slots[i].state = "CS_FREE" => slots[i].remoteAddress = Nobody
       /\ slots[i].remoteAddress = Nobody => slots[i].guid = Bot

(* The inductive invariant: the four above, and what they rest on.         *)
IInv ==
    /\ TypeOK
    /\ GameHasClients
    /\ OneSlotPerAddress
    /\ BotsAreBots
    /\ OwnGameClient
    /\ GhostsWereBots

(* "Flag the entity shared flags as a bot" (sv_client.c:1778): the flag,   *)
(* for which SV_SendMessageToClient sends nothing, is not on a player.     *)
FlaggedAreBots ==
    \A i \in Slots : slots[i].svfBot /\ slots[i].state \in Live => slots[i].remoteAddress = Nobody
=============================================================================
