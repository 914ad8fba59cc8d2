--------------------------- MODULE ClientSlotsProofs ---------------------------
(***************************************************************************)
(* Proofs about ClientSlots, for every number of slots, whoever plays and  *)
(* however many bots there are to be.                                      *)
(*                                                                         *)
(* Nearly every step changes slots one by one: what it makes of a slot     *)
(* depends on that slot alone.  So the invariant is proved for one record  *)
(* (Good), and what relates two slots, that no address has two, is kept by *)
(* every step that gives no slot a new address (Frees).                    *)
(***************************************************************************)
EXTENDS ClientSlots, TLAPS

(* What the invariant says of one slot.                                    *)
BotsAndGhosts(c) ==
    /\ c.inuse /\ c.svfBot => c.state \in Live /\ c.remoteAddress = Nobody
    /\ c.state \in Live /\ c.remoteAddress # Nobody =>
          c.guid \in {GuidOf[c.remoteAddress], Bot}
    /\ InGame(c) =>
          /\ c.state = "CS_FREE" => c.remoteAddress = Nobody
          /\ c.remoteAddress = Nobody => c.guid = Bot

Good(c) == c \in Clients /\ GameHas(c) /\ BotsAndGhosts(c)

(* The slot has the address it had, or none.                               *)
Address(c) == IF c.state = "CS_FREE" THEN Nobody ELSE c.remoteAddress
Frees(c, d) == Address(d) \in {Address(c), Nobody}

-----------------------------------------------------------------------------
(* What server and game do to one slot.                                    *)

LEMMA ConnectFields ==
  ASSUME NEW c \in Clients, NEW guid \in Guids \cup {Bot}
  PROVE  LET d == ClientConnect(c, guid)
         IN  /\ d \in Clients
             /\ d.state = c.state /\ d.remoteAddress = c.remoteAddress
             /\ d.svfBot = c.svfBot /\ d.inuse = c.inuse
             /\ InGame(c) => d.connected = c.connected /\ d.guid = c.guid
             /\ ~InGame(c) => d.connected = "CON_CONNECTING" /\ d.guid = guid
BY DEF Clients, ClientConnect, InGame

LEMMA BeginFields ==
  ASSUME NEW c \in Clients
  PROVE  LET d == ClientBegin(c)
         IN  /\ d \in Clients
             /\ d.state = c.state /\ d.remoteAddress = c.remoteAddress
             /\ d.svfBot = c.svfBot /\ d.guid = c.guid
             /\ c.connected = "CON_CONNECTING" =>
                   d.connected = "CON_CONNECTED" /\ d.inuse = TRUE
             /\ c.connected # "CON_CONNECTING" =>
                   d.connected = c.connected /\ d.inuse = c.inuse
BY DEF Clients, ClientBegin

LEMMA DisconnectFields ==
  ASSUME NEW c \in Clients
  PROVE  LET d == ClientDisconnect(c)
         IN  /\ d \in Clients
             /\ d.state = c.state /\ d.remoteAddress = c.remoteAddress
             /\ d.svfBot = c.svfBot
             /\ ~InGame(d)
             /\ InGame(c) => d.inuse = FALSE
             /\ ~InGame(c) => d.inuse = c.inuse
BY DEF Clients, ClientDisconnect, InGame

LEMMA AllocateFields ==
  ASSUME NEW c \in Clients
  PROVE  LET d == SV_BotAllocateClient(c)
         IN  /\ d \in Clients
             /\ d.state = "CS_ACTIVE" /\ d.remoteAddress = Nobody /\ d.svfBot = TRUE
             /\ d.connected = c.connected /\ d.inuse = c.inuse /\ d.guid = c.guid
BY DEF Clients, SV_BotAllocateClient, Live

LEMMA FreeFields ==
  ASSUME NEW c \in Clients
  PROVE  LET d == SV_BotFreeClient(c)
         IN  /\ d \in Clients
             /\ d.state = "CS_FREE" /\ d.remoteAddress = c.remoteAddress
             /\ c.state # "CS_FREE" => d.svfBot = FALSE
             /\ c.state = "CS_FREE" => d.svfBot = c.svfBot
             /\ d.connected = c.connected /\ d.inuse = c.inuse /\ d.guid = c.guid
BY DEF Clients, SV_BotFreeClient

(* A field that is assigned.                                               *)
LEMMA StateField ==
  ASSUME NEW c \in Clients, NEW s \in Live \cup {"CS_FREE", "CS_ZOMBIE"}
  PROVE  LET d == [c EXCEPT !.state = s]
         IN  /\ d \in Clients
             /\ d.state = s /\ d.remoteAddress = c.remoteAddress
             /\ d.svfBot = c.svfBot /\ d.inuse = c.inuse
             /\ d.connected = c.connected /\ d.guid = c.guid
BY DEF Clients

LEMMA FlagField ==
  ASSUME NEW c \in Clients
  PROVE  LET d == [c EXCEPT !.svfBot = TRUE]
         IN  /\ d \in Clients
             /\ d.state = c.state /\ d.remoteAddress = c.remoteAddress
             /\ d.svfBot = TRUE /\ d.inuse = c.inuse
             /\ d.connected = c.connected /\ d.guid = c.guid
BY DEF Clients

-----------------------------------------------------------------------------
(* What they keep.                                                         *)

LEMMA DropGood ==
  ASSUME NEW c \in Clients, c.state # "CS_ZOMBIE", c.inuse => InGame(c)
  PROVE  LET d == SV_DropClient(c)
         IN  /\ Good(d)
             /\ d.state = "CS_ZOMBIE" /\ ~InGame(d)
             /\ d.remoteAddress = c.remoteAddress
<1> DEFINE e == ClientDisconnect(c)
           d == [e EXCEPT !.state = "CS_ZOMBIE"]
<1>1. /\ e \in Clients
      /\ e.remoteAddress = c.remoteAddress
      /\ ~InGame(e)
      /\ InGame(c) => e.inuse = FALSE
      /\ ~InGame(c) => e.inuse = c.inuse
    BY DisconnectFields
<1> HIDE DEF e
<1>2. /\ d \in Clients
      /\ d.state = "CS_ZOMBIE" /\ d.remoteAddress = e.remoteAddress
      /\ d.inuse = e.inuse /\ d.connected = e.connected
    BY <1>1, StateField
<1> HIDE DEF d
<1>3. ~InGame(d)
    BY <1>1, <1>2 DEF InGame
<1>4. d.inuse = FALSE
    BY <1>1, <1>2 DEF Clients
<1>5. Good(d)
    BY <1>2, <1>3, <1>4 DEF Good, GameHas, BotsAndGhosts, Live, InGame
<1>6. SV_DropClient(c) = d
    BY DEF SV_DropClient, d, e
<1> QED
    BY <1>1, <1>2, <1>3, <1>5, <1>6

LEMMA DropKeeps ==
  ASSUME NEW c, Good(c)
  PROVE  LET d == SV_DropClient(c)
         IN  /\ Good(d)
             /\ d.state = "CS_ZOMBIE" /\ ~InGame(d)
             /\ d.remoteAddress = c.remoteAddress
             /\ InGame(c) => Frees(c, d)
             /\ c.state # "CS_FREE" => Frees(c, d)
<1>1. CASE c.state = "CS_ZOMBIE"
    BY <1>1 DEF Good, GameHas, BotsAndGhosts, Frees, Address, SV_DropClient
<1>2. CASE c.state # "CS_ZOMBIE"
  <2> DEFINE d == SV_DropClient(c)
  <2>1. /\ Good(d) /\ d.state = "CS_ZOMBIE" /\ ~InGame(d)
        /\ d.remoteAddress = c.remoteAddress
      BY <1>2, DropGood DEF Good, GameHas, InGame
  <2> HIDE DEF d
  <2>2. /\ InGame(c) => Frees(c, d)
        /\ c.state # "CS_FREE" => Frees(c, d)
      BY <2>1 DEF Good, BotsAndGhosts, Frees, Address
  <2> QED
      BY <2>1, <2>2 DEF d
<1> QED
    BY <1>1, <1>2

LEMMA BotSpawnKeeps ==
  ASSUME NEW c, Good(c), c.state = "CS_FREE"
  PROVE  LET d == Bot_Spawn(c)
         IN  /\ Good(d) /\ Frees(c, d)
             /\ d.state = "CS_ACTIVE" /\ d.remoteAddress = Nobody
<1> DEFINE a == SV_BotAllocateClient(c)
           b == ClientConnect(a, Bot)
           e == ClientBegin(b)
           d == [e EXCEPT !.svfBot = TRUE]
<1>1. /\ a \in Clients
      /\ a.state = "CS_ACTIVE" /\ a.remoteAddress = Nobody
      /\ a.connected = c.connected /\ a.inuse = c.inuse /\ a.guid = c.guid
    BY AllocateFields DEF Good
<1> HIDE DEF a
<1>2. /\ b \in Clients
      /\ b.state = a.state /\ b.remoteAddress = a.remoteAddress /\ b.inuse = a.inuse
      /\ InGame(a) => b.connected = a.connected /\ b.guid = a.guid
      /\ ~InGame(a) => b.connected = "CON_CONNECTING" /\ b.guid = Bot
    BY <1>1, ConnectFields
<1> HIDE DEF b
<1>3. /\ e \in Clients
      /\ e.state = b.state /\ e.remoteAddress = b.remoteAddress /\ e.guid = b.guid
      /\ b.connected = "CON_CONNECTING" => e.connected = "CON_CONNECTED" /\ e.inuse = TRUE
      /\ b.connected # "CON_CONNECTING" => e.connected = b.connected /\ e.inuse = b.inuse
    BY <1>2, BeginFields
<1> HIDE DEF e
<1>4. /\ d \in Clients
      /\ d.state = e.state /\ d.remoteAddress = e.remoteAddress /\ d.guid = e.guid
      /\ d.connected = e.connected /\ d.inuse = e.inuse
    BY <1>3, FlagField
<1> HIDE DEF d
<1>5. d.state = "CS_ACTIVE" /\ d.remoteAddress = Nobody
    BY <1>1, <1>2, <1>3, <1>4
<1>6. d.guid = Bot
    BY <1>1, <1>2, <1>3, <1>4 DEF Good, BotsAndGhosts, InGame
<1>7. d.connected = "CON_CONNECTED"
    BY <1>1, <1>2, <1>3, <1>4 DEF Good, GameHas, InGame, Clients
<1>8. d.inuse = TRUE
    BY <1>1, <1>2, <1>3, <1>4 DEF Good, GameHas, InGame, Clients
<1>9. Good(d)
    BY <1>4, <1>5, <1>6, <1>7, <1>8 DEF Good, GameHas, BotsAndGhosts, Live, InGame
<1>10. Frees(c, d)
    BY <1>5 DEF Frees, Address
<1>11. Bot_Spawn(c) = d
    BY DEF Bot_Spawn, a, b, d, e
<1> QED
    BY <1>5, <1>9, <1>10, <1>11

LEMMA BotRefusedKeeps ==
  ASSUME NEW c, Good(c), c.state = "CS_FREE", ~InGame(c)
  PROVE  LET d == Bot_Refused(c)
         IN  /\ Good(d) /\ Frees(c, d)
             /\ d.state = "CS_FREE" /\ ~InGame(d) /\ d.svfBot = FALSE
<1> DEFINE a == SV_BotAllocateClient(c)
           d == SV_BotFreeClient(a)
<1>1. /\ a \in Clients
      /\ a.state = "CS_ACTIVE"
      /\ a.connected = c.connected /\ a.inuse = c.inuse
    BY AllocateFields DEF Good
<1> HIDE DEF a
<1>2. /\ d \in Clients
      /\ d.state = "CS_FREE" /\ d.svfBot = FALSE
      /\ d.connected = a.connected /\ d.inuse = a.inuse
    BY <1>1, FreeFields
<1> HIDE DEF d
<1>3. ~InGame(d) /\ d.inuse = FALSE
    BY <1>1, <1>2 DEF Good, GameHas, InGame, Clients
<1>4. Good(d) /\ Frees(c, d)
    BY <1>2, <1>3 DEF Good, GameHas, BotsAndGhosts, Live, InGame, Frees, Address
<1> QED
    BY <1>2, <1>3, <1>4 DEF Bot_Refused, a, d

(* Removing a bot leaves a ghost, but one that was a bot.                  *)
LEMMA BotFreeKeeps ==
  ASSUME NEW c, Good(c), c.inuse, c.svfBot
  PROVE  Good(SV_BotFreeClient(c)) /\ Frees(c, SV_BotFreeClient(c))
<1> DEFINE d == SV_BotFreeClient(c)
<1>1. c.state \in Live /\ c.remoteAddress = Nobody
    BY DEF Good, BotsAndGhosts
<1>2. /\ d \in Clients
      /\ d.state = "CS_FREE" /\ d.remoteAddress = c.remoteAddress /\ d.svfBot = FALSE
      /\ d.connected = c.connected /\ d.inuse = c.inuse /\ d.guid = c.guid
    BY <1>1, FreeFields DEF Good, Live
<1> HIDE DEF d
<1>3. Good(d)
    BY <1>1, <1>2 DEF Good, GameHas, BotsAndGhosts, Live, InGame
<1>4. Frees(c, d)
    BY <1>2 DEF Frees, Address
<1> QED
    BY <1>3, <1>4 DEF d

(* ClientBegin after the state was set: the slot is let into the game.     *)
LEMMA EnterKeeps ==
  ASSUME NEW c \in Clients, InGame(c), c.inuse <=> c.connected = "CON_CONNECTED",
         BotsAndGhosts(c), c.state \in Live, c.svfBot => c.remoteAddress = Nobody
  PROVE  Good(SV_ClientEnterWorld(c)) /\ Frees(c, SV_ClientEnterWorld(c))
<1> DEFINE e == ClientBegin(c)
           d == [e EXCEPT !.state = "CS_ACTIVE"]
<1>1. /\ e \in Clients
      /\ e.remoteAddress = c.remoteAddress /\ e.svfBot = c.svfBot /\ e.guid = c.guid
      /\ c.connected = "CON_CONNECTING" => e.connected = "CON_CONNECTED" /\ e.inuse = TRUE
      /\ c.connected # "CON_CONNECTING" => e.connected = c.connected /\ e.inuse = c.inuse
    BY BeginFields
<1> HIDE DEF e
<1>2. /\ d \in Clients
      /\ d.state = "CS_ACTIVE" /\ d.remoteAddress = e.remoteAddress /\ d.svfBot = e.svfBot
      /\ d.inuse = e.inuse /\ d.connected = e.connected /\ d.guid = e.guid
    BY <1>1, StateField DEF Live
<1> HIDE DEF d
<1>3. d.connected = "CON_CONNECTED" /\ d.inuse = TRUE
    BY <1>1, <1>2 DEF InGame, Clients
<1>4. Good(d)
    BY <1>1, <1>2, <1>3 DEF Good, GameHas, BotsAndGhosts, Live, InGame
<1>5. Frees(c, d)
    BY <1>1, <1>2 DEF Frees, Address, Live
<1> QED
    BY <1>4, <1>5 DEF SV_ClientEnterWorld, d, e

-----------------------------------------------------------------------------
(* All slots.                                                              *)

SlotsGood(s) == s \in [Slots -> Clients] /\ \A i \in Slots : Good(s[i])
Separate(s) ==
    \A i, j \in Slots :
       Address(s[i]) = Address(s[j]) /\ Address(s[i]) # Nobody => i = j

LEMMA InvariantBySlot ==
  IInv <=> SlotsGood(slots) /\ Separate(slots) /\ g_bot_count \in BotCounts
<1>1. IInv => SlotsGood(slots)
    BY DEF IInv, TypeOK, GameHasClients, BotsAreBots, OwnGameClient, GhostsWereBots, Bots,
           SlotsGood, Good, BotsAndGhosts
<1>2. OneSlotPerAddress <=> Separate(slots)
    BY DEF OneSlotPerAddress, Separate, Address
<1>3. SlotsGood(slots) => /\ slots \in [Slots -> Clients]
                          /\ GameHasClients /\ BotsAreBots /\ OwnGameClient /\ GhostsWereBots
    BY DEF GameHasClients, BotsAreBots, OwnGameClient, GhostsWereBots, Bots,
           SlotsGood, Good, BotsAndGhosts
<1> QED
    BY <1>1, <1>2, <1>3 DEF IInv, TypeOK

LEMMA InvariantOfNext ==
  ASSUME SlotsGood(slots'), Separate(slots'), g_bot_count' \in BotCounts
  PROVE  IInv'
<1>1. slots' \in [Slots -> Clients] /\ \A i \in Slots : Good(slots'[i])
    BY DEF SlotsGood
<1>2. TypeOK'
    BY <1>1 DEF TypeOK
<1>3. GameHasClients' /\ BotsAreBots' /\ OwnGameClient' /\ GhostsWereBots'
    BY <1>1 DEF GameHasClients, BotsAreBots, OwnGameClient, GhostsWereBots, Bots,
                Good, BotsAndGhosts
<1>4. OneSlotPerAddress'
    BY DEF OneSlotPerAddress, Separate, Address
<1> QED
    BY <1>2, <1>3, <1>4 DEF IInv

LEMMA FreesKeepsSeparate ==
  ASSUME NEW s, NEW t, Separate(s), \A i \in Slots : Frees(s[i], t[i])
  PROVE  Separate(t)
BY DEF Separate, Frees

(* What G_CheckBotCount and Bot_Spawn make of a slot.                      *)
BotStep(c, d) ==
    \/ d = c
    \/ c.state = "CS_FREE" /\ d = Bot_Spawn(c)
    \/ c.state = "CS_FREE" /\ ~InGame(c) /\ d = Bot_Refused(c)
    \/ c.inuse /\ c.svfBot /\ d = SV_BotFreeClient(c)

LEMMA SpawnAllBySlot ==
  ASSUME NEW s, NEW k, NEW refused
  PROVE  LET t == Bot_SpawnAll(s, k, refused)
         IN  /\ t = [i \in Slots |-> t[i]]
             /\ \A i \in Slots : \/ t[i] = s[i]
                                 \/ s[i].state = "CS_FREE" /\ t[i] = Bot_Spawn(s[i])
                                 \/ /\ s[i].state = "CS_FREE" /\ ~InGame(s[i])
                                    /\ t[i] = Bot_Refused(s[i])
BY DEF Bot_SpawnAll, Highest, FreeSlots

LEMMA CheckBotsBySlot ==
  ASSUME NEW s, NEW refused
  PROVE  LET t == G_CheckBotCount(s, refused)
         IN  /\ t = [i \in Slots |-> t[i]]
             /\ \A i \in Slots : BotStep(s[i], t[i])
<1> DEFINE needed == IF g_bot_count > maxclients THEN maxclients ELSE g_bot_count
           current == Cardinality(Bots(s))
<1>1. CASE current < needed
    BY <1>1, SpawnAllBySlot DEF G_CheckBotCount, BotStep
<1>2. CASE ~(current < needed)
    BY <1>2 DEF G_CheckBotCount, BotStep, Highest, Bots
<1> QED
    BY <1>1, <1>2

LEMMA BotStepKeeps ==
  ASSUME NEW c, NEW d, Good(c), BotStep(c, d)
  PROVE  Good(d) /\ Frees(c, d)
<1>1. CASE d = c
    BY <1>1 DEF Frees
<1> QED
    BY <1>1, BotSpawnKeeps, BotRefusedKeeps, BotFreeKeeps DEF BotStep

LEMMA BotsKeep ==
  ASSUME NEW s, NEW t, SlotsGood(s), Separate(s), t = [i \in Slots |-> t[i]],
         \A i \in Slots : BotStep(s[i], t[i])
  PROVE  SlotsGood(t) /\ Separate(t)
<1>1. \A i \in Slots : Good(t[i]) /\ Frees(s[i], t[i])
    BY BotStepKeeps DEF SlotsGood
<1>2. SlotsGood(t)
    BY <1>1 DEF SlotsGood, Good
<1> QED
    BY <1>1, <1>2, FreesKeepsSeparate

-----------------------------------------------------------------------------
(* A player connects.                                                      *)

(* The slot is free, or the one the address has; no other has the address. *)
LEMMA SlotForAddress ==
  ASSUME Separate(slots), NEW r \in Remotes, NEW i \in SlotFor(r)
  PROVE  /\ i \in Slots
         /\ slots[i].state = "CS_FREE" \/ slots[i].remoteAddress = r
         /\ \A j \in Slots \ {i} : Address(slots[j]) # r
<1>1. r # Nobody
    BY SlotsAssumption
<1>2. CASE SlotsOf(r) = {}
    BY <1>1, <1>2 DEF SlotFor, SlotsOf, First, FreeSlots, Address
<1>3. CASE SlotsOf(r) # {}
    BY <1>1, <1>3 DEF SlotFor, SlotsOf, First, Separate, Address
<1> QED
    BY <1>2, <1>3

(* The slot gets the address, and no other has it.                         *)
LEMMA AddressGiven ==
  ASSUME NEW s, NEW t, Separate(s), NEW i \in Slots, NEW r \in Remotes,
         \A j \in Slots \ {i} : Address(s[j]) # r /\ Frees(s[j], t[j]),
         Address(t[i]) \in {r, Nobody}
  PROVE  Separate(t)
<1>1. r # Nobody
    BY SlotsAssumption
<1> SUFFICES ASSUME NEW j \in Slots, NEW k \in Slots,
                    Address(t[j]) = Address(t[k]), Address(t[j]) # Nobody
             PROVE  j = k
    BY DEF Separate
<1>2. CASE j # i /\ k # i
    BY <1>2 DEF Separate, Frees
<1>3. CASE j = i \/ k = i
    BY <1>1, <1>3 DEF Frees
<1> QED
    BY <1>2, <1>3

(* The slot with its new client_t, before and after the game has answered. *)
NewClient(c, r) == [c EXCEPT !.state = "CS_FREE", !.remoteAddress = r]
Accepted(c, r) == [ClientConnect(NewClient(c, r), GuidOf[r]) EXCEPT !.state = "CS_CONNECTED"]

LEMMA NewFields ==
  ASSUME NEW c \in Clients, NEW r \in Remotes
  PROVE  LET d == NewClient(c, r)
         IN  /\ d \in Clients
             /\ d.state = "CS_FREE" /\ d.remoteAddress = r
             /\ d.svfBot = c.svfBot /\ d.inuse = c.inuse
             /\ d.connected = c.connected /\ d.guid = c.guid
BY DEF Clients, NewClient

LEMMA NewKeeps ==
  ASSUME NEW c, Good(c), NEW r \in Remotes,
         c.state = "CS_FREE" \/ c.remoteAddress = r
  PROVE  LET new == NewClient(c, r)
             bad == SV_DropClient(ClientConnect(new, GuidOf[r]))
         IN  /\ Good(Accepted(c, r)) /\ Accepted(c, r).remoteAddress = r
             /\ ~InGame(new) => /\ Good(new) /\ new.remoteAddress = r
                                /\ Good(bad) /\ bad.remoteAddress = r
<1> DEFINE new == NewClient(c, r)
           e == ClientConnect(new, GuidOf[r])
           d == [e EXCEPT !.state = "CS_CONNECTED"]
<1>1. r # Nobody
    BY SlotsAssumption
<1>2. /\ new \in Clients
      /\ new.state = "CS_FREE" /\ new.remoteAddress = r
      /\ new.svfBot = c.svfBot /\ new.inuse = c.inuse
      /\ new.connected = c.connected /\ new.guid = c.guid
    BY NewFields DEF Good
<1> HIDE DEF new
<1>3. GuidOf[r] \in Guids
    BY DEF Guids
<1>4. /\ e \in Clients
      /\ e.state = new.state /\ e.remoteAddress = new.remoteAddress
      /\ e.svfBot = new.svfBot /\ e.inuse = new.inuse
      /\ InGame(new) => e.connected = new.connected /\ e.guid = new.guid
      /\ ~InGame(new) => e.connected = "CON_CONNECTING" /\ e.guid = GuidOf[r]
    BY <1>2, <1>3, ConnectFields
<1> HIDE DEF e
<1>5. /\ d \in Clients
      /\ d.state = "CS_CONNECTED" /\ d.remoteAddress = e.remoteAddress
      /\ d.svfBot = e.svfBot /\ d.inuse = e.inuse
      /\ d.connected = e.connected /\ d.guid = e.guid
    BY <1>4, StateField DEF Live
<1> HIDE DEF d
<1>6. ~(c.inuse /\ c.svfBot)
    BY <1>1 DEF Good, BotsAndGhosts, Live
<1>7. InGame(new) => c.guid \in {GuidOf[r], Bot}
    BY <1>2 DEF Good, GameHas, BotsAndGhosts, Live, InGame, Clients
<1>8. Good(d)
  <2>1. GameHas(d)
      BY <1>2, <1>4, <1>5 DEF Good, GameHas, InGame, Live
  <2>2. BotsAndGhosts(d)
      BY <1>1, <1>2, <1>4, <1>5, <1>6, <1>7 DEF BotsAndGhosts, Live, InGame
  <2> QED
      BY <1>5, <2>1, <2>2 DEF Good
<1>9. ~InGame(new) => Good(new)
    BY <1>2 DEF Good, GameHas, BotsAndGhosts, InGame, Live
<1>10. ~InGame(new) => Good(SV_DropClient(e)) /\ SV_DropClient(e).remoteAddress = r
  <2> SUFFICES ASSUME ~InGame(new) PROVE Good(SV_DropClient(e)) /\ SV_DropClient(e).remoteAddress = r
      OBVIOUS
  <2>1. e.state # "CS_ZOMBIE" /\ InGame(e)
      BY <1>2, <1>4 DEF InGame
  <2> QED
      BY <1>2, <1>4, <2>1, DropGood
<1> QED
    BY <1>2, <1>4, <1>5, <1>8, <1>9, <1>10 DEF Accepted, new, e, d

(* What becomes of the slot: accepted, refused, or refused once the game   *)
(* has it.  Some others are dropped meanwhile.                             *)
Refusals(c, r) == {NewClient(c, r), SV_DropClient(ClientConnect(NewClient(c, r), GuidOf[r]))}
Answered(i, r, dropped, d) ==
    /\ \/ d = Accepted(slots[i], r)
       \/ ~InGame(NewClient(slots[i], r)) /\ d \in Refusals(slots[i], r)
    /\ slots' = [Dropped(slots, dropped) EXCEPT ![i] = d]

LEMMA DirectConnectAnswers ==
  ASSUME SlotsGood(slots), NEW r \in Remotes, SV_DirectConnect(r)
  PROVE  \E i \in SlotFor(r) : \E dropped \in SUBSET SameGuid(r, i) : \E d :
            Answered(i, r, dropped, d)
<1>1. Dropped(slots, {}) = slots
    BY DEF Dropped, SlotsGood
<1>2. PICK i \in SlotFor(r) :
         LET new == NewClient(slots[i], r)
             same == SameGuid(r, i)
         IN  \/ slots' = [slots EXCEPT ![i] = Accepted(slots[i], r)]
             \/ ~InGame(new) /\ slots' = [slots EXCEPT ![i] = new]
             \/ /\ ~InGame(new)
                /\ \E j \in same :
                      slots' = [Dropped(slots, {k \in same : k < j}) EXCEPT ![i] = new]
             \/ slots' = [Dropped(slots, same) EXCEPT ![i] = Accepted(slots[i], r)]
             \/ /\ ~InGame(new)
                /\ slots' = [Dropped(slots, same) EXCEPT
                                ![i] = SV_DropClient(ClientConnect(new, GuidOf[r]))]
    BY DEF SV_DirectConnect, NewClient, Accepted
<1> DEFINE new == NewClient(slots[i], r)
           same == SameGuid(r, i)
           accepted == Accepted(slots[i], r)
           bad == SV_DropClient(ClientConnect(new, GuidOf[r]))
<1>3. new \in Refusals(slots[i], r) /\ bad \in Refusals(slots[i], r)
    BY DEF Refusals
<1>4. {} \in SUBSET same /\ same \in SUBSET same /\ \A j : {k \in same : k < j} \in SUBSET same
    OBVIOUS
<1>5. CASE slots' = [slots EXCEPT ![i] = accepted]
    BY <1>1, <1>4, <1>5 DEF Answered
<1>6. CASE ~InGame(new) /\ slots' = [slots EXCEPT ![i] = new]
    BY <1>1, <1>3, <1>4, <1>6 DEF Answered
<1>7. CASE ~InGame(new) /\ \E j \in same :
              slots' = [Dropped(slots, {k \in same : k < j}) EXCEPT ![i] = new]
    BY <1>3, <1>4, <1>7 DEF Answered
<1>8. CASE slots' = [Dropped(slots, same) EXCEPT ![i] = accepted]
    BY <1>4, <1>8 DEF Answered
<1>9. CASE ~InGame(new) /\ slots' = [Dropped(slots, same) EXCEPT ![i] = bad]
    BY <1>3, <1>4, <1>9 DEF Answered
<1> QED
    BY <1>2, <1>5, <1>6, <1>7, <1>8, <1>9

LEMMA DirectConnectStep ==
  ASSUME IInv, NEW r \in Remotes, SV_DirectConnect(r)
  PROVE  IInv'
<1>1. SlotsGood(slots) /\ Separate(slots) /\ g_bot_count \in BotCounts
    BY InvariantBySlot
<1>2. PICK i \in SlotFor(r) : \E dropped \in SUBSET SameGuid(r, i) : \E d :
         Answered(i, r, dropped, d)
    BY <1>1, DirectConnectAnswers
<1>3. PICK dropped \in SUBSET SameGuid(r, i) : \E d : Answered(i, r, dropped, d)
    BY <1>2
<1>4. PICK d : Answered(i, r, dropped, d)
    BY <1>3
<1>5. \A j \in dropped : j \in Slots \ {i} /\ InGame(slots[j])
    BY DEF SameGuid
<1>6. /\ i \in Slots
      /\ slots[i].state = "CS_FREE" \/ slots[i].remoteAddress = r
      /\ \A j \in Slots \ {i} : Address(slots[j]) # r
    BY <1>1, SlotForAddress
<1>7. Good(d) /\ d.remoteAddress = r
  <2>1. Good(slots[i])
      BY <1>1, <1>6 DEF SlotsGood
  <2> DEFINE c == slots[i]
             new == NewClient(c, r)
             bad == SV_DropClient(ClientConnect(new, GuidOf[r]))
  <2>2. /\ Good(Accepted(c, r)) /\ Accepted(c, r).remoteAddress = r
        /\ ~InGame(new) => /\ Good(new) /\ new.remoteAddress = r
                           /\ Good(bad) /\ bad.remoteAddress = r
      BY <1>6, <2>1, NewKeeps
  <2>3. \/ d = Accepted(c, r)
        \/ ~InGame(new) /\ d \in {new, bad}
      BY <1>4 DEF Answered, Refusals
  <2> QED
      BY <2>2, <2>3
<1>8. Address(d) \in {r, Nobody}
    BY <1>7 DEF Address
<1>9. slots' = [j \in Slots |-> IF j = i THEN d
                                ELSE IF j \in dropped THEN SV_DropClient(slots[j]) ELSE slots[j]]
    BY <1>4 DEF Answered, Dropped
<1>10. \A j \in Slots \ {i} : Good(slots'[j]) /\ Frees(slots[j], slots'[j])
  <2> SUFFICES ASSUME NEW j \in Slots \ {i}
               PROVE  Good(slots'[j]) /\ Frees(slots[j], slots'[j])
      OBVIOUS
  <2>1. CASE j \in dropped
      BY <1>1, <1>5, <1>9, <2>1, DropKeeps DEF SlotsGood
  <2>2. CASE j \notin dropped
      BY <1>1, <1>9, <2>2 DEF SlotsGood, Frees
  <2> QED
      BY <2>1, <2>2
<1>11. Separate(slots')
    BY <1>1, <1>6, <1>8, <1>9, <1>10, AddressGiven
<1>12. SlotsGood(slots')
    BY <1>7, <1>9, <1>10 DEF SlotsGood, Good
<1>13. g_bot_count' \in BotCounts
    BY <1>1 DEF SV_DirectConnect
<1> QED
    BY <1>11, <1>12, <1>13, InvariantOfNext

-----------------------------------------------------------------------------
(* Steps that change one slot, or each on its own.                         *)

LEMMA SlotwiseStep ==
  ASSUME IInv, slots' = [i \in Slots |-> slots'[i]], g_bot_count' \in BotCounts,
         \A i \in Slots : Good(slots'[i]) /\ Frees(slots[i], slots'[i])
  PROVE  IInv'
<1>1. SlotsGood(slots) /\ Separate(slots)
    BY InvariantBySlot
<1>2. SlotsGood(slots')
    BY DEF SlotsGood, Good
<1>3. Separate(slots')
    BY <1>1, FreesKeepsSeparate
<1> QED
    BY <1>2, <1>3, InvariantOfNext

LEMMA OneSlotStep ==
  ASSUME IInv, NEW i \in Slots, NEW d, Good(d), Frees(slots[i], d),
         slots' = [slots EXCEPT ![i] = d], UNCHANGED g_bot_count
  PROVE  IInv'
<1>1. SlotsGood(slots) /\ g_bot_count' \in BotCounts
    BY InvariantBySlot
<1>2. slots' = [j \in Slots |-> IF j = i THEN d ELSE slots[j]]
    BY <1>1 DEF SlotsGood
<1>3. \A j \in Slots : Good(slots'[j]) /\ Frees(slots[j], slots'[j])
    BY <1>1, <1>2 DEF SlotsGood, Frees
<1> QED
    BY <1>1, <1>2, <1>3, SlotwiseStep

LEMMA BotSteps ==
  ASSUME IInv, NEW t, t = [i \in Slots |-> t[i]], \A i \in Slots : BotStep(slots[i], t[i]),
         slots' = t, UNCHANGED g_bot_count
  PROVE  IInv'
<1>1. SlotsGood(slots) /\ Separate(slots) /\ g_bot_count' \in BotCounts
    BY InvariantBySlot
<1> QED
    BY <1>1, BotsKeep, InvariantOfNext

LEMMA GameSteps ==
  ASSUME IInv, G_RunFrame \/ Cmd_AddBot_f \/ Cmd_RemoveBot_f \/ SetBotCount
  PROVE  IInv'
<1>1. CASE G_RunFrame
  <2>1. PICK refused \in BOOLEAN : slots' = G_CheckBotCount(slots, refused)
      BY <1>1 DEF G_RunFrame
  <2> QED
      BY <1>1, <2>1, CheckBotsBySlot, BotSteps DEF G_RunFrame
<1>2. CASE Cmd_AddBot_f
  <2>1. PICK refused \in BOOLEAN : slots' = Bot_SpawnAll(slots, 1, refused)
      BY <1>2 DEF Cmd_AddBot_f
  <2>2. /\ slots' = [i \in Slots |-> slots'[i]]
        /\ \A i \in Slots : BotStep(slots[i], slots'[i])
      BY <2>1, SpawnAllBySlot DEF BotStep
  <2> QED
      BY <1>2, <2>2, BotSteps DEF Cmd_AddBot_f
<1>3. CASE Cmd_RemoveBot_f
  <2>1. PICK i \in Bots(slots) : slots' = [slots EXCEPT ![i] = SV_BotFreeClient(slots[i])]
      BY <1>3 DEF Cmd_RemoveBot_f
  <2>2. i \in Slots /\ Good(slots[i]) /\ slots[i].inuse /\ slots[i].svfBot
      BY InvariantBySlot DEF Bots, SlotsGood
  <2> QED
      BY <1>3, <2>1, <2>2, BotFreeKeeps, OneSlotStep DEF Cmd_RemoveBot_f
<1>4. CASE SetBotCount
    BY <1>4, InvariantBySlot, InvariantOfNext DEF SetBotCount
<1> QED
    BY <1>1, <1>2, <1>3, <1>4

LEMMA PacketSteps ==
  ASSUME IInv, SV_SendClientGameState \/ SV_UserMove \/ SV_Disconnect_f \/ SV_GameDropClient
  PROVE  IInv'
<1>1. SlotsGood(slots)
    BY InvariantBySlot
<1>2. CASE SV_SendClientGameState
  <2>1. PICK i \in Slots :
           /\ slots[i].state = "CS_CONNECTED"
           /\ slots[i].remoteAddress # Nobody
           /\ slots' = [slots EXCEPT ![i] = [slots[i] EXCEPT !.state = "CS_PRIMED"]]
      BY <1>2 DEF SV_SendClientGameState
  <2> DEFINE c == slots[i]
             d == [c EXCEPT !.state = "CS_PRIMED"]
  <2>2. Good(c)
      BY <1>1 DEF SlotsGood
  <2>3. /\ d \in Clients
        /\ d.state = "CS_PRIMED" /\ d.remoteAddress = c.remoteAddress
        /\ d.svfBot = c.svfBot /\ d.inuse = c.inuse
        /\ d.connected = c.connected /\ d.guid = c.guid
      BY <2>2, StateField DEF Good, Live
  <2> HIDE DEF d
  <2>4. Good(d)
      BY <2>1, <2>2, <2>3 DEF Good, GameHas, BotsAndGhosts, Live, InGame
  <2>5. Frees(c, d)
      BY <2>1, <2>3 DEF Frees, Address
  <2>6. slots' = [slots EXCEPT ![i] = d]
      BY <2>1 DEF d
  <2> QED
      BY <1>2, <2>4, <2>5, <2>6, OneSlotStep DEF SV_SendClientGameState
<1>3. CASE SV_UserMove
  <2>1. PICK i \in Slots :
           /\ HasGameState(i) /\ slots[i].state = "CS_PRIMED"
           /\ slots' = [slots EXCEPT ![i] = SV_ClientEnterWorld(slots[i])]
      BY <1>3 DEF SV_UserMove
  <2>2. Good(slots[i])
      BY <1>1 DEF SlotsGood
  <2>3. /\ slots[i] \in Clients /\ InGame(slots[i])
        /\ slots[i].inuse <=> slots[i].connected = "CON_CONNECTED"
        /\ BotsAndGhosts(slots[i]) /\ slots[i].state \in Live
        /\ slots[i].svfBot => slots[i].remoteAddress = Nobody
      BY <2>1, <2>2 DEF Good, GameHas, Live, HasGameState
  <2>4. /\ Good(SV_ClientEnterWorld(slots[i]))
        /\ Frees(slots[i], SV_ClientEnterWorld(slots[i]))
      BY <2>3, EnterKeeps
  <2> QED
      BY <1>3, <2>1, <2>4, OneSlotStep DEF SV_UserMove
<1>4. CASE SV_Disconnect_f \/ SV_GameDropClient
  <2>1. PICK i \in Slots :
           /\ InGame(slots[i]) \/ slots[i].state # "CS_FREE"
           /\ slots' = [slots EXCEPT ![i] = SV_DropClient(slots[i])]
      BY <1>4 DEF SV_Disconnect_f, SV_GameDropClient, HasGameState
  <2>2. Good(slots[i])
      BY <1>1 DEF SlotsGood
  <2>3. Good(SV_DropClient(slots[i])) /\ Frees(slots[i], SV_DropClient(slots[i]))
      BY <2>1, <2>2, DropKeeps
  <2> QED
      BY <1>4, <2>1, <2>3, OneSlotStep DEF SV_Disconnect_f, SV_GameDropClient
<1> QED
    BY <1>2, <1>3, <1>4

LEMMA TimeoutStep ==
  ASSUME IInv, SV_CheckTimeouts
  PROVE  IInv'
<1>1. SlotsGood(slots) /\ g_bot_count' \in BotCounts
    BY InvariantBySlot DEF SV_CheckTimeouts
<1> DEFINE freed(c) == [SV_DropClient(c) EXCEPT !.state = "CS_FREE"]
<1>2. PICK late \in SUBSET (Slots \ FreeSlots(slots)) :
         slots' = [i \in Slots |-> IF i \in late THEN freed(slots[i]) ELSE slots[i]]
    BY DEF SV_CheckTimeouts
<1>3. \A c : Good(c) => Good(freed(c)) /\ Frees(c, freed(c))
  <2> SUFFICES ASSUME NEW c, Good(c) PROVE Good(freed(c)) /\ Frees(c, freed(c))
      OBVIOUS
  <2> DEFINE e == SV_DropClient(c)
             d == [e EXCEPT !.state = "CS_FREE"]
  <2>1. Good(e) /\ ~InGame(e)
      BY DropKeeps
  <2> HIDE DEF e
  <2>2. /\ d \in Clients
        /\ d.state = "CS_FREE" /\ d.inuse = e.inuse /\ d.connected = e.connected
      BY <2>1, StateField DEF Good
  <2> HIDE DEF d
  <2>3. Good(d) /\ Frees(c, d)
      BY <2>1, <2>2 DEF Good, GameHas, BotsAndGhosts, Live, InGame, Frees, Address
  <2> QED
      BY <2>3 DEF d, e
<1> HIDE DEF freed
<1>4. \A i \in Slots : Good(slots'[i]) /\ Frees(slots[i], slots'[i])
    BY <1>1, <1>2, <1>3 DEF SlotsGood, Frees
<1> QED
    BY <1>1, <1>2, <1>4, SlotwiseStep

-----------------------------------------------------------------------------
(* A new map: the game has wiped its clients, and has spawned bots.        *)

Fresh(c) ==
    /\ c \in Clients
    /\ c.inuse <=> c.connected = "CON_CONNECTED"
    /\ InGame(c) => /\ c.state = "CS_ACTIVE" /\ c.remoteAddress = Nobody
                    /\ c.guid = Bot /\ c.connected = "CON_CONNECTED"
    /\ c.svfBot => InGame(c)

LEMMA WipedFields ==
  ASSUME NEW c \in Clients
  PROVE  LET d == G_InitGame(c)
         IN  /\ d \in Clients
             /\ d.state = c.state /\ d.remoteAddress = c.remoteAddress
             /\ d.svfBot = FALSE /\ d.inuse = FALSE /\ ~InGame(d)
BY DEF Clients, G_InitGame, InGame

LEMMA WipedIsFresh ==
  ASSUME NEW c, Good(c), NEW d, BotStep(G_InitGame(c), d)
  PROVE  Fresh(d) /\ Frees(c, d)
<1> DEFINE w == G_InitGame(c)
<1>1. /\ w \in Clients
      /\ w.state = c.state /\ w.remoteAddress = c.remoteAddress
      /\ w.svfBot = FALSE /\ w.inuse = FALSE /\ ~InGame(w)
    BY WipedFields DEF Good
<1> HIDE DEF w
<1>2. Frees(c, w)
    BY <1>1 DEF Frees, Address
<1>3. CASE d = w
    BY <1>1, <1>2, <1>3 DEF Fresh, InGame
<1>4. ASSUME w.state = "CS_FREE" PROVE Good(w)
    BY <1>1, <1>4 DEF Good, GameHas, BotsAndGhosts, Live, InGame
<1>5. CASE w.state = "CS_FREE" /\ d = Bot_Spawn(w)
  <2>1. Good(d) /\ Frees(w, d) /\ d.state = "CS_ACTIVE" /\ d.remoteAddress = Nobody
      BY <1>4, <1>5, BotSpawnKeeps
  <2>2. Fresh(d)
      BY <2>1 DEF Good, GameHas, BotsAndGhosts, Live, InGame, Fresh
  <2> QED
      BY <2>1, <2>2 DEF Frees, Address
<1>6. CASE w.state = "CS_FREE" /\ ~InGame(w) /\ d = Bot_Refused(w)
  <2>1. Good(d) /\ Frees(w, d) /\ ~InGame(d) /\ d.svfBot = FALSE /\ d.state = "CS_FREE"
      BY <1>4, <1>6, BotRefusedKeeps
  <2>2. Fresh(d)
      BY <2>1 DEF Good, GameHas, InGame, Fresh
  <2> QED
      BY <2>1, <2>2 DEF Frees, Address
<1>7. BotStep(w, d)
    BY DEF w
<1> QED
    BY <1>1, <1>3, <1>5, <1>6, <1>7 DEF BotStep

(* A client that is connected again.                                       *)
LEMMA KeptKeeps ==
  ASSUME NEW c, Fresh(c), c.state \in Live, NEW enters \in BOOLEAN
  PROVE  LET d == Again(ClientConnect(c, GuidAt(c)), enters)
         IN  Good(d) /\ Frees(c, d)
<1> DEFINE e == ClientConnect(c, GuidAt(c))
           d == [e EXCEPT !.state = "CS_CONNECTED"]
<1>1. /\ GuidAt(c) \in Guids \cup {Bot}
      /\ c.remoteAddress = Nobody => GuidAt(c) = Bot
      /\ c.remoteAddress # Nobody => GuidAt(c) = GuidOf[c.remoteAddress]
  <2>1. c.remoteAddress \in Remotes \cup {Nobody}
      BY DEF Fresh, Clients
  <2> QED
      BY <2>1 DEF GuidAt, Guids
<1>2. /\ e \in Clients
      /\ e.state = c.state /\ e.remoteAddress = c.remoteAddress
      /\ e.svfBot = c.svfBot /\ e.inuse = c.inuse
      /\ InGame(c) => e.connected = c.connected /\ e.guid = c.guid
      /\ ~InGame(c) => e.connected = "CON_CONNECTING" /\ e.guid = GuidAt(c)
    BY <1>1, ConnectFields DEF Fresh
<1> HIDE DEF e
<1>3. InGame(e) /\ (e.inuse <=> e.connected = "CON_CONNECTED")
    BY <1>2 DEF Fresh, InGame
<1>4. BotsAndGhosts(e) /\ (e.svfBot => e.remoteAddress = Nobody)
    BY <1>1, <1>2 DEF Fresh, BotsAndGhosts, Live, InGame
<1>5. CASE enters = TRUE
  <2>1. Good(SV_ClientEnterWorld(e)) /\ Frees(e, SV_ClientEnterWorld(e))
      BY <1>2, <1>3, <1>4, EnterKeeps
  <2>2. Again(e, enters) = SV_ClientEnterWorld(e)
      BY <1>5 DEF Again
  <2>3. Address(e) = Address(c)
      BY <1>2 DEF Address
  <2> QED
      BY <2>1, <2>2, <2>3 DEF Frees, e
<1>6. CASE enters = FALSE
  <2>1. /\ d \in Clients
        /\ d.state = "CS_CONNECTED" /\ d.remoteAddress = e.remoteAddress
        /\ d.svfBot = e.svfBot /\ d.inuse = e.inuse
        /\ d.connected = e.connected /\ d.guid = e.guid
      BY <1>2, StateField DEF Live
  <2>2. Again(e, enters) = d
      BY <1>6 DEF Again
  <2> HIDE DEF d
  <2>3. GameHas(d)
      BY <1>3, <2>1 DEF GameHas, Live, InGame
  <2>4. BotsAndGhosts(d)
      BY <1>2, <1>4, <2>1 DEF BotsAndGhosts, Live, InGame
  <2>5. Frees(c, d)
      BY <1>2, <2>1 DEF Frees, Address, Live
  <2> QED
      BY <2>1, <2>2, <2>3, <2>4, <2>5 DEF Good, e
<1> QED
    BY <1>5, <1>6

LEMMA RestartStep ==
  ASSUME IInv, NEW enters \in BOOLEAN, Restarted(enters), UNCHANGED g_bot_count
  PROVE  IInv'
<1>1. SlotsGood(slots) /\ Separate(slots) /\ g_bot_count' \in BotCounts
    BY InvariantBySlot
<1>2. PICK refused \in BOOLEAN :
         \E begun \in {G_CheckBotCount([i \in Slots |-> G_InitGame(slots[i])], refused)} :
         \E kept \in SUBSET ToConnect(begun) :
            LET connected(i) ==
                   IF i \in kept \/ (begun[i].state \in Live /\ InGame(begun[i]))
                   THEN Again(ClientConnect(begun[i], GuidAt(begun[i])), enters)
                   ELSE IF i \in ToConnect(begun) THEN SV_DropClient(begun[i]) ELSE begun[i]
            IN  slots' = G_CheckBotCount([i \in Slots |-> connected(i)], refused)
    BY DEF Restarted
<1> DEFINE wiped == [i \in Slots |-> G_InitGame(slots[i])]
           begun == G_CheckBotCount(wiped, refused)
<1>3. PICK kept \in SUBSET ToConnect(begun) :
         slots' = G_CheckBotCount(
                     [i \in Slots |->
                         IF i \in kept \/ (begun[i].state \in Live /\ InGame(begun[i]))
                         THEN Again(ClientConnect(begun[i], GuidAt(begun[i])), enters)
                         ELSE IF i \in ToConnect(begun) THEN SV_DropClient(begun[i])
                         ELSE begun[i]], refused)
    BY <1>2
<1> DEFINE again == [i \in Slots |->
                         IF i \in kept \/ (begun[i].state \in Live /\ InGame(begun[i]))
                         THEN Again(ClientConnect(begun[i], GuidAt(begun[i])), enters)
                         ELSE IF i \in ToConnect(begun) THEN SV_DropClient(begun[i])
                         ELSE begun[i]]
<1>4. \A i \in Slots : BotStep(wiped[i], begun[i])
    BY CheckBotsBySlot
<1> HIDE DEF begun
<1>5. \A i \in Slots : Fresh(begun[i]) /\ Frees(slots[i], begun[i])
    BY <1>1, <1>4, WipedIsFresh DEF SlotsGood
<1>6. ASSUME NEW i \in Slots PROVE Good(again[i]) /\ Frees(begun[i], again[i])
  <2> DEFINE c == begun[i]
  <2>1. Fresh(c)
      BY <1>5
  <2>2. CASE i \in kept \/ (c.state \in Live /\ InGame(c))
    <3>1. c.state \in Live
        BY <2>2 DEF ToConnect
    <3>2. again[i] = Again(ClientConnect(c, GuidAt(c)), enters)
        BY <2>2
    <3> HIDE DEF c
    <3> QED
        BY <2>1, <3>1, <3>2, KeptKeeps DEF c
  <2>3. CASE ~(i \in kept \/ (c.state \in Live /\ InGame(c))) /\ i \in ToConnect(begun)
    <3>1. c.state \in Live /\ ~InGame(c) /\ again[i] = SV_DropClient(c)
        BY <2>3 DEF ToConnect
    <3>2. c \in Clients /\ c.state # "CS_ZOMBIE" /\ (c.inuse => InGame(c))
        BY <2>1, <3>1 DEF Fresh, Live, InGame
    <3>3. Good(again[i]) /\ again[i].remoteAddress = c.remoteAddress
        BY <3>1, <3>2, DropGood
    <3> QED
        BY <3>1, <3>3 DEF Frees, Address, Live
  <2>4. CASE ~(i \in kept \/ (c.state \in Live /\ InGame(c))) /\ i \notin ToConnect(begun)
    <3>1. c.state \notin Live /\ again[i] = c
        BY <2>4 DEF ToConnect
    <3>2. Good(c)
        BY <2>1, <3>1 DEF Fresh, Good, GameHas, BotsAndGhosts, Live, InGame
    <3> QED
        BY <3>1, <3>2 DEF Frees
  <2> QED
      BY <2>2, <2>3, <2>4
<1> HIDE DEF again
<1>7. again \in [Slots -> Clients]
    BY <1>6 DEF again, Good
<1>8. SlotsGood(again)
    BY <1>6, <1>7 DEF SlotsGood
<1>9. Separate(again)
    BY <1>1, <1>5, <1>6, FreesKeepsSeparate
<1>10. /\ slots' = [i \in Slots |-> slots'[i]]
       /\ \A i \in Slots : BotStep(again[i], slots'[i])
    BY <1>3, CheckBotsBySlot DEF again
<1> QED
    BY <1>1, <1>8, <1>9, <1>10, BotsKeep, InvariantOfNext

-----------------------------------------------------------------------------

LEMMA InitIInv == Init => IInv
<1> SUFFICES ASSUME Init PROVE IInv
    OBVIOUS
<1>1. NoClient \in Clients
    BY DEF NoClient, Clients, Live
<1>2. Good(NoClient)
    BY <1>1 DEF Good, GameHas, BotsAndGhosts, NoClient, Live, InGame
<1>3. SlotsGood(slots)
    BY <1>1, <1>2 DEF Init, SlotsGood
<1>4. Separate(slots)
    BY DEF Init, Separate, Address, NoClient
<1> QED
    BY <1>3, <1>4, InvariantBySlot DEF Init

(* Server and game agree about every slot, no address has two, what counts *)
(* as a bot is one, and no player has another's game client: whoever       *)
(* comes, goes, is refused or times out, and through every change of map   *)
(* (SV_DirectConnect, SV_DropClient, SV_SpawnServer, G_CheckBotCount).     *)
THEOREM Invariance == Spec => []IInv
<1>1. IInv /\ [Next]_vars => IInv'
  <2> SUFFICES ASSUME IInv, [Next]_vars PROVE IInv'
      OBVIOUS
  <2>1. CASE \E r \in Remotes : SV_DirectConnect(r)
      BY <2>1, DirectConnectStep
  <2>2. CASE SV_SpawnServer
      BY <2>2, RestartStep DEF SV_SpawnServer
  <2>3. CASE SV_MapRestart_f
      BY <2>3, RestartStep DEF SV_MapRestart_f
  <2>4. CASE UNCHANGED vars
    <3>1. UNCHANGED slots /\ UNCHANGED g_bot_count
        BY <2>4 DEF vars
    <3> QED
        BY <3>1, InvariantBySlot, InvariantOfNext
  <2> QED
      BY <2>1, <2>2, <2>3, <2>4, GameSteps, PacketSteps, TimeoutStep DEF Next
<1> QED
    BY <1>1, InitIInv, PTL DEF Spec
=============================================================================
