------------------------------- MODULE Slots -------------------------------
(***************************************************************************)
(* How players get one of the server's slots and give it back: the connect *)
(* request and its repetition, reconnection to a slot still held, bots     *)
(* that make room, zombies and timeouts, and what the game module is told. *)
(*                                                                         *)
(* Server: server/sv_client.c, sv_main.c, sv_init.c.  Game: g_client.c.    *)
(* Client: client/cl_main.c.                                               *)
(*                                                                         *)
(* What a connected client and its slot say to each other is one step      *)
(* here, or none (NetChan and ReliableCommands have it in detail).  Every  *)
(* player has an address and a guid of its own, and the table of           *)
(* challenges is so large that none is replaced while it is needed.        *)
(***************************************************************************)
EXTENDS Integers

CONSTANTS
    Players,          \* also stands for their addresses and their guids
    sv_maxclients,    \* number of slots
    sv_privateClients,  \* slots kept for who knows the password, the first ones
    Privileged,       \* the players who know it
    BotSlots,         \* slots that bots hold at the start
    Bot, Nobody

ASSUME SlotsAssumption ==
    /\ sv_maxclients \in Nat \ {0} /\ BotSlots \subseteq 1..sv_maxclients
    /\ sv_privateClients \in 0..sv_maxclients /\ Privileged \subseteq Players
    /\ Bot # Nobody /\ {Bot, Nobody} \cap Players = {}

Clients == 1..sv_maxclients

VARIABLES
    clients,      \* svs.clients: the server's slots
    level,        \* level.clients: what the game knows of each slot
    g_guidCheck,  \* the game's setting: one guid, one player
    cls,          \* the state of each player's program
    connecting,   \* players whose connect request is under way
    reply         \* to each player: the connectionless message under way

vars == <<clients, level, g_guidCheck, cls, connecting, reply>>

-----------------------------------------------------------------------------
\* recent: lastConnectTime is not sv_reconnectlimit seconds ago.
NoClient == [state |-> "free", adr |-> Nobody, recent |-> FALSE]
Absent   == [connected |-> "disconnected", cl_guid |-> Nobody]

Init ==
    /\ clients = [i \in Clients |->
                    IF i \in BotSlots THEN [NoClient EXCEPT !.state = "active", !.adr = Bot]
                    ELSE NoClient]
    /\ level = [i \in Clients |->
                  IF i \in BotSlots THEN [connected |-> "connected", cl_guid |-> Bot]
                  ELSE Absent]
    /\ g_guidCheck \in BOOLEAN
    /\ cls = [p \in Players |-> "disconnected"]
    /\ connecting = {}
    /\ reply = [p \in Players |-> "none"]

\* The states of a client that has a slot (CS_CONNECTED and above).
InUse(i) == clients[i].state \in {"connected", "active"}

-----------------------------------------------------------------------------
(* The game module                                                         *)

ClientDisconnect(lv, i) == [lv EXCEPT ![i] = Absent]

\* "Duplicate etkey": the guid is looked for in every client the game knows of.
Denied(lv, p) == g_guidCheck /\ \E i \in Clients : lv[i].cl_guid = p

\* Who was there before and was not disconnected is wiped.
ClientConnect(lv, i, p) == [lv EXCEPT ![i] = [connected |-> "connecting", cl_guid |-> p]]

\* Defect: the level's clients are told by the state of the server's.
ClientBeginActive(lv, i) == [lv EXCEPT ![i].connected = "active"]

ClientBegin(lv, i) == [lv EXCEPT ![i].connected = "connected"]

-----------------------------------------------------------------------------
(* Getting a slot                                                          *)

\* A player takes longer to try again than messages are under way.
CL_Connect_f(p) ==
    /\ cls[p] = "disconnected" /\ p \notin connecting /\ reply[p] = "none"
    /\ cls' = [cls EXCEPT ![p] = "connecting"]
    /\ UNCHANGED <<clients, level, g_guidCheck, connecting, reply>>

\* The player's getchallenge is answered and the answer gets through.  (Then it asks for
\* the server's info, which changes nothing.)
SV_GetChallenge(p) ==
    /\ cls[p] = "connecting"
    /\ cls' = [cls EXCEPT ![p] = "challenging"]
    /\ UNCHANGED <<clients, level, g_guidCheck, connecting, reply>>

\* A connect request not answered in RETRANSMIT_TIMEOUT is sent again.
CL_CheckForResend(p) ==
    /\ cls[p] = "challenging" /\ p \notin connecting
    /\ connecting' = connecting \cup {p}
    /\ UNCHANGED <<clients, level, g_guidCheck, cls, reply>>

First(i, S) == i \in S /\ \A j \in S : i <= j

\* Defect: the reconnect limit is not looked at.
NeverTooSoon(p) == FALSE

\* The first slot the address has had, in use or not, decides.
TooSoon(p) ==
    \E i \in Clients : First(i, {j \in Clients : clients[j].adr = p}) /\ clients[i].recent

\* The slots a connect request may be given, the best kind of them there is.
Open(p) == IF p \in Privileged THEN Clients ELSE (sv_privateClients + 1)..sv_maxclients
Own(p)  == {i \in Clients : clients[i].state # "free" /\ clients[i].adr = p}
Free(p) == {i \in Open(p) : clients[i].state = "free"}
Bots(p) == {i \in Open(p) : clients[i].state # "free" /\ clients[i].adr = Bot}

\* Defect: a free slot is taken before the player's own is looked for.
FreeSlotsFirst(p) == IF Free(p) # {} THEN Free(p) ELSE IF Own(p) # {} THEN Own(p) ELSE Bots(p)

SlotsFor(p) == IF Own(p) # {} THEN Own(p) ELSE IF Free(p) # {} THEN Free(p) ELSE Bots(p)

\* A bot is dropped before its slot is given away; a player's slot is wiped without
\* a word to the game, and stays so if the game denies the player the connection.
GiveSlot(p, i) ==
    LET lv == IF i \in Bots(p) THEN ClientDisconnect(level, i) ELSE level
    IN  IF Denied(lv, p)
        THEN /\ clients' = [clients EXCEPT ![i] = [NoClient EXCEPT !.adr = p]]
             /\ level' = lv
             /\ reply' = [reply EXCEPT ![p] = "denied"]
        ELSE /\ clients' = [clients EXCEPT ![i] =
                              [state |-> "connected", adr |-> p, recent |-> TRUE]]
             /\ level' = ClientConnect(lv, i, p)
             /\ reply' = [reply EXCEPT ![p] = "connectResponse"]

\* A player for whom there is no slot is told and asks again.
SV_DirectConnect(p) ==
    /\ p \in connecting
    /\ connecting' = connecting \ {p}
    /\ IF TooSoon(p) \/ SlotsFor(p) = {}
       THEN UNCHANGED <<clients, level, reply>>
       ELSE \E i \in Clients : First(i, SlotsFor(p)) /\ GiveSlot(p, i)
    /\ UNCHANGED <<g_guidCheck, cls>>

\* A denial is an [err_dialog]: the program shows it and is disconnected.
CL_ConnectionlessPacket(p) ==
    /\ reply[p] # "none"
    /\ reply' = [reply EXCEPT ![p] = "none"]
    /\ cls' = [cls EXCEPT ![p] =
                 CASE reply[p] = "connectResponse" /\ @ = "challenging" -> "connected"
                   [] reply[p] = "denied" -> "disconnected"
                   [] OTHER -> @]
    /\ UNCHANGED <<clients, level, g_guidCheck, connecting>>

\* sv_reconnectlimit seconds after the connection.  Nothing is under way so long.
ReconnectLimitPasses(i) ==
    /\ clients[i].recent
    /\ clients[i].adr \notin connecting /\ reply[clients[i].adr] = "none"
    /\ clients' = [clients EXCEPT ![i].recent = FALSE]
    /\ UNCHANGED <<level, g_guidCheck, cls, connecting, reply>>

-----------------------------------------------------------------------------
(* Having one                                                              *)

\* The two take each other for their peer.
Playing(i, p) == cls[p] = "connected" /\ InUse(i) /\ clients[i].adr = p

\* The gamestate has got to the player, who enters the world.
SV_ClientEnterWorld(i) ==
    /\ clients[i].state = "connected" /\ \E p \in Players : Playing(i, p)
    /\ clients' = [clients EXCEPT ![i].state = "active"]
    /\ level' = ClientBegin(level, i)
    /\ UNCHANGED <<g_guidCheck, cls, connecting, reply>>

\* The game is started anew and told of the clients there are.
SV_SpawnServer ==
    /\ level' = [i \in Clients |->
                   IF ~InUse(i) THEN Absent
                   ELSE IF clients[i].adr = Bot THEN level[i]
                   ELSE ClientConnect(level, i, clients[i].adr)[i]]
    /\ clients' = [i \in Clients |->
                     IF InUse(i) /\ clients[i].adr # Bot
                     THEN [clients[i] EXCEPT !.state = "connected"] ELSE clients[i]]
    /\ UNCHANGED <<g_guidCheck, cls, connecting, reply>>

-----------------------------------------------------------------------------
(* Giving it back                                                          *)

\* Defect: the game is not told.
SV_DropClientQuietly(i, state) ==
    /\ clients' = [clients EXCEPT ![i].state = state]
    /\ level' = level

\* The slot is left in the given state, a zombie's as a rule.
SV_DropClient(i, state) ==
    /\ clients' = [clients EXCEPT ![i].state = state]
    /\ level' = ClientDisconnect(level, i)

\* For one of the many reasons the server has; the player learns of it if the command
\* gets through.
SV_Kick(i) ==
    /\ InUse(i) /\ clients[i].adr \in Players
    /\ SV_DropClient(i, "zombie")
    /\ \/ cls' = cls
       \/ /\ Playing(i, clients[i].adr)
          /\ cls' = [cls EXCEPT ![clients[i].adr] = "disconnected"]
    /\ UNCHANGED <<g_guidCheck, connecting, reply>>

ZombieTimeout(i) ==
    /\ clients[i].state = "zombie"
    /\ clients' = [clients EXCEPT ![i].state = "free"]
    /\ UNCHANGED <<level, g_guidCheck, cls, connecting, reply>>

\* Defect: who has not got into the world is waited for.
ClientTimeoutInTheWorld(i) ==
    /\ clients[i].state = "active" /\ clients[i].adr \in Players /\ ~clients[i].recent
    /\ SV_DropClient(i, "free")
    /\ UNCHANGED <<g_guidCheck, cls, connecting, reply>>

\* Nothing has come from the player for sv_timeout seconds, many times
\* sv_reconnectlimit: its program has gone, or the network is down.
ClientTimeout(i) ==
    /\ InUse(i) /\ clients[i].adr \in Players /\ ~clients[i].recent
    /\ SV_DropClient(i, "free")
    /\ UNCHANGED <<g_guidCheck, cls, connecting, reply>>

SV_CheckTimeouts(i) == ZombieTimeout(i) \/ ClientTimeout(i)

\* The player leaves, or its program dies.  If it had a connection and one of the three
\* messages it leaves with gets through, the server drops it.
CL_Disconnect(p) ==
    /\ cls[p] # "disconnected"
    /\ cls' = [cls EXCEPT ![p] = "disconnected"]
    /\ \/ UNCHANGED <<clients, level>>
       \/ \E i \in Clients : Playing(i, p) /\ SV_DropClient(i, "zombie")
    /\ UNCHANGED <<g_guidCheck, connecting, reply>>

\* Nothing has come from the server for cl_timeout seconds: it has no such client any
\* more, or the network is down.
CL_CheckTimeout(p) ==
    /\ cls[p] = "connected"
    /\ cls' = [cls EXCEPT ![p] = "disconnected"]
    /\ UNCHANGED <<clients, level, g_guidCheck, connecting, reply>>

-----------------------------------------------------------------------------
Lose(p) ==
    /\ \/ p \in connecting /\ connecting' = connecting \ {p} /\ reply' = reply
       \/ /\ reply[p] # "none" /\ connecting' = connecting
          /\ reply' = [reply EXCEPT ![p] = "none"]
    /\ UNCHANGED <<clients, level, g_guidCheck, cls>>

Next ==
    \/ \E p \in Players :
          \/ CL_Connect_f(p) \/ SV_GetChallenge(p) \/ CL_CheckForResend(p)
          \/ SV_DirectConnect(p) \/ CL_ConnectionlessPacket(p)
          \/ CL_Disconnect(p) \/ CL_CheckTimeout(p) \/ Lose(p)
    \/ \E i \in Clients :
          \/ ReconnectLimitPasses(i) \/ SV_ClientEnterWorld(i)
          \/ SV_Kick(i) \/ SV_CheckTimeouts(i)
    \/ SV_SpawnServer

Spec == Init /\ [][Next]_vars

\* Both sides run their frames, so that what is due is done; of the messages sent again
\* and again some get through; players keep trying.  Nobody has to leave.
FairSpec ==
    /\ Spec
    /\ \A p \in Players :
          /\ SF_vars(CL_Connect_f(p)) /\ WF_vars(SV_GetChallenge(p))
          /\ WF_vars(CL_CheckForResend(p)) /\ SF_vars(SV_DirectConnect(p))
          /\ SF_vars(CL_ConnectionlessPacket(p))
          /\ WF_vars(CL_CheckTimeout(p) /\ ~\E i \in Clients : Playing(i, p))
    /\ \A i \in Clients :
          /\ SF_vars(ReconnectLimitPasses(i)) /\ WF_vars(SV_ClientEnterWorld(i))
          /\ WF_vars(ZombieTimeout(i))
          /\ WF_vars(ClientTimeout(i) /\ ~\E p \in Players : Playing(i, p))

-----------------------------------------------------------------------------
(* Properties                                                              *)

\* The types of the variables.
TypeOK ==
    /\ clients \in [Clients -> [state  : {"free", "zombie", "connected", "active"},
                                adr    : Players \cup {Bot, Nobody},
                                recent : BOOLEAN]]
    /\ level \in [Clients -> [connected : {"disconnected", "connecting", "connected"},
                              cl_guid   : Players \cup {Bot, Nobody}]]
    /\ g_guidCheck \in BOOLEAN
    /\ cls \in [Players -> {"disconnected", "connecting", "challenging", "connected"}]
    /\ connecting \subseteq Players
    /\ reply \in [Players -> {"none", "connectResponse", "denied"}]

\* However often a player leaves, is lost and comes back, it never has two slots.
OneSlotEach ==
    \A p \in Players : \A i, j \in Own(p) : i = j

\* A player whose slot was wiped behind the game's back: the game counts it still, and
\* knows its guid.
Ghost(i) == clients[i].state = "free" /\ level[i].connected # "disconnected"

\* The game, told of clients who come, enter and go by three calls, and started anew
\* between them, knows who plays: the player of every slot in use and nobody else.  A
\* ghost is there only where guids are compared.
GameKnowsWhoPlays ==
    \A i \in Clients :
        /\ InUse(i) => level[i].cl_guid = clients[i].adr
        /\ clients[i].state = "active" => level[i].connected = "connected"
        /\ clients[i].state = "zombie" => level[i] = Absent
        /\ Ghost(i) => g_guidCheck

\* Nobody's connect request, its own repeated or another player's, disturbs a player who
\* is connected.
NotPutOut ==
    [][\A p, q \in Players, i \in Clients :
          Playing(i, p) /\ SV_DirectConnect(q) => clients'[i] = clients[i]]_vars

\* A player who comes back while its slot is still held keeps that slot: "if there is
\* already a slot for this ip, reuse it".
ReusesTheSlot ==
    [][\A p \in Players :
          SV_DirectConnect(p) /\ Own(p) # {} => Own(p)' = Own(p)]_vars

GivesUp(p) == cls[p] # "connected" /\ CL_Disconnect(p)
IsKicked(p) == \E i \in Own(p) : SV_Kick(i)

IsOvertaken(p) ==
    \E q \in Players \ {p} : SV_DirectConnect(q) /\ reply'[q] = "connectResponse"

\* A player gets in, as often as it wants, unless others play in all the slots it may
\* have, or are given them again and again; it gives up or is kicked again and again; or
\* the game knows its guid from a slot that was lost.
GetsIn ==
    \A p \in Players :
        \/ []<>(\/ \E i \in Clients : Playing(i, p)
                \/ \E i \in Clients : Ghost(i) /\ level[i].cl_guid = p
                \/ \A i \in Open(p) : \E q \in Players \ {p} : Playing(i, q))
        \/ []<><<GivesUp(p) \/ IsKicked(p) \/ IsOvertaken(p)>>_vars

=============================================================================
