----------------------------- MODULE Gamestate -----------------------------
(***************************************************************************)
(* How a connected client gets into the world of the level the server      *)
(* runs, and stays there while the server changes and restarts levels: the *)
(* gamestate and its repetition, the server ids that tell messages of one  *)
(* level from those of another, the check of the client's files, and the   *)
(* system information string that carries the server id.                   *)
(*                                                                         *)
(* Server: server/sv_client.c, sv_init.c, sv_ccmds.c, sv_snapshot.c.       *)
(* Client: client/cl_parse.c, cl_cgame.c, cl_input.c, cl_main.c.           *)
(*                                                                         *)
(* Messages travel as LossyChannel promises and commands as ReliableStream *)
(* promises: a message brings all commands issued before it.               *)
(***************************************************************************)
EXTENDS Integers, Sequences, SequencesExt

CONSTANTS
    sv_pure,          \* whether the server checks the clients' files
    MaxServerId,      \* bound: levels and restarts together
    MaxChanges,       \* bound: other changes of system variables
    MaxGamestates,    \* bound: no gamestate after so many is lost
    MaxInFlight       \* bound: messages under way at which no new one is begun

ASSUME GamestateAssumption ==
    /\ sv_pure \in BOOLEAN
    /\ MaxServerId \in Nat \ {0}      \* the first level has id 1
    /\ {MaxChanges, MaxGamestates, MaxInFlight} \subseteq Nat

VARIABLES
    sv,          \* the server: server_t and this client's client_t
    cl,          \* the client: clientConnection_t and clientActive_t
    commands,    \* the strings of all "cs" commands issued, in order
    toClient, toServer,   \* messages under way, oldest first
    history

vars == <<sv, cl, commands, toClient, toServer, history>>

-----------------------------------------------------------------------------
(* A message to the client has a number.  The code asks one thing of these *)
(* numbers, whether one is greater than that of the last gamestate, so all *)
(* messages between two gamestates have the same here.                     *)

None == [type |-> "none"]
Snap == [type |-> "snapshot"]
GamestateOf(s) ==
    [type |-> "gamestate", systeminfo |-> s.systeminfo, checksumFeed |-> s.restartedServerId]

\* The variables a system information string holds: the server's id and the rest.
SystemInfo(id, rest) == [sv_serverid |-> id, rest |-> rest]

\* A level begins with id restartedServerId; that also stands for the checksum
\* feed chosen with it.  The client's slot has just been taken (gamestateMessageNum
\* of a new connection is -1).
Init ==
    /\ sv = [state |-> "connected", serverId |-> 1, restartedServerId |-> 1,
             cvars |-> SystemInfo(1, 0), systeminfo |-> SystemInfo(1, 0),
             outgoingSequence |-> 1, gamestateMessageNum |-> -1,
             lastClientCommand |-> 0, gotCP |-> FALSE, pureAuthentic |-> FALSE]
    /\ cl = [state |-> "connected", systeminfo |-> SystemInfo(0, 0), checksumFeed |-> 0,
             serverMessageSequence |-> 0, serverCommandSequence |-> 0,
             lastExecutedServerCommand |-> 0, snap |-> 0, clientCommands |-> <<>>]
    /\ commands = <<>>
    /\ toClient = <<>> /\ toServer = <<>>
    /\ history = [early |-> FALSE, stale |-> FALSE, thought |-> [feed |-> 0, level |-> 0]]

Rank(state) == CASE state = "zombie"    -> 1 [] state = "connected" -> 2
                 [] state = "primed"    -> 3 [] state = "active"    -> 4

-----------------------------------------------------------------------------
(* Server: messages to the client                                          *)

Message(s, body) ==
    [number |-> s.outgoingSequence, commands |-> Len(commands), body |-> body]

\* SV_SendClientSnapshot: a client who is not in the world is sent an idle message.
ClientSnapshot(s) == Message(s, IF s.state = "active" THEN Snap ELSE None)

\* Defect: the number recorded is the one after.
SV_SendClientGameStateLate(s) ==
    [s EXCEPT !.state = "primed", !.pureAuthentic = FALSE, !.gotCP = FALSE,
              !.gamestateMessageNum = s.outgoingSequence + 2,
              !.outgoingSequence = s.outgoingSequence + 2]

SV_SendClientGameState(s) ==
    [s EXCEPT !.state = "primed", !.pureAuthentic = FALSE, !.gotCP = FALSE,
              !.gamestateMessageNum = s.outgoingSequence + 1,
              !.outgoingSequence = s.outgoingSequence + 2]

\* What a handler that took the server from s to t has sent the client.
GamestatesSent(s, t) ==
    IF t.gamestateMessageNum = s.gamestateMessageNum THEN <<>>
    ELSE <<[Message(t, GamestateOf(t)) EXCEPT !.number = t.gamestateMessageNum]>>

-----------------------------------------------------------------------------
(* Server: messages from the client                                        *)

SV_DropClient(s) == [s EXCEPT !.state = "zombie"]

\* The command "cp": for which level the client's files were checked, by the id it
\* gives and by the checksum feed it used.
SV_VerifyPaks_f(s, cp) ==
    IF ~sv_pure \/ cp.serverId < s.restartedServerId THEN s
    ELSE LET good == cp.checksumFeed = s.restartedServerId
             t    == [s EXCEPT !.gotCP = TRUE, !.pureAuthentic = good]
         IN  IF good THEN t ELSE SV_DropClient(t)

\* A command is executed once; one that comes with the wrong server id counts as
\* executed and is not.
SV_ClientCommand(s, cp, premaprestart) ==
    LET t == [s EXCEPT !.lastClientCommand = @ + 1]
    IN  IF s.state = "zombie" THEN s
        ELSE IF premaprestart THEN t ELSE SV_VerifyPaks_f(t, cp)

SV_ClientCommands(s, m, premaprestart) ==
    LET done[k \in s.lastClientCommand..m.clientCommands] ==
            IF k = s.lastClientCommand THEN s
            ELSE SV_ClientCommand(done[k - 1], cl.clientCommands[k], premaprestart)
    IN  IF m.clientCommands <= s.lastClientCommand THEN s ELSE done[m.clientCommands]

\* Defect: entering the world forgets that the files were checked.
EnterWorldUnchecked(s) == [s EXCEPT !.state = "active", !.pureAuthentic = FALSE]

SV_ClientEnterWorld(s) == [s EXCEPT !.state = "active"]

ResendsForCP(s) == s.state = "primed" /\ sv_pure /\ ~s.gotCP

SV_UserMove(s) ==
    IF ResendsForCP(s) THEN SV_SendClientGameState(s)
    ELSE LET t == IF s.state = "primed" THEN SV_ClientEnterWorld(s) ELSE s
         IN  IF sv_pure /\ ~t.pureAuthentic THEN SV_DropClient(t) ELSE t

\* The client has not caught a map_restart yet.
BeforeRestart(s, m) == s.restartedServerId <= m.serverId /\ m.serverId < s.serverId

\* Defect: the acknowledgement is not looked at.
DroppedWhateverAcknowledged(s, m) == s.state # "active"

\* Defect: only a client who has never been sent it gets it.
DroppedBeforeFirst(s, m) ==
    s.state = "connected" /\ m.messageAcknowledge > s.gamestateMessageNum

DroppedGamestate(s, m) ==
    s.state # "active" /\ m.messageAcknowledge > s.gamestateMessageNum

OldGamestate(s, m) ==
    IF BeforeRestart(s, m) THEN s
    ELSE SV_ClientCommands(IF DroppedGamestate(s, m) THEN SV_SendClientGameState(s) ELSE s, m, TRUE)

SV_ExecuteClientMessage(s, m) ==
    IF m.serverId # s.serverId THEN OldGamestate(s, m)
    ELSE LET t == SV_ClientCommands(s, m, FALSE)
         IN  IF m.move /\ t.state # "zombie" THEN SV_UserMove(t) ELSE t

\* The game is given the client's move (SV_ClientThink).
Thinks(s, m) ==
    /\ m.serverId = s.serverId /\ m.move
    /\ SV_ExecuteClientMessage(s, m).state = "active"

SV_PacketEvent ==
    /\ toServer # <<>>
    /\ LET m == Head(toServer)
           t == SV_ExecuteClientMessage(sv, m)
       IN  /\ sv' = IF sv.state = "zombie" THEN sv ELSE t
           /\ toClient' = toClient \o GamestatesSent(sv, sv')
           /\ history' = IF sv.state # "zombie" /\ Thinks(sv, m)
                         THEN [history EXCEPT !.thought =
                                 [feed |-> m.checksumFeed, level |-> sv.restartedServerId]]
                         ELSE history
    /\ toServer' = Tail(toServer)
    /\ UNCHANGED <<cl, commands>>

-----------------------------------------------------------------------------
(* Server: its frame and the console's commands                            *)

\* Defect: only clients in the world are told.
ToldWhenActive(s) == s.state = "active"

\* Clients told of a changed config string: those who have been sent a gamestate.
Told(s) == Rank(s.state) >= Rank("primed")

\* The system variables go into the config string, a change of that to every
\* client that has been sent a gamestate (SV_UpdateConfigStrings), and the client is
\* sent a message if it is time.  (What a dropped client is sent is in
\* ReliableCommands.)
SV_Frame ==
    /\ sv.state # "zombie"
    /\ LET changed == sv.cvars # sv.systeminfo
       IN  /\ sv' = [sv EXCEPT !.systeminfo = sv.cvars]
           /\ commands' = IF changed /\ Told(sv)
                          THEN Append(commands, sv.cvars) ELSE commands
           /\ \/ changed /\ toClient' = toClient
              \/ /\ Len(toClient) < MaxInFlight
                 /\ toClient' = Append(toClient, [ClientSnapshot(sv) EXCEPT !.commands = Len(commands')])
    /\ UNCHANGED <<cl, toServer, history>>

\* Some system variable other than the id changes.
Cvar_Set ==
    /\ sv.cvars.rest < MaxChanges
    /\ sv' = [sv EXCEPT !.cvars.rest = @ + 1]
    /\ UNCHANGED <<cl, commands, toClient, toServer, history>>

\* Defect: who is in the world stays there.
StayInTheWorld(state) == IF state = "active" THEN state ELSE "connected"

\* All who were connected are to get the new level's gamestate.
BackToConnected(state) == IF state = "zombie" THEN state ELSE "connected"

\* A new level: last messages to the clients (SV_FinalCommand sends two) and a new id.
SV_SpawnServer ==
    /\ sv.serverId < MaxServerId
    /\ LET id == sv.serverId + 1
       IN  sv' = [sv EXCEPT !.serverId = id, !.restartedServerId = id, !.cvars.sv_serverid = id,
                            !.systeminfo = SystemInfo(id, sv.cvars.rest),
                            !.state = BackToConnected(@)]
    /\ toClient' = IF sv.state = "zombie" THEN toClient
                   ELSE toClient \o <<ClientSnapshot(sv), ClientSnapshot(sv)>>
    /\ UNCHANGED <<cl, commands, toServer, history>>

\* The same level again, without a gamestate: everybody enters the world.
SV_MapRestart_f ==
    /\ sv.serverId < MaxServerId
    /\ LET id == sv.serverId + 1
           s  == [sv EXCEPT !.serverId = id, !.cvars.sv_serverid = id]
       IN  sv' = IF sv.state = "zombie" THEN s ELSE SV_ClientEnterWorld(s)
    /\ history' = [history EXCEPT !.early = @ \/ cl.checksumFeed # sv.restartedServerId]
    /\ UNCHANGED <<cl, commands, toClient, toServer>>

-----------------------------------------------------------------------------
(* Client                                                                  *)

\* The config strings are those of the gamestate; commands executed later change
\* them, and those that came before the gamestate and are not executed yet are
\* executed later too.
CL_ParseGamestate(c, m) ==
    [c EXCEPT !.state = "loading", !.systeminfo = m.body.systeminfo,
              !.checksumFeed = m.body.checksumFeed, !.snap = 0]

CL_ParseServerMessage(c, m) ==
    LET d == [c EXCEPT !.serverMessageSequence = m.number,
                       !.serverCommandSequence = m.commands]
    IN  CASE m.body.type = "gamestate" -> CL_ParseGamestate(d, m)
          [] m.body.type = "snapshot"  -> [d EXCEPT !.snap = m.commands + 1]
          [] m.body.type = "none"      -> d

\* Commands of an earlier level are still to be executed over this gamestate.
Overtaken(c, m) ==
    /\ m.body.type = "gamestate"
    /\ \E i \in (c.lastExecutedServerCommand + 1)..m.commands :
           commands[i].sv_serverid < m.body.checksumFeed

CL_PacketEvent ==
    /\ toClient # <<>>
    /\ LET m == Head(toClient)
       IN  /\ cl' = CL_ParseServerMessage(cl, m)
           /\ history' = [history EXCEPT !.stale = @ \/ Overtaken(cl, m)]
    /\ toClient' = Tail(toClient)
    /\ UNCHANGED <<sv, commands, toServer>>

\* The messages an idle client sends hold no moves, which need a gamestate.
ClientMessage(c) ==
    [serverId |-> c.systeminfo.sv_serverid, messageAcknowledge |-> c.serverMessageSequence,
     clientCommands |-> Len(c.clientCommands), move |-> c.state \in {"primed", "active"},
     checksumFeed |-> c.checksumFeed]

\* The end of CL_DownloadsComplete: the client game is loaded, the client says which
\* files it uses and writes to the server at once (three times the same: a repetition
\* of what one message says).
CL_InitCGame ==
    /\ cl.state = "loading"
    /\ cl' = [cl EXCEPT !.state = "primed",
                        !.clientCommands = Append(@,
                            [serverId |-> cl.systeminfo.sv_serverid,
                             checksumFeed |-> cl.checksumFeed])]
    /\ toServer' = Append(toServer, [ClientMessage(cl') EXCEPT !.move = FALSE])
    /\ UNCHANGED <<sv, commands, toClient, history>>

\* There is a snapshot (snap is one more than the commands that came before it).
CL_FirstSnapshot ==
    /\ cl.state = "primed" /\ cl.snap > 0
    /\ cl' = [cl EXCEPT !.state = "active"]
    /\ UNCHANGED <<sv, commands, toClient, toServer, history>>

\* The client game has come to a snapshot received, not always to the latest: it
\* executes the commands up to that one's (CL_GetServerCommand, for "cs"
\* CL_ConfigstringModified and CL_SystemInfoChanged).
CG_ExecuteNewServerCommands ==
    /\ cl.state = "active"
    /\ \E latest \in (cl.lastExecutedServerCommand + 1)..(cl.snap - 1) :
          cl' = [cl EXCEPT !.lastExecutedServerCommand = latest,
                           !.systeminfo = commands[latest]]
    /\ UNCHANGED <<sv, commands, toClient, toServer, history>>

CL_WritePacket ==
    /\ cl.state # "loading" /\ Len(toServer) < MaxInFlight
    /\ toServer' = Append(toServer, ClientMessage(cl))
    /\ UNCHANGED <<sv, cl, commands, toClient, history>>

-----------------------------------------------------------------------------
LoseToClient ==
    /\ toClient # <<>>
    /\ Head(toClient).body.type = "gamestate" => Head(toClient).number < 2 * MaxGamestates
    /\ toClient' = Tail(toClient)
    /\ UNCHANGED <<sv, cl, commands, toServer, history>>

LoseToServer ==
    /\ toServer # <<>>
    /\ toServer' = Tail(toServer)
    /\ UNCHANGED <<sv, cl, commands, toClient, history>>

Next ==
    \/ SV_PacketEvent \/ SV_Frame \/ Cvar_Set \/ SV_SpawnServer \/ SV_MapRestart_f
    \/ CL_PacketEvent \/ CL_InitCGame \/ CL_FirstSnapshot
    \/ CG_ExecuteNewServerCommands \/ CL_WritePacket
    \/ LoseToClient \/ LoseToServer

Spec == Init /\ [][Next]_vars

\* Both programs run their frames and write messages, and of the messages of one
\* kind written again and again some get through.
Receives(type) == CL_PacketEvent /\ Head(toClient).body.type = type

FairSpec ==
    /\ Spec
    /\ WF_vars(SV_Frame)
    /\ WF_vars(CL_InitCGame) /\ WF_vars(CL_FirstSnapshot)
    /\ WF_vars(CG_ExecuteNewServerCommands) /\ WF_vars(CL_WritePacket)
    /\ SF_vars(SV_PacketEvent) /\ SF_vars(Receives("none"))
    /\ SF_vars(Receives("snapshot")) /\ WF_vars(Receives("gamestate"))

-----------------------------------------------------------------------------
(* Properties                                                              *)

SystemInfos == [sv_serverid : 0..MaxServerId, rest : 0..MaxChanges]
Ids         == 0..MaxServerId

TypeOK ==
    /\ sv.state \in {"zombie", "connected", "primed", "active"}
    /\ sv.serverId \in Ids /\ sv.restartedServerId \in 1..sv.serverId
    /\ {sv.cvars, sv.systeminfo, cl.systeminfo} \subseteq SystemInfos
    /\ sv.gamestateMessageNum < sv.outgoingSequence
    /\ sv.lastClientCommand \in 0..Len(cl.clientCommands)
    /\ {sv.gotCP, sv.pureAuthentic} \subseteq BOOLEAN
    /\ cl.state \in {"connected", "loading", "primed", "active"}
    /\ cl.checksumFeed \in Ids
    /\ cl.lastExecutedServerCommand \in 0..cl.serverCommandSequence
    /\ cl.serverCommandSequence \in 0..Len(commands)
    /\ Range(commands) \subseteq SystemInfos

\* The game is given only moves of players who hold the gamestate of the level it
\* runs: their moves can be read, for the key they are written with is the level's.
\* "if this is a usercmd from a previous gamestate, ignore it or retransmit the
\* current gamestate"
PlaysThisLevel == history.thought.feed = history.thought.level

\* So it is unless a map_restart has put a client into the world who did not have
\* the level's gamestate yet.
PlaysThisLevelUnlessEarly == history.early \/ PlaysThisLevel

\* A client whose files are in order is not dropped for them ("a bad cp command was
\* sent, drop the client"), whatever the order in which levels change, gamestates are
\* sent again and its check arrives.
NoHonestDrop == history.early \/ sv.state # "zombie"

\* So it is unless the client has gone back to the server id of an earlier level.
NoHonestDropUnlessStale == history.stale \/ NoHonestDrop

\* The gamestate, by far the largest message, is sent again only if it was lost: never
\* to a client who has this level's.
NoNeedlessGamestate ==
    [][ sv'.gamestateMessageNum # sv.gamestateMessageNum /\ ~history.stale
        => cl.checksumFeed # sv.restartedServerId ]_vars

\* A client in the world who has executed every command holds the server's string.
HoldsTheString ==
    ( /\ ~history.early /\ ~history.stale
      /\ cl.state = "active" /\ cl.checksumFeed = sv.restartedServerId
      /\ cl.lastExecutedServerCommand = Len(commands) )
    => cl.systeminfo = sv.systeminfo

\* Once the server changes nothing more, the client ends up in the world of its level,
\* where its moves are taken, though gamestates and messages were lost.
SettlesInTheWorld ==
    <>[](history.early \/ history.stale
         \/ /\ sv.state = "active" /\ cl.state = "active"
            /\ cl.checksumFeed = sv.restartedServerId
            /\ cl.systeminfo.sv_serverid = sv.serverId)

-----------------------------------------------------------------------------
=============================================================================
