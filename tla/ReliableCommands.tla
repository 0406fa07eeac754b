-------------------------- MODULE ReliableCommands --------------------------
(***************************************************************************)
(* Reliable commands between the server and one client, both ways: text    *)
(* commands numbered from 1 are kept in a ring at the end that issues them *)
(* and repeated in every message until the other end acknowledges them.    *)
(* The acknowledged command's text is also the key both ends scramble the  *)
(* messages with.                                                          *)
(*                                                                         *)
(* The messages travel through a channel that keeps their order and may    *)
(* lose any of them: LossyChannel, which NetChan implements.               *)
(*                                                                         *)
(* The text of the n-th command is the number n; 0 is the empty string the *)
(* rings are filled with at first.  The connection has its gamestate.      *)
(***************************************************************************)
EXTENDS Integers, Sequences, FiniteSets

CONSTANTS
    MAX_RELIABLE_COMMANDS, \* slots of a ring
    ServerWindow,          \* bound: commands the server lets go unacknowledged
    ClientWindow,          \* bound: commands the client lets go unacknowledged
    MaxCommands,           \* bound: commands issued at each end
    MaxInFlight            \* bound: messages under way in each direction

ASSUME RingAssumption == MAX_RELIABLE_COMMANDS \in Nat \ {0}
ASSUME WindowAssumption == ServerWindow \in Nat /\ ClientWindow \in Nat
ASSUME BoundAssumption == MaxCommands \in Nat /\ MaxInFlight \in Nat

VARIABLES
    sv,                    \* the server's side: client_t
    cl,                    \* the client's side: clientConnection_t, cl and cgs
    toClient, toServer,    \* messages under way, oldest first
    svExecuted,            \* history: texts of the client commands executed
    clExecuted,            \* history: texts of the server commands executed
    thought,               \* stamp of the last usercmd the server executed
    shown                  \* stamp of the last snapshot the client executed

vars == <<sv, cl, toClient, toServer, svExecuted, clExecuted, thought, shown>>

-----------------------------------------------------------------------------
(* Texts and rings.                                                        *)

Disconnect == -1           \* the text of a "disconnect" command

Slot(n) == n % MAX_RELIABLE_COMMANDS

\* Defect: one slot more than the ring has.
WideRing == [i \in 0..MAX_RELIABLE_COMMANDS |-> 0]

EmptyRing == [i \in 0..(MAX_RELIABLE_COMMANDS - 1) |-> 0]

\* Defect: the newest command is left out.
UnacknowledgedButNewest(side) ==
    [n \in (side.reliableAcknowledge + 1)..(side.reliableSequence - 1) |->
        side.reliableCommands[Slot(n)]]

\* The unacknowledged commands, by number, as the ring now holds them.
Unacknowledged(side) ==
    [n \in (side.reliableAcknowledge + 1)..side.reliableSequence |->
        side.reliableCommands[Slot(n)]]

Outstanding(side) == side.reliableSequence - side.reliableAcknowledge

Newest(ns) == CHOOSE n \in ns : \A k \in ns : k <= n

\* Defect: the slot is taken before the number is.
PutEarly(side, text) ==
    [side EXCEPT !.reliableSequence = @ + 1,
                 !.reliableCommands[Slot(side.reliableSequence)] = text]

\* Number the next command and put its text in the ring.
Put(side, text) ==
    [side EXCEPT !.reliableSequence = @ + 1,
                 !.reliableCommands[Slot(side.reliableSequence + 1)] = text]

\* An acknowledgement too old to be true counts as one of everything.
OutOfRange(side, ack) == ack < side.reliableSequence - MAX_RELIABLE_COMMANDS

Acknowledge(side, ack) ==
    [side EXCEPT !.reliableAcknowledge =
        IF OutOfRange(side, ack) THEN side.reliableSequence ELSE ack]

-----------------------------------------------------------------------------
Init ==
    /\ sv = [state |-> "active", reason |-> "none", disconnects |-> 0,
             reliableSequence |-> 0, reliableAcknowledge |-> 0,
             reliableCommands |-> EmptyRing,
             lastClientCommand |-> 0, lastClientCommandString |-> 0]
    /\ cl = [state |-> "active", error |-> "none",
             reliableSequence |-> 0, reliableAcknowledge |-> 0,
             reliableCommands |-> EmptyRing,
             serverCommandSequence |-> 0, serverCommands |-> EmptyRing,
             lastExecuted |-> 0, snap |-> <<>>]
    /\ toClient = <<>> /\ toServer = <<>>
    /\ svExecuted = <<>> /\ clExecuted = <<>>
    /\ thought = 0 /\ shown = 0

-----------------------------------------------------------------------------
(* Server commands: SV_AddServerCommand and SV_DropClient.                 *)

\* Defect: the disconnect is not stored in a ring just full.
BuryAtCap(s, reason) ==
    LET z == [s EXCEPT !.state = "zombie", !.reason = reason, !.disconnects = @ + 1]
    IN  IF Outstanding(z) >= MAX_RELIABLE_COMMANDS - 1
        THEN [z EXCEPT !.reliableSequence = @ + 1]
        ELSE Put(z, Disconnect)

\* The second half of SV_DropClient, for a client not dropped before: it turns
\* zombie, the game is told, and a disconnect command is added; added to a
\* ring just over full, it is numbered but not stored.
Bury(s, reason) ==
    LET z == [s EXCEPT !.state = "zombie", !.reason = reason, !.disconnects = @ + 1]
    IN  IF Outstanding(z) = MAX_RELIABLE_COMMANDS
        THEN [z EXCEPT !.reliableSequence = @ + 1]
        ELSE Put(z, Disconnect)

\* The drop for an overflow: the broadcast that goes before the disconnect is
\* stored, for the count is past the one that is checked.
DropForOverflow(s) ==
    IF s.state = "zombie" THEN s
    ELSE Bury(Put(s, s.reliableSequence + 1), "overflow")

AddServerCommand(s) ==
    IF Outstanding(s) = MAX_RELIABLE_COMMANDS
    THEN DropForOverflow([s EXCEPT !.reliableSequence = @ + 1])
    ELSE Put(s, s.reliableSequence + 1)

\* Everyone is told first, this client included, which may overflow.
DropClient(s, reason) ==
    IF s.state = "zombie" THEN s ELSE Bury(AddServerCommand(s), reason)

SV_SendServerCommand ==
    /\ sv.state = "active"
    /\ Outstanding(sv) < ServerWindow
    /\ sv.reliableSequence < MaxCommands
    /\ sv' = AddServerCommand(sv)
    /\ UNCHANGED <<cl, toClient, toServer, svExecuted, clExecuted, thought, shown>>

\* The game module drops the client: a kick, a vote.  (A client dropped for its
\* silence is freed at once and sent nothing.)
SV_GameDropClient ==
    /\ sv.state = "active"
    /\ sv' = DropClient(sv, "kicked")
    /\ UNCHANGED <<cl, toClient, toServer, svExecuted, clExecuted, thought, shown>>

\* Every message acknowledges, then repeats the unacknowledged commands, then
\* holds the snapshot.  The stamp says which commands came before it.
SV_SendClientSnapshot ==
    /\ Len(toClient) < MaxInFlight
    /\ toClient' = Append(toClient,
         [acknowledge |-> sv.lastClientCommand,
          key         |-> sv.lastClientCommandString,
          commands    |-> Unacknowledged(sv),
          stamp       |-> sv.reliableSequence])
    /\ UNCHANGED <<sv, cl, toServer, svExecuted, clExecuted, thought, shown>>

-----------------------------------------------------------------------------
(* Client commands.                                                        *)

ClientIsFull(side) == Outstanding(side) > MAX_RELIABLE_COMMANDS

ClientError(c, error) == [c EXCEPT !.state = "dropped", !.error = error]

CL_AddReliableCommand ==
    /\ cl.state = "active"
    /\ Outstanding(cl) < ClientWindow
    /\ cl.reliableSequence < MaxCommands
    /\ cl' = IF ClientIsFull(cl) THEN ClientError(cl, "overflow")
             ELSE Put(cl, cl.reliableSequence + 1)
    /\ UNCHANGED <<sv, toClient, toServer, svExecuted, clExecuted, thought, shown>>

\* Defect: the key is the last command executed, not the last received.
KeyExecuted == cl.serverCommands[Slot(cl.lastExecuted)]

\* CL_Netchan_Encode: the command this packet acknowledges.
ClientKey == cl.serverCommands[Slot(cl.serverCommandSequence)]

\* A packet acknowledges, repeats the unacknowledged commands, and holds the
\* newest usercmds.  Their stamp says which commands came before them.
CL_WritePacket ==
    /\ cl.state = "active"
    /\ Len(toServer) < MaxInFlight
    /\ toServer' = Append(toServer,
         [acknowledge |-> cl.serverCommandSequence,
          key         |-> ClientKey,
          commands    |-> Unacknowledged(cl),
          stamp       |-> cl.reliableSequence])
    /\ UNCHANGED <<sv, cl, toClient, svExecuted, clExecuted, thought, shown>>

-----------------------------------------------------------------------------
(* The server receives a packet.                                           *)

\* The commands of m not executed yet.
NewToServer(m) == {n \in DOMAIN m.commands : n > sv.lastClientCommand}

\* Defect: they are found missing when the last one executed is not repeated.
LostUnlessRepeated(m) == NewToServer(m) # {} /\ sv.lastClientCommand \notin DOMAIN m.commands

\* Commands are missing between the last one executed and the first new one.
LostCommands(m) == NewToServer(m) # {} /\ sv.lastClientCommand + 1 \notin NewToServer(m)

ServerCanDecode(m) == m.key = sv.reliableCommands[Slot(m.acknowledge)]

\* The rest of a message the server cannot unscramble: it is not understood,
\* or what is read gets the client dropped.
ExecuteGarbledClientMessage(m) ==
    /\ ~ServerCanDecode(m)
    /\ \/ sv' = Acknowledge(sv, m.acknowledge)
       \/ sv' = DropClient(Acknowledge(sv, m.acknowledge), "illegible")
    /\ UNCHANGED <<svExecuted, thought>>

\* SV_ClientCommand for each command, then SV_UserMove.
ExecuteClientMessage(m) ==
    LET new == NewToServer(m) IN
    /\ ServerCanDecode(m)
    /\ ~OutOfRange(sv, m.acknowledge)
    /\ ~LostCommands(m)
    /\ sv' = IF new = {} THEN Acknowledge(sv, m.acknowledge)
             ELSE [Acknowledge(sv, m.acknowledge) EXCEPT
                     !.lastClientCommand = Newest(new),
                     !.lastClientCommandString = m.commands[Newest(new)]]
    /\ svExecuted' = svExecuted \o
         [i \in 1..Cardinality(new) |-> m.commands[sv.lastClientCommand + i]]
    /\ thought' = m.stamp

\* The commands came to nothing, and nothing after them is read.
RefuseClientMessage(m) ==
    /\ ServerCanDecode(m)
    /\ OutOfRange(sv, m.acknowledge) \/ LostCommands(m)
    /\ sv' = IF OutOfRange(sv, m.acknowledge) THEN Acknowledge(sv, m.acknowledge)
             ELSE DropClient(Acknowledge(sv, m.acknowledge), "lost commands")
    /\ UNCHANGED <<svExecuted, thought>>

\* A zombie's packets only pass through the channel.
SV_PacketEvent ==
    /\ toServer # <<>>
    /\ toServer' = Tail(toServer)
    /\ \/ /\ sv.state = "zombie"
          /\ UNCHANGED <<sv, svExecuted, thought>>
       \/ /\ sv.state = "active"
          /\ \/ ExecuteClientMessage(Head(toServer))
             \/ RefuseClientMessage(Head(toServer))
             \/ ExecuteGarbledClientMessage(Head(toServer))
    /\ UNCHANGED <<cl, toClient, clExecuted, shown>>

-----------------------------------------------------------------------------
(* The client receives a message.                                          *)

NewToClient(m) == {n \in DOMAIN m.commands : n > cl.serverCommandSequence}

\* CL_ParseCommandString for each: numbers already seen are skipped.
ParseCommandStrings(m) ==
    LET new == NewToClient(m)
    IN  [cl EXCEPT
           !.serverCommandSequence = IF new = {} THEN @ ELSE Newest(new),
           !.serverCommands = [i \in DOMAIN @ |->
               LET ns == {n \in new : Slot(n) = i}
               IN  IF ns = {} THEN @[i]
                   ELSE m.commands[Newest(ns)]]]

\* Defect: the snapshot comes before the commands of its own message.
ParseSnapshotFirst(c, m) ==
    [c EXCEPT !.snap = [serverCommandNum |-> cl.serverCommandSequence,
                        stamp |-> m.stamp]]

\* CL_ParseSnapshot: the snapshot comes after every command parsed so far.
ParseSnapshot(c, m) ==
    [c EXCEPT !.snap = [serverCommandNum |-> c.serverCommandSequence,
                        stamp |-> m.stamp]]

\* Defect: the key is taken from the last acknowledgement, not from this one.
DecodesWithLast(m) == m.key = cl.reliableCommands[Slot(cl.reliableAcknowledge)]

ClientCanDecode(m) == m.key = cl.reliableCommands[Slot(m.acknowledge)]

ParseGarbledServerMessage(m) ==
    /\ ~ClientCanDecode(m)
    /\ \/ cl' = Acknowledge(cl, m.acknowledge)
       \/ cl' = ClientError(Acknowledge(cl, m.acknowledge), "illegible")

ParseServerMessage(m) ==
    /\ ClientCanDecode(m)
    /\ cl' = Acknowledge(ParseSnapshot(ParseCommandStrings(m), m), m.acknowledge)

CL_PacketEvent ==
    /\ toClient # <<>>
    /\ toClient' = Tail(toClient)
    /\ \/ /\ cl.state = "dropped"
          /\ UNCHANGED cl
       \/ /\ cl.state = "active"
          /\ \/ ParseServerMessage(Head(toClient))
             \/ ParseGarbledServerMessage(Head(toClient))
    /\ UNCHANGED <<sv, toServer, svExecuted, clExecuted, thought, shown>>

-----------------------------------------------------------------------------
(* The client game moves on to the snapshot: CG_TransitionSnapshot and     *)
(* CL_GetServerCommand for every command that came with it.                *)

\* Defect: the slot just written over still counts.
CycledOutLate(n) == n < cl.serverCommandSequence - MAX_RELIABLE_COMMANDS

\* The ring has gone round since.
CycledOut(n) == n <= cl.serverCommandSequence - MAX_RELIABLE_COMMANDS

Due == (cl.lastExecuted + 1)..cl.snap.serverCommandNum

TextDue(n) == cl.serverCommands[Slot(n)]

\* The commands executed: those before a disconnect, if there is one.
Heeded == {n \in Due : \A k \in Due : k <= n => TextDue(k) # Disconnect}

CG_TransitionSnapshot ==
    /\ cl.state = "active"
    /\ cl.snap # <<>>
    /\ \/ /\ \E n \in Due : CycledOut(n)
          /\ cl' = ClientError(cl, "cycled out")
          /\ UNCHANGED <<clExecuted, shown>>
       \/ /\ \A n \in Due : ~CycledOut(n)
          /\ clExecuted' = clExecuted \o
               [i \in 1..Cardinality(Heeded) |-> TextDue(cl.lastExecuted + i)]
          /\ \/ /\ Heeded = Due
                /\ shown' = cl.snap.stamp
                /\ cl' = [cl EXCEPT !.lastExecuted = cl.snap.serverCommandNum,
                                    !.snap = <<>>]
             \/ /\ Heeded # Due
                /\ cl' = ClientError(cl, "disconnect")
                /\ UNCHANGED shown
    /\ UNCHANGED <<sv, toClient, toServer, svExecuted, thought>>

-----------------------------------------------------------------------------
\* Any message may be lost.
LoseToClient ==
    /\ toClient # <<>>
    /\ toClient' = Tail(toClient)
    /\ UNCHANGED <<sv, cl, toServer, svExecuted, clExecuted, thought, shown>>

LoseToServer ==
    /\ toServer # <<>>
    /\ toServer' = Tail(toServer)
    /\ UNCHANGED <<sv, cl, toClient, svExecuted, clExecuted, thought, shown>>

Next ==
    \/ SV_SendServerCommand \/ SV_GameDropClient \/ SV_SendClientSnapshot
    \/ CL_AddReliableCommand \/ CL_WritePacket
    \/ SV_PacketEvent \/ CL_PacketEvent \/ CG_TransitionSnapshot
    \/ LoseToClient \/ LoseToServer

Spec == Init /\ [][Next]_vars

\* Each end keeps sending and the client keeps drawing; a message sent again
\* and again is not lost for ever.
FairSpec ==
    /\ Spec
    /\ WF_vars(SV_SendClientSnapshot) /\ WF_vars(CL_WritePacket)
    /\ SF_vars(SV_PacketEvent) /\ SF_vars(CL_PacketEvent)
    /\ SF_vars(CG_TransitionSnapshot)
-----------------------------------------------------------------------------
(* Properties.                                                             *)

Texts == Int

Ring == [0..(MAX_RELIABLE_COMMANDS - 1) -> Texts]

TypeOK ==
    /\ sv.state \in {"active", "zombie"}
    /\ cl.state \in {"active", "dropped"}
    /\ {sv.reliableCommands, cl.reliableCommands, cl.serverCommands} \subseteq Ring
    /\ sv.reliableAcknowledge \in 0..sv.reliableSequence
    /\ cl.reliableAcknowledge \in 0..cl.reliableSequence
    /\ sv.lastClientCommand \in 0..cl.reliableSequence
    /\ cl.serverCommandSequence \in 0..sv.reliableSequence
    /\ cl.lastExecuted \in 0..cl.serverCommandSequence

\* The client game executes the server's commands, the server the client's,
\* each once, in order and with the text it was issued with, whatever
\* messages are lost.
ToClient == INSTANCE ReliableStream WITH
    issued <- sv.reliableSequence, executed <- clExecuted
ToServer == INSTANCE ReliableStream WITH
    issued <- cl.reliableSequence, executed <- svExecuted

ServerCommandsAreAStream == ToClient!StSpec
ClientCommandsAreAStream == ToServer!StSpec

\* SV_AddServerCommand's promise: no snapshot built after a command is executed
\* by the client before the command is.
CommandBeforeSnapshot == shown <= Len(clExecuted)

\* CL_AddReliableCommand's promise: no usercmd made after a command is executed
\* by the server before the command is.
CommandBeforeUsercmd == thought <= Len(svExecuted)

\* Whenever a message arrives, its receiver finds in the slot the message
\* acknowledges the very text its sender scrambled it with.
ServerDecodes ==
    sv.state = "active" => \A i \in DOMAIN toServer : ServerCanDecode(toServer[i])

ClientDecodes ==
    cl.state = "active" => \A i \in DOMAIN toClient : ClientCanDecode(toClient[i])

\* A client of this program is not dropped for lost or illegible commands, and
\* does not give up for an illegible message.
NoHonestDrop ==
    /\ sv.reason \in {"none", "kicked"}
    /\ cl.error \in {"none", "disconnect", "cycled out"}

\* A client that was dropped has still to be sent a disconnect command, until
\* it has got it ("so they can pick up the disconnect reason").
DisconnectPending ==
    sv.state = "zombie" =>
        \E n \in DOMAIN Unacknowledged(sv) : Unacknowledged(sv)[n] = Disconnect

\* The game is told of a client's going once: the broadcast SV_DropClient makes
\* "doesn't cause a recursive drop client".
DisconnectedOnce == sv.disconnects <= 1

\* Commands get through while the connection lasts, in both directions.
ClientCommandsArrive ==
    \A n \in 1..MaxCommands :
        cl.reliableSequence >= n ~>
            \/ Len(svExecuted) >= n
            \/ sv.state = "zombie"
            \/ cl.state = "dropped"

ServerCommandsArrive ==
    \A n \in 1..MaxCommands :
        sv.reliableSequence >= n ~>
            \/ Len(clExecuted) >= n
            \/ sv.state = "zombie"
            \/ cl.state = "dropped"
=============================================================================
