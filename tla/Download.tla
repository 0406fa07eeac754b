------------------------------ MODULE Download ------------------------------
(***************************************************************************)
(* How a player gets the files a level needs: from the server, block by    *)
(* block within a window of unacknowledged blocks, or from a web server it *)
(* is redirected to, with the blocks to fall back on; and how it comes to  *)
(* the level's gamestate afterwards, though the level may change meanwhile.*)
(*                                                                         *)
(* Server: server/sv_client.c, sv_snapshot.c.  Client: client/cl_parse.c,  *)
(* qcommon/download.c, qcommon/files.c.                                    *)
(*                                                                         *)
(* One client, one server.  Messages to the client get lost and are        *)
(* delivered in order (NetChan); the client's commands arrive in order,    *)
(* all of them, after any delay (ReliableCommands).  Left out: a level     *)
(* whose files the server may not give or does not have, redirects to a    *)
(* page to be opened in a browser, and downloads that go on while          *)
(* disconnected.                                                           *)
(***************************************************************************)
EXTENDS Integers, SequencesExt

CONSTANTS
    Paks,                 \* the files the level needs, in the server's order
    Size,                 \* the number of blocks of each
    MAX_DOWNLOAD_WINDOW,
    Shorts,               \* how many numbers a 16-bit word tells apart
    MaxLevels, MaxWire, MaxCommands,  \* bounds of the model
    None

Files == Range(Paks)

ASSUME DownloadAssumption ==
    /\ Paks \in Seq(Files) /\ IsInjective(Paks) /\ None \notin Files
    /\ Size \in [Files -> Nat \ {0}]
    /\ MAX_DOWNLOAD_WINDOW \in Nat \ {0}
    /\ Shorts \in Nat /\ Shorts % 2 = 0 /\ 2 * MAX_DOWNLOAD_WINDOW <= Shorts
    /\ {MaxLevels, MaxWire, MaxCommands} \subseteq Nat

VARIABLES
    sv,        \* the server's side: its level and the download of its client_t
    cl,        \* the client's side: dld, the outstanding commands, the disk, which
               \* may fail once, and whether it ever took what was another file's
    toClient,  \* messages under way
    mirror     \* what the web server has under the name of each file, if there is one

vars == <<sv, cl, toClient, mirror>>

-----------------------------------------------------------------------------
\* Block k of file f; the one after the last is empty and says that it was.
Block(f, k) == [file |-> f, n |-> k]
Whole(f) == [k \in 1..Size[f] |-> Block(f, k - 1)]
IsEmpty(b) == b.file = None \/ b.n = Size[b.file]

\* A number as it is read from a message.
Short(n) == ((n + Shorts \div 2) % Shorts) - Shorts \div 2

\* To the client; it may get lost.
Send(m) == toClient' \in {toClient, Append(toClient, m)}

Init ==
    /\ sv = [state |-> "connected", serverId |-> 1, nextdl |-> FALSE, gamestate |-> FALSE,
             downloadName |-> None, download |-> FALSE,
             bWWWDl |-> FALSE, bWWWing |-> FALSE, bFallback |-> FALSE,
             clientBlock |-> 0, currentBlock |-> 0, xmitBlock |-> 0,
             blocks |-> [i \in 0..MAX_DOWNLOAD_WINDOW - 1 |-> Block(None, 0)]]
    /\ \E faulty \in BOOLEAN :
       cl = [state |-> "connected", serverId |-> 0, commands |-> <<>>,
             downloadName |-> None, downloadList |-> <<>>, downloadRestart |-> FALSE,
             downloadBlock |-> 0, open |-> FALSE, temp |-> <<>>,
             bWWWDl |-> FALSE, aborting |-> FALSE, fetching |-> None,
             redirected |-> {}, bad |-> {}, saved |-> {}, known |-> {}, faulty |-> faulty,
             mixed |-> FALSE]
    /\ toClient = <<>>
    /\ mirror \in [Files -> {"good", "wrong", "missing"}] \cup {[f \in Files |-> "off"]}

-----------------------------------------------------------------------------
(* The server executes the client's commands                               *)

SV_CloseDownload(s) == [s EXCEPT !.download = FALSE, !.downloadName = None]
SV_DropClient(s)    == [s EXCEPT !.state = "dropped"]
SV_SendClientGameState(s) == [s EXCEPT !.gamestate = TRUE]

SV_BeginDownload_f(s, f) == [SV_CloseDownload(s) EXCEPT !.downloadName = f]

SV_NextDownload_f(s, block) ==
    IF block # s.clientBlock THEN SV_DropClient(s)
    ELSE IF IsEmpty(s.blocks[block % MAX_DOWNLOAD_WINDOW]) THEN SV_CloseDownload(s)
    ELSE [s EXCEPT !.clientBlock = @ + 1]

SV_WWWDownload_f(s, subcmd) ==
    IF ~s.bWWWDl \/ (subcmd # "wwwdl_ack" /\ ~s.bWWWing) THEN SV_DropClient(s)
    ELSE CASE subcmd = "wwwdl_ack"  -> [s EXCEPT !.bWWWing = TRUE]
           [] subcmd = "wwwdl_done" -> [SV_CloseDownload(s) EXCEPT !.bWWWing = FALSE]
           [] subcmd = "wwwdl_fail" ->
                SV_SendClientGameState([SV_CloseDownload(s) EXCEPT !.bWWWing = FALSE,
                                                                   !.bFallback = TRUE])

SV_ExecuteClientCommand(s, c) ==
    LET t == [s EXCEPT !.nextdl = c.cmd = "nextdl"]
    IN  IF s.state # "connected" THEN s
        ELSE CASE c.cmd = "download" -> SV_BeginDownload_f(t, c.arg)
               [] c.cmd = "nextdl"   -> SV_NextDownload_f(t, c.arg)
               [] c.cmd = "stopdl"   -> SV_CloseDownload(t)
               [] c.cmd = "donedl"   -> SV_SendClientGameState(t)
               [] OTHER              -> SV_WWWDownload_f(t, c.cmd)

\* Defect: who downloads is given the gamestate of the new level.
OldGamestateAlways == cl.serverId # sv.serverId

\* A client that downloads, or has just acknowledged a file's last block, is let stay
\* at the level it was at.
OldGamestate == cl.serverId # sv.serverId /\ sv.downloadName = None /\ ~sv.nextdl

GamestateUnderWay == \E i \in DOMAIN toClient : toClient[i].type = "gamestate"

\* A message with the first n of the commands not executed yet.  "wwwdl_done" and what
\* follows it are written at once.  A client at an old level has its commands skipped,
\* and is sent the new gamestate unless that may be under way.
SV_ExecuteClientMessage(n) ==
    LET executed[i \in 0..n] ==
            IF i = 0 THEN sv ELSE SV_ExecuteClientCommand(executed[i - 1], cl.commands[i])
        s == IF OldGamestate
             THEN [sv EXCEPT !.gamestate = ~GamestateUnderWay,
                             !.nextdl = n > 0 /\ cl.commands[n].cmd = "nextdl"]
             ELSE executed[n]
    IN  /\ sv.state = "connected"
        /\ n < Len(cl.commands) =>
              ~OldGamestate /\ n > 0 /\ cl.commands[n].cmd \notin {"wwwdl_done", "stopdl"}
        /\ sv' = [s EXCEPT !.gamestate = FALSE]
        /\ cl' = [cl EXCEPT !.commands = SubSeq(@, n + 1, Len(@))]
        /\ IF s.gamestate THEN Send([type |-> "gamestate", serverId |-> sv.serverId])
           ELSE toClient' = toClient
        /\ UNCHANGED mirror

-----------------------------------------------------------------------------
(* The server sends the file                                               *)

\* Opens the file, if it is not open.
SV_SetupDownloadFile(s) ==
    IF s.download THEN s
    ELSE [s EXCEPT !.download = TRUE, !.bWWWDl = FALSE, !.bFallback = FALSE,
                   !.clientBlock = 0, !.currentBlock = 0, !.xmitBlock = 0]

\* Defect: reads the file to its end, whether the window is full or not.
ReadAll(s) ==
    [s EXCEPT !.currentBlock = Size[s.downloadName] + 1,
              !.blocks = [i \in DOMAIN @ |->
                  LET new == {k \in 0..Size[s.downloadName] : k % MAX_DOWNLOAD_WINDOW = i}
                  IN  IF new = {} THEN @[i]
                      ELSE Block(s.downloadName, CHOOSE k \in new : \A j \in new : j <= k)]]

\* Reads blocks until the window is full or the file at its end.
Read(s) ==
    LET end == CHOOSE n \in {s.clientBlock + MAX_DOWNLOAD_WINDOW, Size[s.downloadName] + 1} :
                   n <= s.clientBlock + MAX_DOWNLOAD_WINDOW /\ n <= Size[s.downloadName] + 1
        new == s.currentBlock..end - 1
    IN  [s EXCEPT !.currentBlock = end,
                  !.blocks = [i \in DOMAIN @ |->
                                LET here == {k \in new : k % MAX_DOWNLOAD_WINDOW = i}
                                IN  IF here = {} THEN @[i]
                                    ELSE Block(s.downloadName,
                                               CHOOSE k \in here : \A j \in here : j <= k)]]

Redirects == mirror[sv.downloadName] # "off" /\ ~sv.download /\ ~sv.bFallback

\* When the whole window has been sent and a second has gone by, it is sent again from
\* the block that is to be acknowledged.
SV_WriteDownloadToClient ==
    /\ sv.state = "connected" /\ sv.downloadName # None /\ ~sv.bWWWing
    /\ Len(toClient) < MaxWire
    /\ IF Redirects
       THEN /\ sv' = [sv EXCEPT !.bWWWDl = TRUE]
            /\ Send([type |-> "www", file |-> sv.downloadName])
       ELSE LET s == Read(SV_SetupDownloadFile(sv))
                xmit == IF s.xmitBlock = s.currentBlock THEN s.clientBlock ELSE s.xmitBlock
            IN  /\ sv' = [s EXCEPT !.xmitBlock = xmit + 1]
                /\ Send([type |-> "block", block |-> Short(xmit),
                         data |-> s.blocks[xmit % MAX_DOWNLOAD_WINDOW]])
    /\ UNCHANGED <<cl, mirror>>

\* Nothing has been acknowledged for four seconds.
SV_SendClientMessages ==
    /\ sv.state = "connected" /\ sv.download
    /\ sv' = [sv EXCEPT !.state = "timed_out"]
    /\ UNCHANGED <<cl, toClient, mirror>>

\* The level changes.
SV_SpawnServer ==
    /\ sv.serverId < MaxLevels
    /\ cl.state = "connected"
    /\ sv' = [sv EXCEPT !.serverId = @ + 1]
    /\ UNCHANGED <<cl, toClient, mirror>>

-----------------------------------------------------------------------------
(* The client                                                              *)

CL_AddReliableCommand(c, cmd, arg) ==
    [c EXCEPT !.commands = Append(@, [cmd |-> cmd, arg |-> arg])]

\* The files are looked for on the disk.
FS_Restart(c) ==
    [c EXCEPT !.known = {f \in Files : \E r \in c.saved : r.content = Whole(f)}]

\* The files the level needs that are not there, in the server's order.
FS_ComparePaks(known) ==
    LET missing[i \in 0..Len(Paks)] ==
            IF i = 0 THEN <<>>
            ELSE IF Paks[i] \in known THEN missing[i - 1]
            ELSE Append(missing[i - 1], Paks[i])
    IN  missing[Len(Paks)]

\* Saved as f, or under a name made up if that is taken.
Save(c, f, content) ==
    [c EXCEPT !.saved = @ \cup {[name |-> f, content |-> content]}, !.downloadName = None]

Com_DownloadsComplete(c) ==
    IF c.downloadRestart
    THEN CL_AddReliableCommand(
             FS_Restart([c EXCEPT !.downloadRestart = FALSE, !.downloadName = None]),
             "donedl", None)
    ELSE [c EXCEPT !.state = "loading"]

Com_NextDownload(c) ==
    IF c.downloadList = <<>> THEN Com_DownloadsComplete(c)
    ELSE CL_AddReliableCommand(
             [c EXCEPT !.downloadName = Head(c.downloadList), !.downloadList = Tail(@),
                       !.downloadBlock = 0, !.downloadRestart = TRUE],
             "download", Head(c.downloadList))

\* A file got through a redirect and not found now is thought to be a wrong one there,
\* and is removed.
Com_InitDownloads(c) ==
    LET wrong == {f \in c.redirected \ c.known : \E r \in c.saved : r.name = f}
    IN  Com_NextDownload(
            [c EXCEPT !.bWWWDl = FALSE, !.aborting = FALSE,
                      !.downloadName = None, !.downloadRestart = FALSE,
                      !.bad = @ \cup wrong, !.redirected = {},
                      !.saved = {r \in @ : r.name \notin wrong},
                      !.downloadList = FS_ComparePaks(c.known)])

CL_ParseGamestate(c, serverId) ==
    LET d == [c EXCEPT !.serverId = serverId]
    IN  Com_InitDownloads(IF serverId # c.serverId THEN FS_Restart(d) ELSE d)

\* Defect: the first redirect is followed, even to what is known for a wrong file.
ParseAnyRedirect(c, f) ==
    LET d == CL_AddReliableCommand(
                 [c EXCEPT !.bWWWDl = TRUE, !.mixed = @ \/ f # c.downloadName],
                 "wwwdl_ack", None)
    IN  IF c.bWWWDl THEN c ELSE [d EXCEPT !.fetching = f]

\* The first redirect is followed, unless it is known for a wrong one.
ParseRedirect(c, f) ==
    LET d == CL_AddReliableCommand(
                 [c EXCEPT !.bWWWDl = TRUE, !.mixed = @ \/ f # c.downloadName],
                 "wwwdl_ack", None)
    IN  IF c.bWWWDl THEN c
        ELSE IF c.downloadName \in c.bad
        THEN CL_AddReliableCommand([d EXCEPT !.aborting = TRUE], "wwwdl_fail", None)
        ELSE [d EXCEPT !.fetching = f]

\* Defect: a block is taken whatever its number.
ParseAnyBlock(c, m) ==
    LET d == CL_AddReliableCommand(
                 [c EXCEPT !.downloadBlock = @ + 1, !.open = ~IsEmpty(m.data),
                           !.mixed = @ \/ m.data.file # c.downloadName,
                           !.temp = (IF c.open THEN @ ELSE <<>>)
                                    \o (IF IsEmpty(m.data) THEN <<>> ELSE <<m.data>>)],
                 "nextdl", c.downloadBlock)
    IN  IF IsEmpty(m.data) THEN Com_NextDownload(Save(d, c.downloadName, d.temp)) ELSE d

\* The block waited for is written and acknowledged; others are ignored.
ParseBlock(c, m) ==
    LET d == CL_AddReliableCommand(
                 [c EXCEPT !.downloadBlock = @ + 1, !.open = ~IsEmpty(m.data),
                           !.mixed = @ \/ m.data.file # c.downloadName,
                           !.temp = (IF c.open THEN @ ELSE <<>>)
                                    \o (IF IsEmpty(m.data) THEN <<>> ELSE <<m.data>>)],
                 "nextdl", c.downloadBlock)
    IN  IF m.block # c.downloadBlock THEN c
        ELSE IF IsEmpty(m.data) THEN Com_NextDownload(Save(d, c.downloadName, d.temp))
        ELSE d

CL_ParseDownload(c, m) ==
    IF c.downloadName = None THEN CL_AddReliableCommand(c, "stopdl", None)
    ELSE IF m.type = "www" THEN ParseRedirect(c, m.file)
    ELSE ParseBlock(c, m)

CL_ParseServerMessage ==
    /\ cl.state = "connected" /\ toClient # <<>>
    /\ Len(cl.commands) < MaxCommands
    /\ LET m == Head(toClient)
       IN  cl' = IF m.type = "gamestate" THEN CL_ParseGamestate(cl, m.serverId)
                 ELSE CL_ParseDownload(cl, m)
    /\ toClient' = Tail(toClient)
    /\ UNCHANGED <<sv, mirror>>

\* The file cannot be opened or the block not be written: the file is given up.
WriteFails ==
    LET m == Head(toClient)
        c == [cl EXCEPT !.open = FALSE, !.faulty = FALSE,
                        !.mixed = @ \/ m.data.file # cl.downloadName]
    IN  /\ cl.state = "connected" /\ toClient # <<>> /\ m.type = "block"
        /\ cl.downloadName # None /\ m.block = cl.downloadBlock
        /\ ~cl.open \/ ~IsEmpty(m.data)
        /\ cl.faulty /\ Len(cl.commands) < MaxCommands
        /\ cl' = Com_NextDownload(CL_AddReliableCommand(c, "stopdl", None))
        /\ toClient' = Tail(toClient)
        /\ UNCHANGED <<sv, mirror>>

\* The web server's answer.
Com_WebDownloadComplete ==
    LET c == [cl EXCEPT !.fetching = None]
        d == [Save(c, c.downloadName,
                   IF mirror[cl.fetching] = "good" THEN Whole(cl.fetching) ELSE <<>>)
                  EXCEPT !.bWWWDl = FALSE, !.redirected = @ \cup {c.downloadName}]
    IN  /\ cl.fetching # None
        /\ cl' = IF mirror[cl.fetching] = "missing"
                 THEN CL_AddReliableCommand([c EXCEPT !.aborting = TRUE], "wwwdl_fail", None)
                 ELSE Com_NextDownload(CL_AddReliableCommand(d, "wwwdl_done", None))
        /\ UNCHANGED <<sv, toClient, mirror>>

-----------------------------------------------------------------------------
Next ==
    \/ \E n \in 0..Len(cl.commands) :
          (n > 0 \/ OldGamestate) /\ SV_ExecuteClientMessage(n)
    \/ SV_WriteDownloadToClient \/ SV_SendClientMessages \/ SV_SpawnServer
    \/ CL_ParseServerMessage \/ WriteFails \/ Com_WebDownloadComplete

Spec == Init /\ [][Next]_vars

\* Something sent arrives that the client waits for.
Useful ==
    /\ toClient' # toClient
    /\ LET m == Last(toClient')
       IN  m.type = "block" => m.block = cl.downloadBlock

\* Both sides run their frames, commands are repeated until they arrive, and of the
\* messages that are sent again and again some arrive.  Levels need not change.
FairSpec ==
    /\ Spec
    /\ WF_vars(\E n \in 1..Len(cl.commands) : SV_ExecuteClientMessage(n))
    /\ SF_vars(SV_ExecuteClientMessage(0) /\ OldGamestate /\ Useful)
    /\ WF_vars(SV_WriteDownloadToClient) /\ SF_vars(SV_WriteDownloadToClient /\ Useful)
    /\ WF_vars(CL_ParseServerMessage) /\ WF_vars(Com_WebDownloadComplete)

-----------------------------------------------------------------------------
(* Properties                                                              *)

Blocks == [file : Files \cup {None}, n : Nat]

\* The types of the variables; the window holds what lies between its ends, unless the
\* player has acknowledged what was another file's.
TypeOK ==
    /\ sv.state \in {"connected", "dropped", "timed_out"}
    /\ sv.downloadName \in Files \cup {None} /\ sv.gamestate = FALSE
    /\ sv.blocks \in [0..MAX_DOWNLOAD_WINDOW - 1 -> Blocks]
    /\ {sv.clientBlock, sv.currentBlock, sv.xmitBlock} \subseteq Nat
    /\ ~cl.mixed => /\ sv.clientBlock <= sv.currentBlock
                    /\ sv.currentBlock <= sv.clientBlock + MAX_DOWNLOAD_WINDOW
                    /\ sv.xmitBlock <= sv.currentBlock
                    /\ cl.redirected \subseteq Files /\ cl.bad \subseteq Files
    /\ sv.download => sv.downloadName # None
    /\ cl.state \in {"connected", "loading"}
    /\ cl.downloadName \in Files \cup {None} /\ cl.fetching \in Files \cup {None}
    /\ cl.temp \in Seq(Blocks) /\ cl.downloadList \in Seq(Files)
    /\ cl.known \subseteq Files
    /\ mirror \in [Files -> {"good", "wrong", "missing", "off"}]

\* The content a player has under a file's name is the file's (the web server's wrong
\* one is empty here; FS_ComparePaks finds that out).
FilesAreTrue == \A r \in cl.saved : r.content # <<>> => r.content = Whole(r.name)

\* What a player gets of a file, block by block or from the web server, is that file,
\* whatever is lost, repeated and given up, unless the player took what was another's.
FilesAreTrueUnlessMixed == cl.mixed \/ FilesAreTrue

\* A client that keeps to the protocol is not dropped for a "broken download", at a level
\* change neither (sv_client.c:1109, 1203), unless it took what was another file's.
NoHonestDropUnlessMixed == cl.mixed \/ sv.state # "dropped"

\* A client waits for a gamestate that nobody will send it.
Stranded ==
    /\ sv.state = "connected" /\ cl.state = "connected" /\ cl.serverId = sv.serverId
    /\ sv.downloadName = None
    /\ cl.commands = <<>> /\ toClient = <<>> /\ cl.fetching = None

\* A gamestate that got lost is sent again (sv_client.c:845-848).
NotStranded == ~Stranded

\* However many messages are lost, the client gets all files and loads the level; unless
\* it is timed out, or is stranded, or took what was another file's, or goes back to the
\* web server again and again for a file that is not there.
GetsTheFiles ==
    \/ <>(cl.state = "loading" \/ sv.state # "connected" \/ Stranded \/ cl.mixed)
    \/ []<>cl.aborting

=============================================================================
