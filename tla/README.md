# A verification project for the Sturmgeist engine

TLA+ modules, TLC configurations and TLAPS proofs for the multiplayer core of
Sturmgeist (an ET: Legacy derivative): the protocol between a game server and
its clients, in `src/qcommon`, `src/server` and `src/client` of the repository, and
the part of the game module, `src/game`, where players found and join fireteams.
Paths below are relative to the repository's `src/` directory.

## 1. The system and its parts

The engine is single-threaded. `Com_Frame` (`qcommon/common.c`) runs forever: it
pumps events (among them the packets received), runs the command buffer, runs
`SV_Frame` and `CL_Frame`. A dedicated server sleeps in between and sends queued
packets meanwhile (`SV_SendQueuedPackets`). All the hard concurrency is therefore
*between programs*: a server and its clients that share nothing but datagrams
which may be lost, duplicated, delayed and reordered, and that both go on
working while those are under way. Each protocol layer keeps rings of fixed
size indexed by ever-growing counters, so a counter seen late is a slot
overwritten. That is where the bugs of such a program are, and what the modules
are about.

| component | state it keeps | operations | hard behaviour | what makes it correct |
|---|---|---|---|---|
| network channel: `qcommon/net_chan.c`, `server/sv_net_chan.c` | `netchan_t`: sequences, unsent and received fragments; `client_t.netchan_start_queue` | transmit a message or its next fragment, process a packet, queue behind fragments | loss, duplication, reordering; messages of an exact multiple of a fragment; encoding late | messages arrive whole, in order, at most once, decodable; the queue is bounded and drains |
| reliable commands: `server/sv_main.c`, `server/sv_client.c`, `client/cl_main.c`, `client/cl_parse.c`, `client/cl_cgame.c` | two rings of texts with sequence and acknowledge counters, at both ends; the keys of the messages are taken from the rings | add a command, repeat what is unacknowledged, execute what is new, overflow, drop | acknowledgements overtaken by new commands; rings at their limit; re-entrant drop | every command once, in order, before what was sent after it; nobody dropped wrongly |
| snapshots: `server/sv_snapshot.c`, `client/cl_parse.c`, `client/cl_cgame.c` | ring of 32 frames per client, ring of entities shared by all clients; the same two rings at the client | build, write against a delta base, parse, hand to the client game | the base must be held unchanged at both ends though either goes on writing its rings | a snapshot parsed as valid is the one the server built |
| connection and client slots: `server/sv_client.c`, `server/sv_main.c`, `client/cl_main.c`, `game/g_client.c` | challenges, client slots with their state; the game's list of clients; the program's own state | challenge, connect, reconnect, deny, drop, time out | handshake packets repeated or lost; players who crash and return; a game that denies a slot already given | one slot per player, nobody put out, server and game agree, who may have a slot gets one |
| gamestate, level change, map restart: `server/sv_client.c`, `server/sv_init.c`, `server/sv_ccmds.c`, `client/cl_parse.c`, `client/cl_cgame.c` | the state of each client, `sv.serverId` and `sv.restartedServerId`, the number of the gamestate message, the result of the check of files; the client's own idea of them | spawn a level, restart it, send and repeat the gamestate, check files, enter the world | levels change while a client is anywhere between connected and playing; gamestates are lost; messages of one level arrive in another | no player in the world with another level's gamestate, a lost gamestate is sent again, nobody is dropped wrongly |
| downloads: `server/sv_client.c`, `client/cl_parse.c`, `qcommon/download.c`, `qcommon/files.c` | window of 8 blocks, three block counters; the redirect; the client's list of files, its temporary file | begin, acknowledge, stop, redirect, write the next block, retransmit; go on with the next file, with the level | lost blocks, late acknowledgements, failing disks and web servers, a level change in between, blocks that name no file | the file kept is the file the server has; the level is loaded in the end |
| fireteams: `game/g_fireteams.c`, `game/g_cmds.c`, `game/g_team.c`, `game/g_session.c` | 12 fireteams with their members in order; what each player was asked and until when | create, apply, invite, propose, answer, leave, kick, hand on; change, swap and shuffle teams; save and restore | answers that come after everything has changed; client numbers with new owners; levels that change | one fireteam per player, one team per fireteam, no more members than it may have |
| config strings: `server/sv_init.c`, `client/cl_cgame.c` | one string per index; indices changed while a client loads; big strings in pieces | set, send, update | a change while a client is not yet active | an active client holds the server's strings |
| rate limiting: `server/sv_main.c` | leaky buckets hashed by address | check a request, expire a bucket | bursts at boundary times, clock wrap | never more than burst + elapsed/period |
| server frame and time: `server/sv_main.c` | `svs.time`, `sv.timeResidual` | frame, time wrap | counters at their limit | the server is restarted before a counter wraps |
| message bit streams: `qcommon/msg.c`, `qcommon/huffman.c` | a buffer and a bit position | read and write bits, deltas | overflow flags | read inverts write |
| command buffer and variables: `qcommon/cmd.c`, `qcommon/cvar.c` | text buffer, `wait` counter; latched values | add, insert, execute; set, latch | insertion while executing | order |
| event loop, memory and errors: `qcommon/common.c` | queues of 1024 events, zone lists | push, get, run; allocate, free | queue at its limit | no event lost but the oldest |
| sockets, files, http, virtual machine, sound, renderers, user interface, game rules, bots, database, IRC, demos, tracker, TV client, platform layer | | | | see `PROJECT.json`, each with the reason it is not modelled |

How they interact: `SV_SendClientSnapshot` writes acknowledgement, unacknowledged
commands, the snapshot and a download block into one message and hands it to the
channel (`SV_Netchan_Transmit`); `CL_WritePacket` writes acknowledgements,
unacknowledged commands and the newest usercmds. Both directions of the protocol
so use two instances of the channel, and the layers above are modelled over what
the channel promises (`LossyChannel`), which the channel is proved to provide.

## 2. The modules

### LossyChannel, NetChan, NetChan_proofs

`LossyChannel` is the promise: submitted messages come out whole, in the order
submitted, at most once; any may be lost.

`NetChan` is the implementation, one direction, server to client. The client's
own sender is the same with a queue that is always empty (`CL_WritePacket` and
`CL_Netchan_Transmit` push all fragments out before they return).

- Sender: `outgoingSequence`, `unsentFragments`, `unsentBuffer`,
  `unsentFragmentStart` are the fields of `netchan_t`; `queue` is
  `netchan_start_queue`; `zombie` stands for `client->state == CS_ZOMBIE`.
  `SV_Netchan_Transmit`, `SV_Netchan_TransmitNextFragment`,
  `Netchan_Transmit`, `Netchan_TransmitNextFragment` are the functions.
- Receiver: `incomingSequence`, `fragmentSequence`, `fragmentBuffer` (its length
  is `fragmentLength`), and `Netchan_Process` with one operator per outcome.
- Network: `sent` only grows and receiving removes nothing, so loss, repetition
  and reordering are all there and need no actions.
- History: `log` and `delivered`.
- Contents: a byte is the triple of message, key and offset. A message is
  encoded (`SV_Netchan_Encode`) when it is passed to `Netchan_Transmit`, with the
  sequence of that moment: a message that waits in the queue is encoded late, and
  the receiver decodes it with the sequence it arrives under.

Left out: addresses, out-of-band packets, the qport, statistics of dropped
packets, `Netchan_OutOfBand`. The two other failures of a packet (truncated
headers) do not occur with packets the program sends.

### ReliableStream, ReliableCommands, ReliableCommands_proofs

`ReliableStream` is the promise in one direction: what is executed is a prefix of
what was issued. `ReliableCommands` has one stream each way between the server
and one client, over two FIFO queues from which messages may be lost: the
interface of `LossyChannel`.

- `sv` holds the fields of `client_t`, `cl` those of `clientConnection_t` and the
  client game, under their names. A ring is a function on `0..MAX-1`; a command's
  text is its number, so a slot overwritten or read too late shows as a wrong
  number.
- The message key depends on the last command acknowledged, as both
  `*_Netchan_Encode` have it: the sender puts in the message the text it uses, the
  receiver compares it with the text it looks up in its own ring when the
  message arrives. (The server looks in its ring of server commands, the client
  in its ring of client commands, both of which go on being written.)
- `stamp` is a history field: how many commands had been issued when the rest of
  the message was made.
- `SV_SendServerCommand`, `SV_GameDropClient`, `SV_SendClientSnapshot`,
  `SV_PacketEvent`, `CL_AddReliableCommand`, `CL_WritePacket`, `CL_PacketEvent`,
  `CG_TransitionSnapshot` are the handlers, each whole.

Left out: the texts; flood protection (it never skips a command's number); the
replacement of `%` in ring texts that the decoders make, the same at both ends;
messages of an earlier gamestate; a client freed for its silence, who is sent
nothing more. A message that cannot be decoded is any of: not understood, or
understood as something that ends the connection.

### Snapshot, Snapshot_proofs, SnapshotTruth_proofs, MCSnapshot

The server builds a snapshot for each client in a ring of frames whose entities
live in one ring shared by all clients, and sends the difference from a frame
the client has acknowledged. The client keeps the same two rings and rebuilds the
snapshot from its own copy of the base.

- `sv` holds `client_t` (state, `outgoingSequence`, `deltaMessage`,
  `parseEntitiesNum`, the ring `frames`, the message whose fragments are still
  being sent); `ring` and `nextSnapshotEntities` are `svs.snapshotEntities` and
  its index. `SV_SendOtherSnapshot` is another client's snapshot, of which only
  what it writes to the shared ring matters here.
- `cl` holds `clientActive_t`; `parseEntities` is its ring of entities.
  `ParsePacketEntities` reads one entity after the other, and writes to the ring
  it reads from, so that a slot overwritten during the reading is read overwritten.
- An entity is a number with a value. A difference carries the value it starts
  from; applied to another one it gives `Garbled`. A frame's entities and a difference are sets,
  read in the order of the numbers;
  `End` is the number larger than every entity's that ends a list. The player state is
  one value too. `truth` is a history field: what the server built for a message. `crowded`
  is another: this snapshot, or one it was rebuilt from, had so many entities that together with
  its base it went over the client's ring (`GoesOver`).
- `GetSnapshot` hands over the first `MAX_ENTITIES_IN_SNAPSHOT` entities (512 in the code, where a
  frame of the server may have 2048); `Handed` says, of the truth, which these are.
- `Scenes[n]` is what can be seen when message `n` is built; the MC module gives
  it. `FRAGMENT_SIZE` decides whether a snapshot leaves in fragments, in which case
  `outgoingSequence` moves on with the last of them only.

Left out: which entities can be seen, areas and flags, the fields of an entity, the
player state, protocol extensions, message overflow.

### Gamestate, Gamestate_proofs

How one client gets into the world of the level that runs, and stays there while
the server changes (`SV_SpawnServer`) and restarts (`SV_MapRestart_f`) levels.

- `sv` holds the fields of `server_t` and `client_t` under their names.
  `restartedServerId` stands also for `checksumFeed` and `checksumFeedServerId`,
  which change with it. `cvars` is what the system variables say,
  `systeminfo` what the config string `CS_SYSTEMINFO` says; the frame copies the
  one to the other.
- `outgoingSequence` counts gamestates, not messages: the code compares an
  acknowledgement with the number of the last gamestate and with nothing else, so
  all messages between two gamestates have one number. The gamestate numbered
  `2k` is the `k`th.
- `cl` is the client: `connected`, `loading`, `primed`, `active`; `systeminfo` gives
  the id it writes in its messages (`cl.serverId`); `checksumFeed` is that of the
  gamestate it holds. Its commands are the `cp` commands, with the level they
  were made for.
- `commands` are the `cs` commands for the system string, as `ReliableStream`
  promises them: a message brings all that were issued before it.
- `history.thought` is the level for which the last executed move was made, and the
  level it was executed in. `history.early` is set when a `map_restart` puts a
  client into the world without the level's gamestate, `history.stale` when
  a gamestate reaches a client that has yet to execute commands of an earlier
  level: the two situations in which the program goes wrong (section 5). They are
  flags so that everything else can still be checked beside them.

Left out: downloads, `vid_restart`, a game that denies a client the new
level, the texts `map_restart` and `spawnserver`, the repetitions of a message that
says the same, what a zombie is sent (`ReliableCommands` has that), the other config
strings.

### Slots, Slots_proofs

How players get one of the server's slots and give it back.

- `clients` is `svs.clients` (state, address, and whether `lastConnectTime` is recent),
  `level` the game's `level.clients` (`pers.connected`, `cl_guid`), `cls` the state of
  each player's program. `connecting` and `reply` are the requests and answers under
  way; all of them, and the farewells, may be lost.
- `SV_DirectConnect` is one step: the reconnect limit, the choice of a slot (the
  player's own, a free one, a bot's), the wiping of the slot, the game's answer.
  The first slot of the best kind is taken; `SlotsFor` has the kinds in the code's order.
- `g_guidCheck` is both on and off: with it the game denies a guid it already knows.
- What a connected player and its slot say to each other is `NetChan` and
  `ReliableCommands`; here a timeout may come where nothing is heard
  (`ClientTimeout`), and a program may crash (`CL_Disconnect` without a farewell).

Left out: the ring of challenges (2048 of them), bans, limits of ping and of clients per
address, several players behind one address, TV clients, the game's other reasons to
deny (passwords, bans, names).

### Download, Download_proofs, MCDownload

How a player gets the files a level needs, and the level afterwards.

- `sv` holds the download fields of `client_t` under their names, `blocks` is the
  window (`downloadBlocks`), `gamestate` says that a gamestate is to be sent now.
- `cl` holds `dld` (`download.c`), the part of `clc` that counts blocks, the commands
  not executed yet, and the disk: `temp` is the temporary file, `saved` what was
  renamed to a file's name, `known` what the file system had when it was last
  restarted, `bad` the files listed as bad.
- `SV_ExecuteClientMessage(n)` executes the next `n` commands, then sends a gamestate
  if the client is at an earlier level; `SV_WriteDownloadToClient` sends one block
  or the redirect, at most one a message; `CL_ParseServerMessage` takes the first message
  under way, whole: a block is written, acknowledged, and the last one followed by the
  next file, `FS_Restart` and `donedl`, or the loading of the level.
- Blocks carry the name of their file for the properties only; the code's carry a
  number, and a number only is what `ParseBlock` compares. `Short` is the number as
  16 signed bits.
- `cl.mixed` is a history flag: the player took another file's block or redirect for
  the one it waits for, to write it, to refuse it or to fail on it (section 5). The properties
  are about everything else.

Left out: files the server may not give, the rate, several blocks a message, redirects
to a page for the browser, downloads that go on while disconnected, the HTTP transfer
(`mirror` has its outcome), containers, updates.

### Fireteams, Fireteams_proofs, MCFireteams

A part of the game module: it runs in the server's thread, so a step is a client's
command or an event, and what is hard is what lies between an offer and its answer.

- `fireTeams` is `level.fireTeams`: `joinOrder` is the sequence of members, the leader
  first; a fireteam is in use when it has members. `team` is `sess.sessionTeam`, `conn`
  `pers.connected`.
- `offers` is what clients were asked and can still answer: `pers.applicationClient`,
  `invitationClient`, `propositionClient` and the three offers of `g_autoFireteams`, each
  with its end time. A client has one of each kind at most; `Ask` replaces. `same` is a
  history flag: the client it names is still the one it was made about.
- Each command of `Cmd_FireTeam_MP_f` is an action; `Cmd_Vote_f` answers the first kind
  of offer that is open (`FirstAsked`), as the code goes through them.
- `SetTeam`, `G_swapTeams`, `G_shuffleTeams` (by any measure: the order is any),
  `ClientConnect`, `ClientBegin`, `ClientDisconnect`; `G_InitGame` saves and restores the
  fireteams at a level change, with the teams swapped or not; `KillServer` restores them
  with nobody there.
- `odd` is a history flag: a fireteam was kept whose members are not all there
  (section 5, "Seen in the models"). `Next` stops there unless `GoOn`.

Left out: warnings, ignored players, the config strings (every operation writes the one of
its fireteam at its end), what hinders a change of team, last man standing, where `SetTeam` returns
before a fireteam is looked for (`g_cmds.c:1692`), an application to a fireteam beyond the last
(`G_ApplyToFireTeam` has no upper bound for the number, `g_fireteams.c:840`; here the
fireteam exists), a client that is still loading
when the next level comes (`G_InitGame` waits for it here; the code does not, and does
not save its team).

### How they compose

`NetChan` implements `LossyChannel` (checked and proved). `ReliableCommands` and
`Snapshot` exchange messages over FIFO queues from which messages may be lost, which
is what `LossyChannel` promises; `ReliableCommands` implements `ReliableStream`
in both directions while no ring overflows (checked). `Gamestate` and `Download` use both
promises: commands arrive in order, all of them, after any delay; messages in order, not all
of them. `Slots` ends where `Gamestate` begins, with a client that is connected; what it
finds of the game's list of clients is what `Fireteams` starts from: a client connects,
begins, disconnects, and may be forgotten in between.
Each module so has the detail of one layer and the promise of the layer below.

## 3. The runs

| run | module, cfg | what it shows |
|---|---|---|
| `netchan` | NetChan, `NetChan.cfg` | messages are delivered whole, decodable, in order, at most once (`WholeMessages`, `ImplementsLossyChannel`); each sequence used up can be completed from what was sent (`SentInFull`); the queue holds `MAX_NETCHAN_QUEUE` + 1 at most and drains (`QueueBounded`, `Drains`) |
| `reliable` | ReliableCommands, `ReliableCommands.cfg` | commands are executed once, in order, before what was sent after them; every message can be decoded; nobody is dropped without cause, and who is dropped for a full ring can still learn why; while the connection lasts every command is executed at the other end |
| `reliable_full` | ReliableCommands, `ReliableFull.cfg` | a disagreement (section 5) |
| `snapshot` | MCSnapshot, `Snapshot.cfg` | a snapshot given to the client game is the one the server built, cut to the entities there is room for (`SnapshotsAreTrueUnlessCrowded`), and the client still has the frame a difference starts from (`BaseIsHeld`) |
| `gamestate` | Gamestate, `Gamestate.cfg` | only who holds the level's gamestate plays it; no client with good files is dropped for them; a gamestate is sent again only if it is needed; the system string agrees; the client ends up playing |
| `gamestate_restart` | Gamestate | a defect (section 5) |
| `slots` | Slots, `Slots.cfg` | a player never has two slots (`OneSlotEach`); server and game agree (`GameKnowsWhoPlays`); no request disturbs who plays (`NotPutOut`); who may have a slot gets one (`GetsIn`) |
| `slots_reconnect` | Slots | a defect (section 5) |
| `download` | MCDownload, `Download.cfg` | the content kept is the file's (`FilesAreTrueUnlessMixed`); nobody is dropped for following the protocol (`NoHonestDropUnlessMixed`); the level is loaded in the end (`GetsTheFiles`) |
| `download_gamestate` | MCDownload | a defect (section 5) |
| `fireteams` | MCFireteams, `Fireteams.cfg` | nobody is on two fireteams or on one twice (`OneFireteam`); a fireteam is of one team and has a name of its own there (`OneTeamUnlessOdd`); it has no more members than it may (`TypeOK`); no bot inherits one (`HumansLead`) |
| `fireteams_reuse` | MCFireteams | a defect (section 5) |

### Bounds and why they are enough

- `NetChan.cfg`: fragments of 2, messages of 1, 2 and 3, so less than, exactly and
  more than a fragment, and four messages: one being sent in fragments, two
  queued (cap + 1), and one more that finds the queue full.
- `ReliableCommands.cfg`: rings of 4, windows of 2 outstanding server and 1 outstanding
  client command, up to 5 commands each way, so the rings wrap and each slot is
  used again; one message under way in each direction. Checked beside it: the properties
  that are not about liveness with two messages under way in each direction, and those that
  are with 3 commands and 2 outstanding client commands. The theorems have any number of both.
  The run never fills a ring (a drop brings the server's exactly to its limit):
  beyond the limit other properties fail, as section 5 has it. There
  `CommandBeforeSnapshot` was checked alone, with rings of 2, windows of 9 and 4
  commands each way, and holds whatever texts are lost. `ReliableFull.cfg` fills the ring: a server
  window of 4 over a ring of 4, so that both branches of the overflow are taken, the one where the
  ring runs over and `SV_DropClient` follows, and the one inside `SV_DropClient`.
- `Snapshot.cfg`: a ring of 6 frames and 8 messages, so it wraps; rings of 5 (server,
  shared with another client whose snapshot fills it) and 8 entities, so these wrap
  several times; a margin of 5, as large as the largest snapshot, as the code intends. No snapshot
  is crowded then (that `crowded` is nowhere true was checked beside the run), so the property
  speaks of all of them. One scene has three entities and the client game takes two, so there
  is a snapshot that is cut, and one of three entities that is the base of later ones.
- `Gamestate.cfg`: two changes or restarts of the level in any order and one other
  change of a system variable, one message begun while another is under way, and any
  gamestate but the third may be lost. The properties that are not about liveness
  were also checked with 4 level ids, 2 messages under way, or 3 changes, each of
  them alone.
- `Slots.cfg`: two players and a bot for two slots, the first private: each kind of slot,
  a full server, a bot that makes room, a player who must not have the private slot. No
  counter is bounded.
- `Download.cfg`: a window of 2, a file of one block and one of two, so the window is full,
  is read over, and is sent again; two levels, two messages and four commands under way.
  `Shorts` is 65536 as in the code, so block numbers do not wrap there.
  `DownloadGamestate.cfg` has the same with one level.
- `Fireteams.cfg`: four fireteams (two a team) of which up to two exist at a time, room for three
  members, three players and a bot, one offer at a time: there are applicants for the last
  place, two fireteams of a team with names to tell apart, leaders who leave a bot next in line with
  a player behind it, who then leads. A fireteam that becomes private is not followed further
  (`Few` in MCFireteams): only who is put on one without being asked depends on it. Checked
  beside it, each alone: private fireteams, with room for two; `g_autoFireteams` 2 too, and two
  offers open at a time, where `FirstAsked` matters, both on two fireteams. In the run there is one
  offer at a time, so that an answer meant for one offer is never taken for another. Client numbers of humans are
  interchangeable (symmetry); properties of steps and states only are checked there.

Deadlock is not an error in these runs: when the bounds are used up, or the client is
dropped, the modelled part of the program really has nothing to do.

## 4. Fairness

- `NetChan`: weak fairness of `SV_Netchan_TransmitNextFragment`. The dedicated
  server calls `SV_SendQueuedPackets` between frames again and again
  (`common.c`, `sv_main.c`), for whoever has fragments or messages waiting.
- `ReliableCommands`: weak fairness of `SV_SendClientSnapshot` and `CL_WritePacket`
  (both programs run their frames and send from them), strong fairness of receiving: of
  the messages sent for ever, some get through; and of `CG_TransitionSnapshot`, which
  the client game does in its frames.
- `Gamestate`: weak fairness of the frames, of loading and of executing commands,
  which each program does in its own loop; strong fairness of receiving for each kind of
  message that is sent for ever (idle messages, snapshots, client messages).
  Gamestates are sent again only when a loss has been noticed, so no assumption
  about infinitely many would say anything of one: instead no more than `MaxGamestates`
  of them are lost.
- `Slots`: see `FairSpec`. Programs go on asking (`CL_CheckForResend`), servers answer and time
  out, players that connect enter the world; requests and answers of which infinitely many
  are sent get through again and again. That players leave, come back, or make room is not
  assumed: `GetsIn` says what else may happen for ever.
- `Download`: weak fairness of the frames of both sides, of the commands' arrival
  (`ReliableCommands` promises it) and of the web server's answer; strong fairness of useful
  messages: of blocks sent again and again some arrive. A gamestate sent once may be lost.
- `Fireteams` has no fairness: players need do nothing.

No fairness is assumed of the console's commands, of the game, or of the players.

## 5. Disagreements found

### With a run each

Each is a run that ends in a counterexample, against what a comment says.

1. **map_restart and clients without the gamestate** (`sv_ccmds.c:403`,
   `gamestate_restart`). All clients become active, those too who have not been sent
   the level's gamestate, or to whom it was lost; it is resent only to clients who are
   not active. Such a client plays the level with another level's gamestate, or, on its
   first level, waits for ever.
2. **Denied by one's own ghost** (`sv_client.c:641`, `slots_reconnect`). A connect request
   is sent again because the answer was lost; the player's slot is found and wiped, then the
   game is asked, which finds the guid in that very slot and denies. The slot is
   free for the server, taken for the game, which is not told: the guid stays locked out.
3. **The gamestate after a download** (`sv_client.c:1081`, `download_gamestate`). If the one
   that answers `donedl` (or `wwwdl fail`) is lost, the client is at the server's level
   already by number, so nothing tells the server that it is missing, and the client,
   without moves to send, has nothing to say that would. Both wait.
4. **An application outlives its applicant** (`g_client.c:3592`, `fireteams_reuse`). Offers
   name client numbers and are not withdrawn when a client leaves; the next owner of the
   number is put on the fireteam when the leader says yes.
5. **Dropped while being dropped** (`sv_main.c:110`, `reliable_full`). When a client is dropped for
   whatever cause with exactly 256 commands unacknowledged, the message to all players that
   `SV_DropClient` sends is itself the overflow, and calls `SV_DropClient` for the same client, who
   is not yet a zombie: the game is told of the disconnect twice (`DisconnectedOnce`). The comment at
   `sv_main.c:108` says that the test with `==` is there so that this message "doesn't cause a
   recursive drop client". It does so for a drop that an overflow began, and for no other:
   `GameIsToldOnce` (section 6) says so for windows of any size.

### Seen in the models

Each was a counterexample of one of these modules, with the bounds given, and is kept
here without a run of its own.

- **257 commands** (`cl_main.c:143`; ReliableCommands, a client window of 5 over a ring of 4).
  `CL_AddReliableCommand` refuses only with *more* than 256 commands outstanding, so
  the 257th overwrites one the server has not got. Later acknowledgements then look too
  old (`cl_parse.c:1129`) and are taken for an acknowledgement of all: the lost command is
  never repeated, and moves made after it are executed (`CommandBeforeUsercmd`), though
  `cl_main.c:132` says that it "is guaranteed to not have future usercmd_t executed before
  it is executed".
- A zombie's `disconnect` command is not stored when the ring is exactly full
  (`sv_main.c:110`), a slot whose text keys a message may be overwritten at exactly 256
  outstanding commands (`sv_net_chan.c:135`), and the queue of a client holds one message
  more than its cap says (`sv_net_chan.c:286`).
- **Entities not counted while fragments are sent** (`sv_client.c:2321`; Snapshot with a
  growing ring). A snapshot whose last fragment is not sent yet is in the ring but not before
  `outgoingSequence`; the count that decides when to send a full snapshot leaves it out, and
  the client refuses the difference as "Delta parseEntitiesNum too old".
- **Snapshots are cut** (`cl_cgame.c:196`; Snapshot, `Handed`). A frame of the server may have 2048
  entities (`MAX_SNAPSHOT_ENTITIES`), what the client game is given 512: those with the highest
  numbers are left out, for which the only sign is a line on the console, though `cg_public.h:71` says
  that `numEntities` is "all of the entities that need to be presented".
- **A margin of 128 entities** (`sv_snapshot.c:344`; Snapshot with a client's ring of 5 entities, a
  margin of 1 and up to three entities in view: `crowded` becomes true within five messages). Whether
  a snapshot is sent whole is decided by the entities sent since the base, before those of the new
  frame are added (`:436`): "if we are about to go over MAX_PARSE_ENTITIES send uncompressed
  snapshot", says the comment, but a frame may have many more than 128 (`MAX_SNAPSHOT_ENTITIES` is
  2048). The client's own test (`cl_parse.c:503`) has the same 128. It writes over entities of the base before
  it has read them, and takes the result for valid.
- **Commands of the level before** (`cl_cgame.c:1286`; Gamestate, `NoHonestDrop`). The client
  executes them over the new gamestate, and the system string among them takes its
  server id back; its check of files comes with that id, is counted as executed and is
  not, and the client is dropped at its next move. The comment at `sv_client.c:1782`,
  "since serverId is a frame count, it always goes up", is not true of the id a client gives.
- **Block numbers** (`cl_parse.c:877`; Download with `Shorts = 4`, `GetsTheFiles`). The server
  counts with an `int` and sends 16 bits, the client reads them with a sign and compares
  them with its own `int`: files of 32768 blocks (32 MB) and more never arrive.
- **Blocks without a name** (`cl_parse.c:970`; Download, `cl.mixed`). The last blocks of a file,
  sent again after a second without an acknowledgement, arrive after the client has asked for
  the next file: its first block, or its redirect, is taken from them. The player acknowledges
  such a block, and when it does so before the server has read the file, the server counts a
  block it has never sent: `clientBlock` passes `currentBlock` (found when `TypeOK` was to be proved;
  it says so of the other states only).
- **A web server without the file** (`download.c:198`; Download, the second part of
  `GetsTheFiles`). After `wwwdl fail` the fallback holds for one file; a later file that is
  missing there starts the list again, files got meanwhile are compared with what the file
  system knew before, taken for bad and got again: without end.
- **The answer to "join a fireteam?"** (`g_cmds.c:3805`; Fireteams, `AnswerJoin`) closes the
  offer to create one. The offer to join stays open, and the player's next vote, meant for
  something else, is taken for another answer to it.
- **Who inherits a fireteam** (`g_fireteams.c:568`; Fireteams, `HeirFirst`). "try to pick a bot as
  fireteam leader", says the comment, and the code under it does the opposite: if a bot is next in
  line it changes places with the first player behind it. `HumansLead` has what the code does, and the condition
  around it, which keeps a fireteam of bots from being inherited at all, is for the same end.
- **Fireteams kept without their members** (`g_session.c:703`; Fireteams, `odd`). `killserver`
  restores fireteams whose members are nobody, who block their client numbers' next
  owners from a fireteam of their own; a client that crashes while it loads and connects
  again is a spectator and still on its fireteam (`g_client.c:2410` takes leave only of who
  had entered).
- Read, not modelled: `cl_main.c:1609` says that a dropped client is sent disconnect packets,
  and `SV_PacketEvent` sends none; each block that arrives for no download is answered by a
  `stopdl`, so a window sent again fills the ring of client commands (`cl_parse.c:866`);
  `firstPing` is cleared in the challenge that has the number of the client's slot
  (`sv_client.c:648`); a gamestate that comes during a download leaves the temporary file
  open.

## 6. What is proved

`NetChan_proofs` proves, for every fragment size, longest message, queue cap and
number of messages:

- `TypeCorrect`: `Spec => []TypeOK`.
- `MessagesAreWhole`: `Spec => []WholeMessages`.
- `NothingStaysBehind`: `Spec => []SentInFull`.
- `QueueIsBounded`: `Spec => []QueueBounded`.
- `ChannelRefinement`: `Spec => ImplementsLossyChannel`, that is, every step of the
  channel is a step of `LossyChannel` or a stutter.

The assumptions are those of `NetChan` on its constants (`FRAGMENT_SIZE` is
positive, lengths are positive and at most `MAX_MSGLEN`).

The argument. What is delivered says nothing of what is still under way, so
`WholeMessages` is not inductive. The inductive invariant `Inv` adds: every packet
under way carries a piece of one submitted message, encoded with the packet's own
sequence (`PacketInv`); one sequence belongs to one message, and sequences grow with the
order of submission (`OrderInv`), which needs that the queue and the message being sent
are in that order (`QueueInv`, `BufferInv`); the bytes collected are the first bytes of
the message of `fragmentSequence` (`CollectedInv`); what was delivered was the message
of its sequence (`DeliveredInv`). `InitInv` and `InvInductive`
prove that it holds and stays, one step per action; the refinement follows, since an
accepted sequence is greater than all delivered before, and so its message later than
theirs. `SentInFull` has an invariant of its own, `SentInv`: every packet begins its message or
goes on where a full fragment ended, the message being sent has come as far as its next
fragment, and every finished sequence has its last packet, which is where a message of an
exact multiple of `FRAGMENT_SIZE` needs the empty one.

`Slots_proofs` proves, for every number of players, slots, private slots and bots:

- `TypeCorrect`: `Spec => []TypeOK`.
- `OneSlot`: `Spec => []OneSlotEach`.
- `GameAgrees`: `Spec => []GameKnowsWhoPlays`.
- `RequestsDisturbNobody`: `Spec => NotPutOut`.

The assumptions are those of `Slots` on its constants: there is a slot, the private slots
and those of the bots are among them, and bots and nobody are not players.

The argument. The server forgets nobody: a slot that was given back keeps the address of who
had it. The reconnect limit looks at the first slot with the player's address, in use or
not, and so protects the slot in use only if that is the first. `FirstInv` says it is: a
player takes its own slot again while it has one, and otherwise the first that is free, and all
that it had before are free then. This needs that it may have them (`OpenInv`; the private slots
are skipped for who does not know the password). `RecentInv` says that the limit has not
passed while a request or its answer is under way; the guard of `ReconnectLimitPasses` is
where that comes from, and it is the one assumption about time. `Inv` is the conjunction of
these three with `TypeOK` and `GameKnowsWhoPlays`; `SlotGiven` and `AfterGiving` say
what `SV_DirectConnect` does to a slot, `SlotsKept` that every other step leaves the order of the slots alone,
and `InvInductive` has one lemma for each kind of step. TLC found `Inv` to hold with three
players and three slots before it was proved.

`ReliableCommands_proofs` proves, for rings of every size and any number of commands and
messages under way, all but the last under the hypothesis `WindowsFit`: the server lets at most
`MAX_RELIABLE_COMMANDS - 2` commands go unacknowledged before the drop, the client at most
`MAX_RELIABLE_COMMANDS - 1`:

- `TypeCorrect`, `SnapshotsWait`, `UsercmdsWait`, `ServerCanRead`, `ClientCanRead`,
  `NobodyIsDropped`, `DisconnectIsSent`: `Spec => []P` for `TypeOK`,
  `CommandBeforeSnapshot`, `CommandBeforeUsercmd`, `ServerDecodes`, `ClientDecodes`, `NoHonestDrop` and
  `DisconnectPending`.
- `ServerStream`, `ClientStream`: each direction implements `ReliableStream`.
- `GameIsToldOnce`: `Spec => []ToldOnceUnlessFull`, without `WindowsFit` and so with rings that are filled
  and overflow: a drop for an overflow tells the game once, any other drop too unless
  the ring was exactly full when it began, and then twice (stated in the module of the proofs).

`WindowsFit` is a hypothesis of the other theorems and not something the code enforces. The code goes
on to the last slot and one past it, and what happens there is in section 5: with 256
outstanding commands the game is told twice, the disconnect is not stored, a key is
overwritten. The theorems say that this is the whole of it: short of the ring's
last slots nothing goes wrong, however many messages are lost. Two slots are left to the server
because `SV_DropClient` adds two commands, the broadcast and the disconnect; one to the client
because the slot of the last command acknowledged is still read, as a key.

The argument. Whether a text is still in its slot when a message arrives depends on
how far the ring has moved on since, which the ring's owner limits by acknowledgements, and
these are under way themselves. `MessageInv` says, in both directions, that every
acknowledgement under way is at least what its receiver has been told and at most what its
sender knows; that they come in order; that a key is the text of the command acknowledged; and
that the commands a message repeats begin at or before what its sender had been told, hence at or
before where its receiver stands (`ClientInv` chains the counters: told, executed,
issued). So no command is ever missing from a message (`ServerUnderstands`,
`ClientUnderstands`), and what is acknowledged lies fewer than a ring behind. `Holds` says
which commands a ring holds; `RingPut` and `RingTold` that writing one command, or all that a
message brings, keeps that, for which `SlotsApart` gives that numbers less than a ring apart have
slots apart. `Ending` is the number of the disconnect, the one command whose text is not its number.
`ExecutedInv` ties the histories to the counters, from which the refinements follow: every step
issues, executes the next commands, or does neither (`ToClientStep`, `ToServerStep`). There is one
lemma for each action. TLC found `Inv` to hold on `ReliableCommands.cfg` before it was proved.
With rings that are filled `Inv` is lost. `ToldInv`, for `GameIsToldOnce`, is a smaller one:
who plays has at most a ring outstanding, and how many commands a dropped client got more
says in which order drop and overflow came (`Told`): two for a drop, three when the
overflow began it, four when it began with the ring exactly full. Acknowledgements do not disturb this,
since a zombie's are not read. TLC found it to hold with windows of 4 and 5 over a ring of 4.

`Snapshot_proofs` proves, for rings of every size at both ends, any number of entities and of
messages, every fragment size, and whatever is lost:

- `BaseHeld`: `Spec => []BaseIsHeld`.
- `NumbersAreTrue`: `Spec => []SnapshotsAreNumbered`: what the client game is given as snapshot `n`
  is snapshot `n`, never one of a ring earlier that was left in the slot (stated in the module of the
  proofs: the part of `SnapshotsAreTrueUnlessCrowded` that does not depend on what the snapshot holds).

The argument. The server takes a base from what the client said it has; by the time the
difference arrives, the client has gone on. `BaseInv` says of every base, the one the server has been
told, those under way to it and those in differences under way to the client, that the client
`Holds` it: has it, or has had it until its ring came round. Messages come in the
order of their numbers (`OrderInv`), and a base is less than a ring behind the message it serves.
`ParseSnapshot` writes the slot of the new snapshot and clears those of the numbers it missed (`Missed`):
all of these lie between the last snapshot and the new one, less than a ring from any base still
in use, so their slots are others (`SlotsApart`). `RingInv` says that a slot holds
a number that belongs there or nothing. A difference that is refused because its entities are too
old is not excluded by this, nor by the code; the client then asks for a full snapshot.
TLC found `Inv` to hold on `Snapshot.cfg` before it was proved.

`SnapshotTruth_proofs` proves on top of it, as generally:

- `TypeCorrect`: `Spec => []TypeOK`.
- `SnapshotsTrue`: `Spec => []SnapshotsAreTrueUnlessCrowded`, for every `MAX_ENTITIES_IN_SNAPSHOT`: the
  client game gets the first of the entities the server saw, as many as it has room for.
- `Reading`: what `ParsePacketEntities` makes of the difference between two scenes, read against a base
  that lists the first, is a list of the second, as long as base and result together fit the ring.

The assumptions are those of `Snapshot`: the margin is at least 1 and no more than the ring, numbers are below that which ends a list
(`MAX_GENTITIES` in the code), what the client game has room for is a natural number,
and one scene fits the server's ring (`sv_init.c:371` gives
it 2048 slots a client on a dedicated server, as many as a scene may have, so there the code justifies it; `:376` has
256 a client otherwise, enough while not more is in view); bounds and the sizes of others' frames are natural numbers. Nothing is
assumed of how the margin compares with the scenes: what goes wrong when it is too small is what
`crowded` marks, and nothing else goes wrong.

The argument has three parts. *The server's ring*: `Ranks` says that the entities of a scene have the places 0,
1, 2, ... without a gap, so that `CopiedOut` writes all of them and leaves what is less than a ring behind the
new end; with `RolledOff` this keeps the base readable while the difference is made. *Reading*: one pass writes a ring and reads the base
from that ring. `Reached` says that whatever is read, in whatever state, no slot less than a ring behind the
index has been touched, so that also a refused difference harms no snapshot still in use. `Lists` says that a
stretch of the ring lists a set of entities by number; `Merging` that at number `d` the base from `d` on
is still unread, the changes from `d` on too, and the result up to `d` is written; each of the cases of
`ParseEntity` (an old entity kept, a new one, one changed or gone) leads from one number to the next.
The number of rounds is enough because each uses up an entity of the base, a change, or one of each (`Stage`). *The
invariant*: `TruthInv` says that each message under way is the difference between its
truth and that of the client's base (`Sound`), that a frame the server may still use is the truth of the snapshot the client
has under its number (`Remembered`), and that each snapshot of the client that has not rolled out and is
not crowded is its truth (`IsTrue`). `AllInv` adds `TypeInv` and `Inv` of `Snapshot_proofs`. Steps of the server only need that frames
in use keep their slots (`FramesKept`, `ServerStep`); the one hard step of the client is
`ClientStep`: the base it holds is true and long enough behind to be read, so the new snapshot is
true, and no older one is touched while it can be asked for (`SavedSlots`, `StaysTrue`). A list in the order of the numbers has each entity at the place its rank says (`ListsRank`), so that cutting the list
is taking those of the lowest rank (`ListsHanded`). Inductions along the walk are
made over the set of the numbers for which a fact holds (`Upwards`), by a least counterexample. TLC found
`TypeInv` and `TruthInv` to hold on `Snapshot.cfg` before they were proved.

`Fireteams_proofs` proves, for any finite number of clients, bots among them, any number of fireteams and of
members, and every value of `g_autoFireteams`:

- `TypeCorrect`: `Spec => []TypeOK`. That a fireteam has no more members than it may, and that there is
  a name left when one may be founded, is part of it.
- `NobodyTwice`: `Spec => []OneFireteam`.
- `OneTeam`: `Spec => []OneTeamUnlessOdd`.
- `BotsDoNotInherit`: `Spec => HumansLead`.

The assumptions are those of `Fireteams` on its constants; the number of fireteams is even, as
the code halves it between the teams.

The argument. `Good` says that a list of fireteams has nobody twice, `Agrees` that its fireteams are each of
one team and named apart. What is hard is that the code changes the list and
the teams in several steps: who changes teams first leaves and then joins, a shuffle takes players off
one after the other while the others' teams have changed already. The lemmas about the operators
therefore speak of lists, not of states: `Removed` says what leaving does (`LeftBy`: the
list loses the client and nothing else, a fireteam is gone only if the client led it, its new
leader is a human), `Registered` and `Added` what founding and joining do (`JoinedBy`), `HandedOn`,
`Disbanded` and `MadePrivate` the rest. `Registered` rests on `FreeIdent`, which counts names. A
client that leaves and comes back in one step may be its own heir (`LeftAndJoinedFollows`). For the
shuffle, `LeavingsExist` shows that the recursive function by which `Shuffled` is defined exists, and `ShuffledOff`
by a least counterexample that in the end nobody is on a fireteam who has moved, so that
the rest are of one team still (`AgreesElsewhere`). TLC found `Inv` to hold on `Fireteams.cfg`
before it was proved.

`Gamestate_proofs` proves, for any number of levels, restarts, changes of the system variables and
messages under way:

- `TypeCorrect`: `Spec => []TypeOK`.
- `WhoPlaysHasTheLevel`: `Spec => []PlaysThisLevelUnlessEarly`.
- `HonestStay`: `Spec => []NoHonestDropUnlessStale`.
- `StringArrives`: `Spec => []HoldsTheString`.
- `GamestateIsNeeded`: `Spec => NoNeedlessGamestate`.
- `InductiveInvariant`: `Spec => []Inv`.

The assumption is that of `Gamestate`: there may be a level.

The argument. The server recognises who plays its level by the id the client writes, which the
client has from the last system string it was given. Four places can have an id of the running level:
the client's string, the commands it has yet to execute, its `cp` commands, the messages under way in
both directions. `LevelInv`, `SnapshotInv` and `WrittenInv` say of each that it
means that the client has the level's gamestate (`HasLevel`), unless a `map_restart` put it into the
world without (`Fine`). `FreshInv` says that no command of an earlier level is left to execute once the gamestate
is there, unless that came too early (`history.stale`). `CheckInv` follows the checksums: what the
server has executed for its feed was made for it, and so pure. `GamestateInv`, `Carried` and
`InOrder` speak of what is under way to the client: gamestates come in the order of their numbers, and a
message brings the commands issued before it. That a gamestate is sent again only to who did not get
it rests on the last conjunct of `WrittenInv`: an acknowledgement beyond the number of the gamestate, with
the id of another level, comes from a client who missed it. The invariant that was tried first was
not inductive: a client that is only connected must also have been told no command of the level, which the
last conjunct of `ServerInv` now says. The commands of a message are executed by a recursive function;
`RunsExist` shows that it exists, and `CommandsRan`, by a least counterexample, what has changed when all
are executed. `PutPlain`, `PutGamestate`, `ReceivedMessage`, `LevelBegun`, `Continued` and `Quiet` say
once what several actions do; there is one lemma for each action. TLC found `Inv` to hold on `Gamestate.cfg`
before it was proved.

`Download_proofs` proves, for any files of any number of blocks, any window, and any number of levels, messages
and commands under way:

- `TypeCorrect`: `Spec => []TypeOK`.
- `FilesTrue`: `Spec => []FilesAreTrueUnlessMixed`.
- `NobodyDropped`: `Spec => []NoHonestDropUnlessMixed`.
- `CollectedInOrder`, `NothingLeftOpen`: the temporary file is the beginning of the file waited for; who waits
  for no file has none open and asks no web server (stated in the module of the proofs).
- `InductiveInvariant`: `Spec => []Inv`.

The assumptions are those of `Download`: the files are distinct and have a block at least (an empty one is no pak), block numbers are an even number and the window is at most half of them. The code's
are 8 and 65536. Files may have more blocks than a signed word numbers: they do not arrive (section 5), but what
does is right.

The argument. The server sends again what it has sent, the client's commands come late, and neither names
the file: what a message means depends on where both sides are. `ClientInv` says where a client can be that
waits for a file: it has asked for it (`Asked`), is `Served`, is `Fetching` it from the web server, has given
that up (`Failed`), or its request was `Skipped` at a level change. `CommandInv` says of each command under way what it
takes to execute it, not now but after those before it: the acknowledgements are those of the next
blocks in their order, each of one the server has read (`NextdlInv`); a request or `donedl` comes after a command that closes the
last file (`AfterClose`). So the server drops nobody, whatever prefix of the commands it executes. `WindowInv`
and `PlaceInv` say what the ring holds: a place that was written and has not been read over holds its
block. A block that is sent again after a later one was read into its place has a number that the client
has passed (`Numbered`), and is ignored. A block or redirect under way is not of a file that is still to be asked for
(`Unasked`), and one of the file that is waited for has what its number says (`BlockInv`), because the
server has not left that file (`Served`). Nothing is sent to a client after a gamestate until it has seen it (`GamestateInv`),
which lets the client begin anew from there. `Ready` is the state between two files: `FileLeft`,
`WebDone` and `GamestateTaken` lead to it and `NextDownloadKept` from it, so the three ways to leave a file share one
proof. `Protocol` is all of this about records rather than variables, because one message executes several commands:
`AllExecuted` goes along the recursive function `executed`. The invariant was checked with TLC (one to three files, windows of
1 and 2) before it was proved, which led to two of its parts: an acknowledged redirect is either
being fetched or answered already, and `wwwdl fail` is said of a file only.

### Only model-checked

`Drains` of `NetChan`, `GetsIn` of `Slots`, `ClientCommandsArrive` and `ServerCommandsArrive` of
`ReliableCommands`, `SettlesInTheWorld` of `Gamestate`, `GetsTheFiles` of `Download` are liveness, out of the prover's reach:
every other property that a passing run checks has a theorem. What the five runs that end in a counterexample show is
false of the code, and no theorem says it.

## 7. What is not modelled, and the plan

The parts with the status `not_modelled` in `PROJECT.json` are there with the reason. The
renderers, the user interface, sound, the virtual machine, the file system and the
platform layer hold no protocol; collision and bots are geometry. Most of the repository's lines are
these: the renderers alone, in four copies, are more than all that is listed in
section 1.

What would come next, in this order:

1. `LeakyBucket` (rate limiting, with the clock's wrap), `ConfigStrings` (big strings
   in pieces), `CommandBuffer` (`wait`, insertion while executing), the event queue.
2. Votes and the state of a match (`game/g_vote.c`, `game/g_match.c`); the ring of
   challenges, with the challenge cleared by the number of a slot.
3. The zone allocator, latched variables, the IRC thread, the TV client, each if the code
   bears a property worth the run.

Runs are kept to one or two a module, so that all can be checked in one go.

A theorem to come: that a leaky bucket never lets more through than it should.
