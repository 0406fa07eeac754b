--------------------------- MODULE Gamestate_proofs ---------------------------
(***************************************************************************)
(* Theorems about Gamestate, for any number of levels, restarts, changes   *)
(* of variables and messages under way: who plays holds the level's        *)
(* gamestate, nobody is dropped for good files, no gamestate is sent in    *)
(* vain, and the system string arrives.                                    *)
(***************************************************************************)
EXTENDS Gamestate, TLAPS, WellFoundedInduction

-----------------------------------------------------------------------------
(* Types                                                                   *)

ServerStates == {"zombie", "connected", "primed", "active"}
ClientStates == {"connected", "loading", "primed", "active"}

Servers == [state : ServerStates, serverId : Ids, restartedServerId : Ids,
            cvars : SystemInfos, systeminfo : SystemInfos,
            outgoingSequence : Nat, gamestateMessageNum : Int,
            lastClientCommand : Nat, gotCP : BOOLEAN, pureAuthentic : BOOLEAN]

Checks == [serverId : Ids, checksumFeed : Ids]

Clients == [state : ClientStates, systeminfo : SystemInfos, checksumFeed : Ids,
            serverMessageSequence : Nat, serverCommandSequence : Nat,
            lastExecutedServerCommand : Nat, snap : Nat, clientCommands : Seq(Checks)]

Gamestates == [type : {"gamestate"}, systeminfo : SystemInfos, checksumFeed : Ids]

ToClient == [number : Nat, commands : Nat, body : {None, Snap} \cup Gamestates]

ToServer == [serverId : Ids, messageAcknowledge : Nat, clientCommands : Nat,
             move : BOOLEAN, checksumFeed : Ids]

Histories == [early : BOOLEAN, stale : BOOLEAN, thought : [feed : Ids, level : Ids]]

Typed ==
    /\ sv \in Servers /\ cl \in Clients /\ commands \in Seq(SystemInfos)
    /\ toClient \in Seq(ToClient) /\ toServer \in Seq(ToServer)
    /\ history \in Histories

-----------------------------------------------------------------------------
(* The inductive invariant, of a server s, a client c, the commands n, a   *)
(* history h, and messages m under way                                     *)

\* No map_restart has put the client into this level early.
Fine(s, h) == ~h.early \/ s.state \in {"connected", "primed"}

\* Who uses an id of the level that runs holds the level's gamestate.
HasLevel(s, id, feed) == id >= s.restartedServerId => feed = s.restartedServerId

ServerInv(s, n) ==
    /\ 1 <= s.restartedServerId /\ s.restartedServerId <= s.systeminfo.sv_serverid
    /\ s.systeminfo.sv_serverid <= s.serverId /\ s.cvars.sv_serverid = s.serverId
    /\ s.gamestateMessageNum < s.outgoingSequence
    /\ \A i \in 1..Len(n) : n[i].sv_serverid <= s.serverId
    /\ Len(n) > 0 /\ n[Len(n)].sv_serverid >= s.restartedServerId => n[Len(n)] = s.systeminfo
    /\ s.state = "connected" => \A i \in 1..Len(n) : n[i].sv_serverid < s.restartedServerId

\* The client's counters, and the gamestate it holds.
ClientInv(s, c, n) ==
    /\ c.systeminfo.sv_serverid <= s.serverId
    /\ c.serverMessageSequence <= s.outgoingSequence
    /\ c.lastExecutedServerCommand <= c.serverCommandSequence
    /\ c.serverCommandSequence <= Len(n) /\ c.snap <= c.serverCommandSequence + 1
    /\ c.checksumFeed <= s.restartedServerId
    /\ s.state = "connected" => c.checksumFeed < s.restartedServerId
    /\ s.lastClientCommand <= Len(c.clientCommands)
    /\ \A k \in 1..Len(c.clientCommands) :
          /\ c.clientCommands[k].serverId <= s.serverId
          /\ c.clientCommands[k].checksumFeed <= c.checksumFeed
    /\ c.state \in {"primed", "active"} =>
          /\ Len(c.clientCommands) > 0
          /\ c.clientCommands[Len(c.clientCommands)].checksumFeed = c.checksumFeed

\* The server's ids have reached the client with the gamestate or after it.
LevelInv(s, c, n, h) ==
    Fine(s, h) =>
       /\ s.state = "active" => c.checksumFeed = s.restartedServerId
       /\ HasLevel(s, c.systeminfo.sv_serverid, c.checksumFeed)
       /\ \A k \in 1..Len(c.clientCommands) :
             HasLevel(s, c.clientCommands[k].serverId, c.clientCommands[k].checksumFeed)
       /\ \A i \in 1..Len(n) : i < c.snap => HasLevel(s, n[i].sv_serverid, c.checksumFeed)

\* The string the client has when it has executed every command.
LastString(c, n) ==
    IF Len(n) > c.lastExecutedServerCommand THEN n[Len(n)] ELSE c.systeminfo

\* No command of an earlier level is left to be executed.
FreshInv(s, c, n, h) ==
    ~h.stale =>
       /\ c.checksumFeed <= c.systeminfo.sv_serverid
       /\ \A i \in 1..Len(n) :
             i > c.lastExecutedServerCommand => c.checksumFeed <= n[i].sv_serverid
       /\ \A k \in 1..Len(c.clientCommands) :
             c.clientCommands[k].checksumFeed <= c.clientCommands[k].serverId
       /\ c.checksumFeed = s.restartedServerId => LastString(c, n) = s.systeminfo

\* A message to the client, among others in their order.
Carried(s, c, n, m) ==
    /\ c.serverMessageSequence <= m.number /\ m.number <= s.outgoingSequence
    /\ c.serverCommandSequence <= m.commands /\ m.commands <= Len(n)

SnapshotInv(s, c, n, h, m) ==
    m.body.type = "snapshot" /\ Fine(s, h) =>
       \A i \in 1..Len(n) : i <= m.commands => HasLevel(s, n[i].sv_serverid, c.checksumFeed)

GamestateInv(s, c, n, m) ==
    m.body.type = "gamestate" =>
       /\ m.number <= s.gamestateMessageNum
       /\ c.checksumFeed <= m.body.checksumFeed /\ m.body.checksumFeed <= s.restartedServerId
       /\ s.state = "connected" => m.body.checksumFeed < s.restartedServerId
       /\ m.body.checksumFeed <= m.body.systeminfo.sv_serverid
       /\ m.body.systeminfo.sv_serverid <= s.serverId
       /\ HasLevel(s, m.body.systeminfo.sv_serverid, m.body.checksumFeed)
       /\ \A i \in 1..Len(n) : i > m.commands => m.body.checksumFeed <= n[i].sv_serverid
       /\ m.body.checksumFeed = s.restartedServerId =>
             IF Len(n) > m.commands THEN n[Len(n)] = s.systeminfo
             ELSE m.body.systeminfo = s.systeminfo

InOrder(m, l) ==
    /\ m.number <= l.number /\ m.commands <= l.commands
    /\ m.body.type = "gamestate" /\ l.body.type = "gamestate" =>
          m.body.checksumFeed <= l.body.checksumFeed

\* A message to the server.
WrittenInv(s, c, h, m) ==
    /\ m.serverId <= s.serverId /\ m.messageAcknowledge <= c.serverMessageSequence
    /\ m.clientCommands <= Len(c.clientCommands) /\ m.checksumFeed <= c.checksumFeed
    /\ Fine(s, h) => HasLevel(s, m.serverId, m.checksumFeed)
    /\ m.move => /\ m.clientCommands > 0
                 /\ c.clientCommands[m.clientCommands].checksumFeed = m.checksumFeed
    /\ ~h.stale =>
          /\ \A k \in 1..m.clientCommands : c.clientCommands[k].checksumFeed <= m.serverId
          /\ s.state = "primed" /\ m.serverId < s.restartedServerId
                /\ m.messageAcknowledge > s.gamestateMessageNum
             => c.checksumFeed # s.restartedServerId

\* What is known of the client's files.
CheckInv(s, c, h) ==
    /\ s.gotCP /\ s.state # "zombie" => s.pureAuthentic
    /\ sv_pure /\ ~h.stale /\ Fine(s, h) /\ s.state \in {"primed", "active"} =>
          \A k \in 1..s.lastClientCommand :
             c.clientCommands[k].checksumFeed = s.restartedServerId => s.gotCP
    /\ h.stale \/ h.early \/ s.state # "zombie"

Messages(s, c, n, h, tc, ts) ==
    /\ \A i \in 1..Len(tc) : /\ Carried(s, c, n, tc[i]) /\ SnapshotInv(s, c, n, h, tc[i])
                             /\ GamestateInv(s, c, n, tc[i])
    /\ \A i, j \in 1..Len(tc) : i < j => InOrder(tc[i], tc[j])
    /\ \A i \in 1..Len(ts) : WrittenInv(s, c, h, ts[i])

World(s, c, n, h, tc, ts) ==
    /\ ServerInv(s, n) /\ ClientInv(s, c, n) /\ LevelInv(s, c, n, h) /\ FreshInv(s, c, n, h)
    /\ Messages(s, c, n, h, tc, ts)

Inv ==
    /\ Typed
    /\ World(sv, cl, commands, history, toClient, toServer)
    /\ CheckInv(sv, cl, history)
    /\ PlaysThisLevelUnlessEarly

-----------------------------------------------------------------------------
(* Record updates of the server's handlers                                 *)

SameLevel(s, t) ==
    /\ t.serverId = s.serverId /\ t.restartedServerId = s.restartedServerId
    /\ t.cvars.sv_serverid = s.cvars.sv_serverid /\ t.systeminfo = s.systeminfo

SameSent(s, t) ==
    t.outgoingSequence = s.outgoingSequence /\ t.gamestateMessageNum = s.gamestateMessageNum

SameChecks(s, t) ==
    /\ t.gotCP = s.gotCP /\ t.pureAuthentic = s.pureAuthentic
    /\ t.lastClientCommand = s.lastClientCommand

\* The fields of a server that has sent a gamestate.
Resent(s, t) ==
    /\ t \in Servers /\ SameLevel(s, t)
    /\ t.state = "primed" /\ ~t.gotCP /\ ~t.pureAuthentic
    /\ t.lastClientCommand = s.lastClientCommand
    /\ t.gamestateMessageNum = s.outgoingSequence + 1
    /\ t.outgoingSequence = s.outgoingSequence + 2

\* Sending a gamestate makes the client primed, its files unchecked.
LEMMA GamestateSent ==
    ASSUME NEW s \in Servers
    PROVE  Resent(s, SV_SendClientGameState(s))
  <1> DEFINE t == SV_SendClientGameState(s)
  <1>1. s.outgoingSequence + 1 \in Int /\ s.outgoingSequence + 2 \in Nat
    BY DEF Servers
  <1>2. t \in Servers
    BY <1>1 DEF SV_SendClientGameState, Servers, ServerStates
  <1>3. /\ SameLevel(s, t) /\ t.state = "primed" /\ t.gotCP = FALSE /\ t.pureAuthentic = FALSE
        /\ t.lastClientCommand = s.lastClientCommand
        /\ t.gamestateMessageNum = s.outgoingSequence + 1
        /\ t.outgoingSequence = s.outgoingSequence + 2
    BY DEF SV_SendClientGameState, Servers, SameLevel
  <1> QED
    BY <1>2, <1>3 DEF Resent

\* A change of the state alone.
StateSet(s, t, state) ==
    /\ t \in Servers /\ SameLevel(s, t) /\ SameSent(s, t) /\ SameChecks(s, t)
    /\ t.state = state

\* Dropping a client and letting it into the world change its state alone.
LEMMA StateChanged ==
    ASSUME NEW s \in Servers
    PROVE  /\ StateSet(s, SV_DropClient(s), "zombie")
           /\ StateSet(s, SV_ClientEnterWorld(s), "active")
  <1>1. SV_DropClient(s) \in Servers /\ SV_ClientEnterWorld(s) \in Servers
    BY DEF SV_DropClient, SV_ClientEnterWorld, Servers, ServerStates
  <1>2. /\ SameLevel(s, SV_DropClient(s)) /\ SameSent(s, SV_DropClient(s))
        /\ SameChecks(s, SV_DropClient(s)) /\ SV_DropClient(s).state = "zombie"
    BY DEF SV_DropClient, SameLevel, SameSent, SameChecks, Servers
  <1>3. /\ SameLevel(s, SV_ClientEnterWorld(s)) /\ SameSent(s, SV_ClientEnterWorld(s))
        /\ SameChecks(s, SV_ClientEnterWorld(s)) /\ SV_ClientEnterWorld(s).state = "active"
    BY DEF SV_ClientEnterWorld, SameLevel, SameSent, SameChecks, Servers
  <1> QED
    BY <1>1, <1>2, <1>3 DEF StateSet

-----------------------------------------------------------------------------
(* Client commands                                                         *)

\* What "cp" does to a client who is not dropped yet.
Verified(s, t, cp) ==
    /\ t \in Servers /\ SameLevel(s, t) /\ SameSent(s, t)
    /\ t.lastClientCommand = s.lastClientCommand
    /\ \/ SameChecks(s, t) /\ t.state = s.state
          /\ (sv_pure => cp.serverId < s.restartedServerId)
       \/ t.gotCP /\ t.pureAuthentic /\ t.state = s.state
       \/ /\ t.gotCP /\ t.state = "zombie"
          /\ sv_pure /\ cp.serverId >= s.restartedServerId
          /\ cp.checksumFeed # s.restartedServerId

\* The check "cp" concerns the level that runs or nothing, and drops only for another feed.
LEMMA PaksVerified ==
    ASSUME NEW s \in Servers, NEW cp \in Checks
    PROVE  Verified(s, SV_VerifyPaks_f(s, cp), cp)
  <1> DEFINE good == cp.checksumFeed = s.restartedServerId
             t == [s EXCEPT !.gotCP = TRUE, !.pureAuthentic = good]
  <1>1. s.restartedServerId \in Int /\ cp.serverId \in Int /\ cp.checksumFeed \in Int
    BY GamestateAssumption DEF Servers, Checks, Ids
  <1>2. CASE ~sv_pure \/ cp.serverId < s.restartedServerId
    <2>1. SV_VerifyPaks_f(s, cp) = s
      BY <1>2 DEF SV_VerifyPaks_f
    <2> QED
      BY <1>2, <2>1 DEF Verified, SameLevel, SameSent, SameChecks
  <1>3. CASE ~(~sv_pure \/ cp.serverId < s.restartedServerId)
    <2>1. SV_VerifyPaks_f(s, cp) = IF good THEN t ELSE SV_DropClient(t)
      BY <1>3 DEF SV_VerifyPaks_f
    <2>2. good \in BOOLEAN
      OBVIOUS
    <2> HIDE DEF good
    <2>3. t \in Servers
      BY <2>2 DEF Servers
    <2>4. /\ SameLevel(s, t) /\ SameSent(s, t) /\ t.lastClientCommand = s.lastClientCommand
          /\ t.state = s.state
      BY DEF SameLevel, SameSent, Servers
    <2>5. t.gotCP = TRUE /\ t.pureAuthentic = good
      BY DEF Servers
    <2> HIDE DEF t
    <2>6. CASE good
      BY <2>1, <2>3, <2>4, <2>5, <2>6 DEF Verified
    <2>7. CASE ~good
      <3>1. StateSet(t, SV_DropClient(t), "zombie")
        BY <2>3, StateChanged
      <3>2. cp.serverId >= s.restartedServerId /\ sv_pure
        BY <1>1, <1>3
      <3> QED
        BY <2>1, <2>4, <2>5, <2>7, <3>1, <3>2
           DEF Verified, StateSet, SameLevel, SameSent, SameChecks, good
    <2> QED
      BY <2>6, <2>7
  <1> QED
    BY <1>2, <1>3

\* What the commands up to number k do to a client who is not dropped yet.
Ran(s, t, cps, k, pre) ==
    /\ t \in Servers /\ SameLevel(s, t) /\ SameSent(s, t)
    /\ t.state = s.state \/ t.state = "zombie"
    /\ s.lastClientCommand <= t.lastClientCommand /\ t.lastClientCommand <= k
    /\ t.state # "zombie" => t.lastClientCommand = k
    /\ pre => t.state = s.state /\ t.gotCP = s.gotCP /\ t.pureAuthentic = s.pureAuthentic
    /\ s.gotCP => t.gotCP
    /\ t.state # "zombie" /\ (s.gotCP => s.pureAuthentic) => (t.gotCP => t.pureAuthentic)
    /\ t.state # "zombie" /\ sv_pure /\ ~pre =>
          \A j \in 1..k : j > s.lastClientCommand
                          /\ cps[j].serverId >= s.restartedServerId => t.gotCP
    /\ t.state = "zombie" =>
          \E j \in 1..k : /\ sv_pure /\ cps[j].serverId >= s.restartedServerId
                          /\ cps[j].checksumFeed # s.restartedServerId

\* One more command.
LEMMA RanOne ==
    ASSUME NEW s \in Servers, s.state # "zombie", NEW t, NEW k \in Nat, NEW pre \in BOOLEAN,
           NEW cps \in Seq(Checks), k + 1 \in 1..Len(cps), Ran(s, t, cps, k, pre)
    PROVE  Ran(s, SV_ClientCommand(t, cps[k + 1], pre), cps, k + 1, pre)
  <1> DEFINE cp == cps[k + 1]
             u == [t EXCEPT !.lastClientCommand = @ + 1]
             r == SV_ClientCommand(t, cp, pre)
  <1> SUFFICES Ran(s, r, cps, k + 1, pre)
    OBVIOUS
  <1>1. t \in Servers /\ t.lastClientCommand \in Nat /\ s.lastClientCommand \in Nat
    BY DEF Ran, Servers
  <1>2. cp \in Checks
    OBVIOUS
  <1>3. 1..k \subseteq 1..(k + 1) /\ \A j \in 1..(k + 1) : j = k + 1 \/ j \in 1..k
    OBVIOUS
  <1>4. CASE t.state = "zombie"
    <2>1. r = t
      BY <1>4 DEF SV_ClientCommand
    <2> HIDE DEF r
    <2> QED
      BY <1>1, <1>3, <1>4, <2>1 DEF Ran, r
  <1>5. CASE t.state # "zombie"
    <2>1. r = IF pre THEN u ELSE SV_VerifyPaks_f(u, cp)
      BY <1>5 DEF SV_ClientCommand
    <2>2. u \in Servers /\ u.lastClientCommand = k + 1
      BY <1>1, <1>5 DEF Servers, Ran
    <2>3. /\ SameLevel(t, u) /\ SameSent(t, u) /\ u.state = t.state
          /\ u.gotCP = t.gotCP /\ u.pureAuthentic = t.pureAuthentic
      BY <1>1 DEF SameLevel, SameSent, Servers
    <2> HIDE DEF u, r, cp
    <2>4. CASE pre
      <3>1. r = u
        BY <2>1, <2>4
      <3>2. /\ u \in Servers /\ SameLevel(s, u) /\ SameSent(s, u)
            /\ u.state = s.state /\ u.state # "zombie"
            /\ s.lastClientCommand <= u.lastClientCommand /\ u.lastClientCommand <= k + 1
            /\ u.lastClientCommand = k + 1
        BY <1>1, <1>5, <2>2, <2>3 DEF Ran, SameLevel, SameSent
      <3>3. u.gotCP = s.gotCP /\ u.pureAuthentic = s.pureAuthentic
        BY <2>3, <2>4, Zenon DEF Ran
      <3> QED
        BY <2>4, <3>1, <3>2, <3>3, Zenon DEF Ran
    <2>5. CASE ~pre
      <3>1. Verified(u, r, cp)
        BY <1>2, <2>1, <2>2, <2>5, PaksVerified
      <3>2. /\ r \in Servers /\ SameLevel(s, r) /\ SameSent(s, r)
            /\ r.state = s.state \/ r.state = "zombie"
            /\ r.lastClientCommand = k + 1 /\ s.lastClientCommand <= r.lastClientCommand
            /\ r.lastClientCommand <= k + 1
            /\ u.restartedServerId = s.restartedServerId
        BY <1>1, <1>5, <2>2, <2>3, <3>1 DEF Ran, Verified, SameLevel, SameSent
      <3>3. s.gotCP => r.gotCP
        BY <2>3, <3>1, Zenon DEF Ran, Verified, SameChecks
      <3>4. r.state # "zombie" /\ (s.gotCP => s.pureAuthentic) => (r.gotCP => r.pureAuthentic)
        <4>1. (s.gotCP => s.pureAuthentic) => (t.gotCP => t.pureAuthentic)
          BY <1>5, Zenon DEF Ran
        <4> QED
          BY <2>3, <3>1, <4>1, Zenon DEF Verified, SameChecks
      <3>5. ASSUME r.state # "zombie", sv_pure, NEW j \in 1..(k + 1), j > s.lastClientCommand,
                   cps[j].serverId >= s.restartedServerId
            PROVE  r.gotCP
        <4>1. CASE j = k + 1
          <5>1. cp.serverId >= s.restartedServerId
            BY <3>5, <4>1 DEF cp
          <5>2. ~(cp.serverId < s.restartedServerId)
            BY <5>1, <1>2, GamestateAssumption DEF Checks, Servers, Ids
          <5> QED
            BY <3>1, <3>2, <3>5, <5>2, Zenon DEF Verified
        <4>2. CASE j # k + 1
          <5>1. t.gotCP
            BY <1>3, <1>5, <2>5, <3>5, <4>2, Zenon DEF Ran
          <5> QED
            BY <2>3, <3>1, <5>1, Zenon DEF Verified, SameChecks
        <4> QED
          BY <4>1, <4>2
      <3>6. ASSUME r.state = "zombie"
            PROVE  \E j \in 1..(k + 1) : /\ sv_pure /\ cps[j].serverId >= s.restartedServerId
                                         /\ cps[j].checksumFeed # s.restartedServerId
        <4>1. /\ sv_pure /\ cp.serverId >= s.restartedServerId
              /\ cp.checksumFeed # s.restartedServerId
          BY <1>5, <2>3, <3>1, <3>2, <3>6, Zenon DEF Verified
        <4> QED
          BY <4>1 DEF cp
      <3> QED
        BY <2>5, <3>2, <3>3, <3>4, <3>5, <3>6, Zenon DEF Ran
    <2> QED
      BY <2>4, <2>5 DEF r
  <1> QED
    BY <1>4, <1>5

-----------------------------------------------------------------------------
(* Numbers                                                                 *)

\* A set of natural numbers with something in it has a least one.
LEMMA NatMinimum ==
    ASSUME NEW T, T \subseteq Nat, T # {}
    PROVE  \E x \in T : \A y \in T : x <= y
  <1>1. IsWellFoundedOn(OpToRel(<, Nat), Nat)
    BY NatLessThanWellFounded
  <1>2. PICK x \in T : \A y \in T : ~(<<y, x>> \in OpToRel(<, Nat))
    BY <1>1, WFMin
  <1>3. \A y \in T : ~(y < x)
    BY <1>2 DEF OpToRel
  <1> QED
    BY <1>3

\* The servers that follow one another when the commands up to number k are executed.
Runs(s, cps, pre, k, g) ==
    g = [j \in s.lastClientCommand..k |->
            IF j = s.lastClientCommand THEN s ELSE SV_ClientCommand(g[j - 1], cps[j], pre)]

\* The recursive function of SV_ClientCommands exists: a least counterexample has none before it.
LEMMA RunsExist ==
    ASSUME NEW s, s.lastClientCommand \in Nat, NEW cps, NEW pre, NEW K \in Nat,
           s.lastClientCommand <= K
    PROVE  \E g : Runs(s, cps, pre, K, g)
  <1> DEFINE a == s.lastClientCommand
             P(n) == \E g : Runs(s, cps, pre, n, g)
             T == {n \in Nat : a <= n /\ ~P(n)}
  <1>1. P(a)
    <2> DEFINE g == [j \in a..a |-> s]
    <2>1. g = [j \in a..a |-> IF j = a THEN s ELSE SV_ClientCommand(g[j - 1], cps[j], pre)]
      BY \A j \in a..a : j = a
    <2> HIDE DEF g
    <2> QED
      BY <2>1 DEF Runs
  <1>2. ASSUME NEW n \in Nat, a < n, P(n - 1)
        PROVE  P(n)
    <2>1. PICK g : Runs(s, cps, pre, n - 1, g)
      BY <1>2
    <2> DEFINE last == SV_ClientCommand(g[n - 1], cps[n], pre)
               h == [j \in a..n |-> IF j = n THEN last ELSE g[j]]
    <2>2. \A j \in a..(n - 1) : h[j] = g[j]
      <3>1. \A j \in a..(n - 1) : j \in a..n /\ j # n
        BY <1>2
      <3> QED
        BY <3>1
    <2>3. n - 1 \in a..(n - 1) /\ n \in a..n /\ h[n] = last
      BY <1>2
    <2>4. \A j \in a..(n - 1) : g[j] =
             IF j = a THEN s ELSE SV_ClientCommand(g[j - 1], cps[j], pre)
      BY <2>1 DEF Runs
    <2> DEFINE body(j) == IF j = a THEN s ELSE SV_ClientCommand(h[j - 1], cps[j], pre)
    <2>5. h = [j \in a..n |-> h[j]]
      OBVIOUS
    <2> HIDE DEF h
    <2>6. \A j \in a..n : h[j] = body(j)
      <3> SUFFICES ASSUME NEW j \in a..n
                   PROVE  h[j] = body(j)
        OBVIOUS
      <3>1. CASE j = n
        <4>1. h[j - 1] = g[n - 1]
          BY <2>2, <2>3, <3>1
        <4> QED
          BY <1>2, <2>3, <3>1, <4>1
      <3>2. CASE j # n
        <4>1. j \in a..(n - 1) /\ (j # a => j - 1 \in a..(n - 1))
          BY <3>2
        <4>2. h[j] = g[j] /\ (j # a => h[j - 1] = g[j - 1])
          BY <2>2, <4>1
        <4> QED
          BY <2>4, <4>1, <4>2
      <3> QED
        BY <3>1, <3>2
    <2>7. h = [j \in a..n |-> body(j)]
      BY <2>5, <2>6
    <2> QED
      BY <2>7 DEF Runs
  <1> HIDE DEF P
  <1>3. T = {}
    <2> SUFFICES ASSUME T # {} PROVE FALSE
      OBVIOUS
    <2>1. T \subseteq Nat
      OBVIOUS
    <2>2. PICK n \in T : \A m \in T : n <= m
      BY <2>1, NatMinimum
    <2>3. n # a /\ a < n /\ n - 1 \in Nat /\ a <= n - 1 /\ n - 1 \notin T
      BY <1>1, <2>2
    <2> QED
      BY <1>2, <2>2, <2>3
  <1> QED
    BY <1>3 DEF P

\* The commands of a message, of which those are executed that were not before.
LEMMA CommandsRan ==
    ASSUME NEW s \in Servers, s.state # "zombie", NEW m \in ToServer, NEW pre \in BOOLEAN,
           cl.clientCommands \in Seq(Checks), m.clientCommands <= Len(cl.clientCommands)
    PROVE  LET t == SV_ClientCommands(s, m, pre)
           IN  \E k \in Nat : /\ m.clientCommands <= k /\ s.lastClientCommand <= k
                              /\ k \in {m.clientCommands, s.lastClientCommand}
                              /\ Ran(s, t, cl.clientCommands, k, pre)
  <1> DEFINE a == s.lastClientCommand
             K == m.clientCommands
             cps == cl.clientCommands
             done[k \in a..K] ==
                IF k = a THEN s ELSE SV_ClientCommand(done[k - 1], cps[k], pre)
             Q(k) == Ran(s, done[k], cps, k, pre)
             T == {k \in a..K : ~Q(k)}
  <1>1. a \in Nat /\ K \in Nat
    BY DEF Servers, ToServer
  <1>2. \A k \in Nat : k = a => Ran(s, s, cps, k, pre)
    BY <1>1, a <= a DEF Ran, SameLevel, SameSent
  <1>3. CASE K <= a
    <2>1. SV_ClientCommands(s, m, pre) = s
      BY <1>3 DEF SV_ClientCommands
    <2> QED
      BY <1>1, <1>2, <1>3, <2>1
  <1>4. CASE a < K
    <2>1. SV_ClientCommands(s, m, pre) = done[K]
      BY <1>1, <1>4 DEF SV_ClientCommands
    <2>2. Runs(s, cps, pre, K, done)
      <3>1. \E g : Runs(s, cps, pre, K, g)
        <4> HIDE DEF done, K
        <4>1. s.lastClientCommand \in Nat /\ s.lastClientCommand <= K /\ K \in Nat
          BY <1>1, <1>4
        <4> QED
          BY <4>1, RunsExist
      <3> QED
        BY <3>1, Zenon DEF Runs
    <2> HIDE DEF done
    <2>3. \A k \in a..K : done[k] =
             IF k = a THEN s ELSE SV_ClientCommand(done[k - 1], cps[k], pre)
      BY <2>2 DEF Runs
    <2>4. Q(a)
      <3>1. done[a] = s
        BY <1>1, <1>4, <2>3
      <3> QED
        BY <1>1, <1>2, <3>1
    <2>5. ASSUME NEW k \in a..K, k # a, Q(k - 1)
          PROVE  Q(k)
      <3>1. k - 1 \in Nat /\ (k - 1) + 1 = k /\ (k - 1) + 1 \in 1..Len(cps)
        BY <1>1, <1>4, <2>5
      <3>2. Ran(s, SV_ClientCommand(done[k - 1], cps[(k - 1) + 1], pre), cps, (k - 1) + 1, pre)
        <4> DEFINE d == done[k - 1]
                   e == k - 1
        <4>1. Ran(s, d, cps, e, pre) /\ e \in Nat /\ e + 1 \in 1..Len(cps)
          BY <2>5, <3>1
        <4> HIDE DEF d, e
        <4>2. Ran(s, SV_ClientCommand(d, cps[e + 1], pre), cps, e + 1, pre)
          BY <4>1, RanOne
        <4> QED
          BY <4>2 DEF d, e
      <3> QED
        BY <2>3, <2>5, <3>1, <3>2
    <2> HIDE DEF Q
    <2>6. T = {}
      <3> SUFFICES ASSUME T # {} PROVE FALSE
        OBVIOUS
      <3>1. T \subseteq Nat
        BY <1>1
      <3>2. PICK n \in T : \A i \in T : n <= i
        BY <3>1, NatMinimum
      <3>3. n # a /\ n \in a..K /\ n - 1 \in a..K /\ n - 1 \notin T
        BY <1>1, <2>4, <3>2
      <3> QED
        BY <2>5, <3>2, <3>3
    <2>7. Q(K)
      BY <1>1, <1>4, <2>6
    <2> QED
      BY <1>1, <1>4, <2>1, <2>7 DEF Q
  <1> QED
    BY <1>1, <1>3, <1>4

-----------------------------------------------------------------------------
(* Steps of the server that send no gamestate and change no level          *)

SameFlags(h, g) == g.early = h.early /\ g.stale = h.stale

\* No step of the server brings a client back to an earlier state but a new level.
Onward(s, t) == t.state \in {"connected", "primed"} => t.state = s.state

\* Who is not in the world early after a step of the server was not before it.
LEMMA FineBefore ==
    ASSUME NEW s, NEW t, NEW h, NEW g, SameFlags(h, g), Onward(s, t), Fine(t, g)
    PROVE  Fine(s, h)
  BY Zenon DEF SameFlags, Onward, Fine

\* The level goes on, if need be restarted.
GoesOn(s, t) ==
    /\ t.restartedServerId = s.restartedServerId /\ t.systeminfo = s.systeminfo
    /\ s.serverId <= t.serverId /\ t.cvars.sv_serverid = t.serverId

\* All that is known of the client and of what is under way stays, while the level goes on.
LEMMA Continued ==
    ASSUME NEW s \in Servers, NEW t \in Servers, NEW c \in Clients, NEW n \in Seq(SystemInfos),
           NEW h, NEW g, NEW tc \in Seq(ToClient), NEW ts \in Seq(ToServer),
           World(s, c, n, h, tc, ts), Fine(t, g) => Fine(s, h), ~g.stale => ~h.stale,
           GoesOn(s, t), SameSent(s, t), Onward(s, t),
           t.lastClientCommand <= Len(c.clientCommands),
           Fine(t, g) /\ t.state = "active" => c.checksumFeed = t.restartedServerId
    PROVE  World(t, c, n, g, tc, ts)
  <1>1. s.serverId \in Int /\ t.serverId \in Int
    BY DEF Servers, Ids
  <1>2. ServerInv(t, n)
    <2>1. /\ t.systeminfo.sv_serverid \in Int
          /\ \A i \in 1..Len(n) : n[i].sv_serverid \in Int
      <3>1. \A i \in 1..Len(n) : n[i] \in SystemInfos
        OBVIOUS
      <3>2. \A i \in 1..Len(n) : n[i].sv_serverid \in Int
        BY <3>1 DEF SystemInfos, Ids
      <3> QED
        BY <3>2 DEF Servers, SystemInfos, Ids
    <2> QED
      BY <1>1, <2>1 DEF World, ServerInv, GoesOn, SameSent, Onward
  <1>3. ClientInv(t, c, n)
    <2>1. /\ c.systeminfo.sv_serverid \in Int
          /\ \A k \in 1..Len(c.clientCommands) : c.clientCommands[k].serverId \in Int
      <3>1. \A k \in 1..Len(c.clientCommands) : c.clientCommands[k] \in Checks
        BY DEF Clients
      <3> QED
        BY <3>1, SMTT(30) DEF Clients, Checks, SystemInfos, Ids
    <2> QED
      BY <1>1, <2>1 DEF World, ClientInv, GoesOn, SameSent, Onward
  <1>4. LevelInv(t, c, n, g)
    BY DEF World, LevelInv, GoesOn, HasLevel
  <1>5. FreshInv(t, c, n, g)
    BY DEF World, FreshInv, GoesOn
  <1>6. ASSUME NEW i \in 1..Len(tc)
        PROVE  /\ Carried(t, c, n, tc[i]) /\ SnapshotInv(t, c, n, g, tc[i])
               /\ GamestateInv(t, c, n, tc[i])
    <2>1. Carried(s, c, n, tc[i]) /\ SnapshotInv(s, c, n, h, tc[i]) /\ GamestateInv(s, c, n, tc[i])
      BY DEF World, Messages
    <2>2. Carried(t, c, n, tc[i])
      BY <2>1 DEF Carried, SameSent
    <2>3. SnapshotInv(t, c, n, g, tc[i])
      BY <2>1 DEF SnapshotInv, GoesOn, HasLevel
    <2>4. ASSUME tc[i].body.type = "gamestate"
          PROVE  tc[i].body.systeminfo.sv_serverid \in Int
      <3>1. tc[i] \in ToClient
        OBVIOUS
      <3>2. tc[i].body \in Gamestates
        BY <2>4, <3>1 DEF ToClient, None, Snap
      <3> QED
        BY <3>2 DEF Gamestates, SystemInfos, Ids
    <2>5. GamestateInv(t, c, n, tc[i])
      BY <1>1, <2>1, <2>4 DEF GamestateInv, GoesOn, SameSent, HasLevel, Onward
    <2> QED
      BY <2>2, <2>3, <2>5
  <1>7. ASSUME NEW i \in 1..Len(ts)
        PROVE  WrittenInv(t, c, g, ts[i])
    <2>1. WrittenInv(s, c, h, ts[i])
      BY DEF World, Messages
    <2>2. ts[i].serverId \in Int
      <3>1. ts[i] \in ToServer
        OBVIOUS
      <3> QED
        BY <3>1, SMTT(30) DEF ToServer, Ids
    <2> QED
      BY <1>1, <2>1, <2>2 DEF WrittenInv, GoesOn, SameSent, HasLevel, Onward
  <1> QED
    BY <1>2, <1>3, <1>4, <1>5, <1>6, <1>7 DEF World, Messages

\* The same of a step of the server that changes neither level nor counters.
LEMMA Quiet ==
    ASSUME NEW s \in Servers, NEW t \in Servers, NEW c \in Clients, NEW n \in Seq(SystemInfos),
           NEW h \in Histories, NEW g \in Histories, NEW tc \in Seq(ToClient),
           NEW ts \in Seq(ToServer), World(s, c, n, h, tc, ts), SameFlags(h, g),
           SameLevel(s, t), SameSent(s, t), Onward(s, t),
           t.lastClientCommand <= Len(c.clientCommands),
           Fine(t, g) /\ t.state = "active" => c.checksumFeed = t.restartedServerId
    PROVE  World(t, c, n, g, tc, ts)
  <1>1. Fine(t, g) => Fine(s, h)
    BY FineBefore
  <1>2. ~g.stale => ~h.stale
    BY Zenon DEF SameFlags
  <1>3. GoesOn(s, t)
    BY DEF GoesOn, SameLevel, World, ServerInv, Servers, Ids
  <1> QED
    BY <1>1, <1>2, <1>3, Continued

\* What has come is no longer under way.
LEMMA Taken ==
    ASSUME NEW s, NEW c, NEW n, NEW h, NEW tc \in Seq(ToClient), NEW ts \in Seq(ToServer),
           World(s, c, n, h, tc, ts)
    PROVE  /\ ts # <<>> => Tail(ts) \in Seq(ToServer) /\ World(s, c, n, h, tc, Tail(ts))
           /\ tc # <<>> => Tail(tc) \in Seq(ToClient) /\ World(s, c, n, h, Tail(tc), ts)
  <1>1. ASSUME ts # <<>>
        PROVE  Tail(ts) \in Seq(ToServer) /\ World(s, c, n, h, tc, Tail(ts))
    <2>1. Tail(ts) \in Seq(ToServer)
      BY <1>1
    <2>2. \A i \in 1..Len(Tail(ts)) : i + 1 \in 1..Len(ts) /\ Tail(ts)[i] = ts[i + 1]
      BY <1>1
    <2> QED
      BY <2>1, <2>2 DEF World, Messages
  <1>2. ASSUME tc # <<>>
        PROVE  Tail(tc) \in Seq(ToClient) /\ World(s, c, n, h, Tail(tc), ts)
    <2>1. Tail(tc) \in Seq(ToClient)
      BY <1>2
    <2>2. \A i \in 1..Len(Tail(tc)) : i + 1 \in 1..Len(tc) /\ Tail(tc)[i] = tc[i + 1]
      BY <1>2
    <2>3. \A i, j \in 1..Len(Tail(tc)) : i < j => i + 1 < j + 1
      BY <2>1
    <2>4. \A i, j \in 1..Len(Tail(tc)) : i < j => InOrder(Tail(tc)[i], Tail(tc)[j])
      BY <2>2, <2>3 DEF World, Messages
    <2> QED
      BY <2>1, <2>2, <2>4 DEF World, Messages
  <1> QED
    BY <1>1, <1>2

-----------------------------------------------------------------------------
(* Messages that the server sends                                          *)

\* One more message is under way.
LEMMA Put ==
    ASSUME NEW s, NEW c, NEW n, NEW h, NEW tc \in Seq(ToClient), NEW ts,
           World(s, c, n, h, tc, ts), NEW m \in ToClient, Carried(s, c, n, m),
           SnapshotInv(s, c, n, h, m), GamestateInv(s, c, n, m),
           \A i \in 1..Len(tc) : InOrder(tc[i], m)
    PROVE  Append(tc, m) \in Seq(ToClient) /\ World(s, c, n, h, Append(tc, m), ts)
  <1> DEFINE q == Append(tc, m)
  <1>1. /\ q \in Seq(ToClient) /\ Len(q) = Len(tc) + 1
        /\ \A i \in 1..Len(q) : IF i \in 1..Len(tc) THEN q[i] = tc[i]
                                ELSE q[i] = m /\ i = Len(tc) + 1
    OBVIOUS
  <1> HIDE DEF q
  <1>2. \A i \in 1..Len(q) : /\ Carried(s, c, n, q[i]) /\ SnapshotInv(s, c, n, h, q[i])
                             /\ GamestateInv(s, c, n, q[i])
    BY <1>1 DEF World, Messages
  <1>3. ASSUME NEW i \in 1..Len(q), NEW j \in 1..Len(q), i < j
        PROVE  InOrder(q[i], q[j])
    <2>1. i \in 1..Len(tc) /\ q[i] = tc[i]
      BY <1>1, <1>3
    <2>2. CASE j \in 1..Len(tc)
      BY <1>1, <1>3, <2>1, <2>2 DEF World, Messages
    <2>3. CASE j \notin 1..Len(tc)
      BY <1>1, <2>1, <2>3
    <2> QED
      BY <2>2, <2>3
  <1>4. World(s, c, n, h, q, ts)
    BY <1>2, <1>3 DEF World, Messages
  <1> QED
    BY <1>1, <1>4 DEF q

\* One element, appended by concatenation.
LEMMA AppendOne ==
    ASSUME NEW S, NEW q \in Seq(S), NEW m \in S
    PROVE  q \o <<m>> = Append(q, m)
  OBVIOUS

\* A message without a gamestate, with all commands there are.
LEMMA PutPlain ==
    ASSUME NEW s \in Servers, NEW c \in Clients, NEW n \in Seq(SystemInfos), NEW h,
           NEW tc \in Seq(ToClient), NEW ts, World(s, c, n, h, tc, ts),
           NEW body \in {None, Snap}, NEW m,
           m = [number |-> s.outgoingSequence, commands |-> Len(n), body |-> body],
           body = Snap => s.state = "active"
    PROVE  Append(tc, m) \in Seq(ToClient) /\ World(s, c, n, h, Append(tc, m), ts)
  <1>1. m \in ToClient
    BY DEF ToClient, Servers
  <1>2. /\ m.number = s.outgoingSequence /\ m.commands = Len(n) /\ m.body = body
        /\ m.body.type # "gamestate" /\ (m.body.type = "snapshot" => s.state = "active")
    BY DEF None, Snap
  <1>3. Carried(s, c, n, m)
    BY <1>2 DEF World, ClientInv, Carried, Servers, Clients
  <1>4. SnapshotInv(s, c, n, h, m)
    <2> SUFFICES ASSUME m.body.type = "snapshot", Fine(s, h)
                 PROVE  \A i \in 1..Len(n) : HasLevel(s, n[i].sv_serverid, c.checksumFeed)
      BY DEF SnapshotInv
    <2>1. c.checksumFeed = s.restartedServerId
      BY <1>2 DEF World, LevelInv
    <2> QED
      BY <2>1 DEF HasLevel
  <1>5. GamestateInv(s, c, n, m)
    BY <1>2 DEF GamestateInv
  <1>6. ASSUME NEW i \in 1..Len(tc)
        PROVE  InOrder(tc[i], m)
    <2>1. Carried(s, c, n, tc[i])
      BY DEF World, Messages
    <2> QED
      BY <1>2, <2>1 DEF Carried, InOrder
  <1> QED
    BY <1>1, <1>3, <1>4, <1>5, <1>6, Put

\* A gamestate.
LEMMA PutGamestate ==
    ASSUME NEW s \in Servers, NEW t, NEW c \in Clients, NEW n \in Seq(SystemInfos),
           NEW h \in Histories, NEW g \in Histories, NEW tc \in Seq(ToClient),
           NEW ts \in Seq(ToServer), World(s, c, n, h, tc, ts), SameFlags(h, g),
           Resent(s, t), s.state \in {"connected", "primed"}, NEW m,
           m = [number |-> t.gamestateMessageNum, commands |-> Len(n), body |-> GamestateOf(t)]
    PROVE  Append(tc, m) \in Seq(ToClient) /\ World(t, c, n, g, Append(tc, m), ts)
  <1>1. t \in Servers /\ SameLevel(s, t) /\ t.state = "primed"
    BY DEF Resent
  <1>2. /\ t.gamestateMessageNum = s.outgoingSequence + 1 /\ t.gamestateMessageNum \in Nat
        /\ t.outgoingSequence = s.outgoingSequence + 2
        /\ s.outgoingSequence \in Nat
    BY DEF Resent, Servers
  <1>3. Fine(s, h)
    BY DEF Fine
  <1>4. ~g.stale => ~h.stale
    BY Zenon DEF SameFlags
  <1>5. ServerInv(t, n)
    BY <1>1, <1>2 DEF World, ServerInv, SameLevel
  <1>6. ClientInv(t, c, n)
    BY <1>1, <1>2 DEF World, ClientInv, SameLevel, Resent, Clients
  <1>7. LevelInv(t, c, n, g)
    BY <1>1, <1>3 DEF World, LevelInv, SameLevel, HasLevel
  <1>8. FreshInv(t, c, n, g)
    BY <1>1, <1>4 DEF World, FreshInv, SameLevel
  <1>9. ASSUME NEW i \in 1..Len(tc)
        PROVE  /\ Carried(t, c, n, tc[i]) /\ SnapshotInv(t, c, n, g, tc[i])
               /\ GamestateInv(t, c, n, tc[i])
    <2>1. Carried(s, c, n, tc[i]) /\ SnapshotInv(s, c, n, h, tc[i]) /\ GamestateInv(s, c, n, tc[i])
      BY DEF World, Messages
    <2>2. tc[i] \in ToClient /\ tc[i].number \in Nat
      <3>1. tc[i] \in ToClient
        OBVIOUS
      <3> QED
        BY <3>1 DEF ToClient
    <2>3. Carried(t, c, n, tc[i])
      BY <1>2, <2>1, <2>2 DEF Carried
    <2>4. SnapshotInv(t, c, n, g, tc[i])
      BY <1>1, <1>3, <2>1 DEF SnapshotInv, SameLevel, HasLevel
    <2>5. GamestateInv(t, c, n, tc[i])
      BY <1>1, <1>2, <2>1, <2>2, <2>3 DEF GamestateInv, SameLevel, HasLevel, Carried
    <2> QED
      BY <2>3, <2>4, <2>5
  <1>10. ASSUME NEW i \in 1..Len(ts)
         PROVE  WrittenInv(t, c, g, ts[i])
    <2>1. WrittenInv(s, c, h, ts[i])
      BY DEF World, Messages
    <2>2. ~(ts[i].messageAcknowledge > t.gamestateMessageNum)
      <3>1. ts[i] \in ToServer
        OBVIOUS
      <3>2. ts[i].messageAcknowledge \in Nat /\ c.serverMessageSequence \in Nat
        BY <3>1 DEF ToServer, Clients
      <3> QED
        BY <1>2, <2>1, <3>2, SMTT(30) DEF World, ClientInv, WrittenInv
    <2> QED
      BY <1>1, <1>3, <1>4, <2>1, <2>2 DEF WrittenInv, SameLevel, HasLevel
  <1>11. World(t, c, n, g, tc, ts)
    <2>1. \A i, j \in 1..Len(tc) : i < j => InOrder(tc[i], tc[j])
      BY DEF World, Messages
    <2> QED
      BY <1>5, <1>6, <1>7, <1>8, <1>9, <1>10, <2>1 DEF World, Messages
  <1>12. GamestateOf(t) \in Gamestates
    BY <1>1 DEF GamestateOf, Gamestates, Servers
  <1>13. m \in ToClient
    BY <1>2, <1>12 DEF ToClient
  <1>14. /\ m.number = t.gamestateMessageNum /\ m.commands = Len(n) /\ m.body.type = "gamestate"
         /\ m.body.checksumFeed = t.restartedServerId /\ m.body.systeminfo = t.systeminfo
    BY DEF GamestateOf
  <1>15. Carried(t, c, n, m)
    BY <1>2, <1>6, <1>14, SMTT(30) DEF World, ClientInv, Carried, Clients
  <1>16. SnapshotInv(t, c, n, g, m)
    BY <1>14 DEF SnapshotInv
  <1>17. GamestateInv(t, c, n, m)
    <2>1. /\ Len(n) \in Nat /\ c.checksumFeed <= t.restartedServerId
          /\ t.restartedServerId <= t.systeminfo.sv_serverid
          /\ t.systeminfo.sv_serverid <= t.serverId
      BY <1>5, <1>6 DEF ServerInv, ClientInv
    <2>2. t.gamestateMessageNum <= t.gamestateMessageNum /\ t.restartedServerId <= t.restartedServerId
      BY <1>1, <1>2, SMTT(30) DEF Servers, Ids
    <2>3. /\ \A i \in 1..Len(n) : ~(i > m.commands)
          /\ ~(Len(n) > m.commands)
      BY <1>14
    <2> QED
      BY <1>1, <1>14, <2>1, <2>2, <2>3 DEF GamestateInv, HasLevel
  <1>18. ASSUME NEW i \in 1..Len(tc)
         PROVE  InOrder(tc[i], m)
    <2>1. Carried(s, c, n, tc[i]) /\ GamestateInv(s, c, n, tc[i]) /\ tc[i] \in ToClient
      BY DEF World, Messages
    <2>2. tc[i].number \in Nat
      BY <2>1 DEF ToClient
    <2> QED
      BY <1>1, <1>2, <1>14, <2>1, <2>2 DEF Carried, InOrder, GamestateInv, SameLevel
  <1> QED
    BY <1>11, <1>13, <1>15, <1>16, <1>17, <1>18, Put

-----------------------------------------------------------------------------
(* Messages that come to the server                                        *)

\* A message of an earlier level: u is the server that has sent its gamestate again or not.
OfEarlierLevel(s, t, m, u, k) ==
    /\ m.serverId < s.restartedServerId
    /\ u = s \/ (DroppedGamestate(s, m) /\ Resent(s, u))
    /\ k \in {m.clientCommands, s.lastClientCommand}
    /\ m.clientCommands <= k /\ s.lastClientCommand <= k
    /\ Ran(u, t, cl.clientCommands, k, TRUE)

\* A message with the server's id: u is the server that has executed its commands.
OfThisLevel(s, t, m, u, k) ==
    /\ m.serverId = s.serverId
    /\ k \in {m.clientCommands, s.lastClientCommand}
    /\ m.clientCommands <= k /\ s.lastClientCommand <= k
    /\ Ran(s, u, cl.clientCommands, k, FALSE)
    /\ t = IF m.move /\ u.state # "zombie" THEN SV_UserMove(u) ELSE u

\* A message is of before a restart, of an earlier level, or of this one.
LEMMA MessageExecuted ==
    ASSUME NEW s \in Servers, s.state # "zombie", NEW m \in ToServer,
           s.restartedServerId <= s.serverId, m.serverId <= s.serverId,
           cl.clientCommands \in Seq(Checks), m.clientCommands <= Len(cl.clientCommands)
    PROVE  LET t == SV_ExecuteClientMessage(s, m)
           IN  \/ t = s /\ m.serverId # s.serverId
               \/ \E u, k : OfEarlierLevel(s, t, m, u, k)
               \/ \E u, k : OfThisLevel(s, t, m, u, k)
  <1> DEFINE t == SV_ExecuteClientMessage(s, m)
  <1>1. m.serverId \in Int /\ s.restartedServerId \in Int /\ s.serverId \in Int
    BY GamestateAssumption DEF Servers, ToServer, Ids
  <1>2. CASE m.serverId = s.serverId
    <2> DEFINE u == SV_ClientCommands(s, m, FALSE)
    <2>1. t = IF m.move /\ u.state # "zombie" THEN SV_UserMove(u) ELSE u
      BY <1>2 DEF SV_ExecuteClientMessage
    <2>2. PICK k \in Nat : /\ m.clientCommands <= k /\ s.lastClientCommand <= k
                           /\ k \in {m.clientCommands, s.lastClientCommand}
                           /\ Ran(s, u, cl.clientCommands, k, FALSE)
      BY CommandsRan
    <2> HIDE DEF t, u
    <2>3. OfThisLevel(s, t, m, u, k)
      BY <1>2, <2>1, <2>2 DEF OfThisLevel
    <2> QED
      BY <2>3 DEF t
  <1>3. CASE m.serverId # s.serverId /\ BeforeRestart(s, m)
    BY <1>3 DEF SV_ExecuteClientMessage, OldGamestate
  <1>4. CASE m.serverId # s.serverId /\ ~BeforeRestart(s, m)
    <2> DEFINE u == IF DroppedGamestate(s, m) THEN SV_SendClientGameState(s) ELSE s
    <2>1. t = SV_ClientCommands(u, m, TRUE)
      BY <1>4 DEF SV_ExecuteClientMessage, OldGamestate
    <2>2. m.serverId < s.restartedServerId
      BY <1>1, <1>4 DEF BeforeRestart
    <2>3. u = s \/ (DroppedGamestate(s, m) /\ Resent(s, u))
      <3>1. Resent(s, SV_SendClientGameState(s))
        BY GamestateSent
      <3>2. CASE DroppedGamestate(s, m)
        BY <3>1, <3>2
      <3>3. CASE ~DroppedGamestate(s, m)
        BY <3>3
      <3> QED
        BY <3>2, <3>3
    <2> HIDE DEF u, t
    <2>4. u \in Servers /\ u.state # "zombie" /\ u.lastClientCommand = s.lastClientCommand
      BY <2>3 DEF Resent
    <2>5. PICK k \in Nat : /\ m.clientCommands <= k /\ u.lastClientCommand <= k
                           /\ k \in {m.clientCommands, u.lastClientCommand}
                           /\ Ran(u, SV_ClientCommands(u, m, TRUE), cl.clientCommands, k, TRUE)
      BY <2>4, CommandsRan
    <2>6. OfEarlierLevel(s, t, m, u, k)
      BY <2>1, <2>2, <2>3, <2>4, <2>5 DEF OfEarlierLevel
    <2> QED
      BY <2>6 DEF t
  <1> QED
    BY <1>2, <1>3, <1>4

\* What a move does to a client who is not dropped yet.
Moved(s, t) ==
    \/ ResendsForCP(s) /\ Resent(s, t)
    \/ /\ ~ResendsForCP(s) /\ t \in Servers
       /\ SameLevel(s, t) /\ SameSent(s, t) /\ SameChecks(s, t)
       /\ \/ t.state = "active" /\ s.state = "primed"
          \/ t.state = s.state
          \/ t.state = "zombie" /\ sv_pure /\ ~s.pureAuthentic

\* A move brings a gamestate, the world, or, if the files are not in order, the end.
LEMMA UserMoved ==
    ASSUME NEW s \in Servers
    PROVE  Moved(s, SV_UserMove(s))
  <1> DEFINE t == IF s.state = "primed" THEN SV_ClientEnterWorld(s) ELSE s
             u == SV_UserMove(s)
  <1>1. CASE ResendsForCP(s)
    BY <1>1, GamestateSent DEF SV_UserMove, Moved
  <1>2. CASE ~ResendsForCP(s)
    <2>1. u = IF sv_pure /\ ~t.pureAuthentic THEN SV_DropClient(t) ELSE t
      BY <1>2 DEF SV_UserMove
    <2>2. /\ t \in Servers /\ SameLevel(s, t) /\ SameSent(s, t) /\ SameChecks(s, t)
          /\ (t.state = "active" /\ s.state = "primed") \/ t.state = s.state
      BY StateChanged DEF StateSet, SameLevel, SameSent, SameChecks
    <2> HIDE DEF t, u
    <2>3. CASE sv_pure /\ ~t.pureAuthentic
      <3>1. StateSet(t, u, "zombie")
        BY <2>1, <2>2, <2>3, StateChanged
      <3>2. ~s.pureAuthentic
        BY <2>2, <2>3, Zenon DEF SameChecks
      <3> QED
        BY <1>2, <2>2, <2>3, <3>1, <3>2
           DEF Moved, StateSet, SameLevel, SameSent, SameChecks, u
    <2>4. CASE ~(sv_pure /\ ~t.pureAuthentic)
      BY <1>2, <2>1, <2>2, <2>4 DEF Moved, u
    <2> QED
      BY <2>3, <2>4
  <1> QED
    BY <1>1, <1>2

\* No gamestate has been sent if its number is the same.
LEMMA NoneSent ==
    ASSUME NEW s, NEW t, SameSent(s, t), NEW tc \in Seq(ToClient)
    PROVE  tc \o GamestatesSent(s, t) = tc
  BY DEF GamestatesSent, SameSent

\* The gamestate that has been sent.
LEMMA OneSent ==
    ASSUME NEW s \in Servers, s.gamestateMessageNum < s.outgoingSequence, NEW u, Resent(s, u),
           NEW t \in Servers, SameLevel(u, t), SameSent(u, t), NEW tc \in Seq(ToClient),
           commands \in Seq(SystemInfos), NEW m,
           m = [number |-> u.gamestateMessageNum, commands |-> Len(commands),
                body |-> GamestateOf(u)], m \in ToClient
    PROVE  tc \o GamestatesSent(s, t) = Append(tc, m)
  <1>1. t.gamestateMessageNum = u.gamestateMessageNum
        /\ t.gamestateMessageNum # s.gamestateMessageNum
    BY DEF Resent, SameSent, Servers
  <1>2. GamestateOf(t) = GamestateOf(u)
    BY DEF GamestateOf, SameLevel
  <1>3. GamestatesSent(s, t) = <<m>>
    BY <1>1, <1>2 DEF GamestatesSent, Message
  <1> QED
    BY <1>3, AppendOne

\* What is known of a message under way to the server.
Written(m) == m \in ToServer /\ WrittenInv(sv, cl, history, m)

\* The types of the numbers that the handlers compare.
LEMMA Numbers ==
    ASSUME Inv, NEW m, Written(m)
    PROVE  /\ sv.restartedServerId \in Nat /\ sv.serverId \in Nat /\ sv.lastClientCommand \in Nat
           /\ sv.restartedServerId <= sv.serverId
           /\ cl.checksumFeed \in Nat /\ cl.checksumFeed <= sv.restartedServerId
           /\ m.serverId \in Nat /\ m.checksumFeed \in Nat /\ m.clientCommands \in Nat
           /\ m.messageAcknowledge \in Nat
           /\ m.serverId <= sv.serverId /\ m.checksumFeed <= cl.checksumFeed
           /\ cl.clientCommands \in Seq(Checks) /\ Len(cl.clientCommands) \in Nat
           /\ m.clientCommands <= Len(cl.clientCommands)
           /\ sv.lastClientCommand <= Len(cl.clientCommands)
           /\ \A j \in 1..Len(cl.clientCommands) :
                 /\ cl.clientCommands[j].serverId \in Nat
                 /\ cl.clientCommands[j].checksumFeed \in Nat
  <1>1. /\ sv.restartedServerId \in Nat /\ sv.serverId \in Nat /\ sv.lastClientCommand \in Nat
        /\ cl.checksumFeed \in Nat /\ cl.clientCommands \in Seq(Checks)
        /\ sv.systeminfo.sv_serverid \in Nat
    BY GamestateAssumption DEF Inv, Typed, Servers, Clients, Ids, SystemInfos
  <1>2. /\ m.serverId \in Nat /\ m.checksumFeed \in Nat /\ m.clientCommands \in Nat
        /\ m.messageAcknowledge \in Nat
    BY GamestateAssumption DEF Written, ToServer, Ids
  <1>3. \A j \in 1..Len(cl.clientCommands) :
           /\ cl.clientCommands[j].serverId \in Nat
           /\ cl.clientCommands[j].checksumFeed \in Nat
    <2> SUFFICES ASSUME NEW j \in 1..Len(cl.clientCommands)
                 PROVE  /\ cl.clientCommands[j].serverId \in Nat
                        /\ cl.clientCommands[j].checksumFeed \in Nat
      OBVIOUS
    <2>1. cl.clientCommands[j] \in Checks
      BY <1>1
    <2> QED
      BY <2>1, GamestateAssumption DEF Checks, Ids
  <1>4. sv.restartedServerId <= sv.serverId
    BY <1>1 DEF Inv, World, ServerInv
  <1> QED
    BY <1>1, <1>2, <1>3, <1>4 DEF Inv, World, ClientInv, Written, WrittenInv

\* A message with an id of the level that runs is from a client with its gamestate.
LEMMA OfTheLevel ==
    ASSUME Inv, NEW m, Written(m), m.serverId >= sv.restartedServerId, Fine(sv, history)
    PROVE  /\ m.checksumFeed = sv.restartedServerId /\ cl.checksumFeed = sv.restartedServerId
           /\ sv.state # "connected"
  <1>1. m.checksumFeed = sv.restartedServerId
    BY DEF Written, WrittenInv, HasLevel
  <1>2. cl.checksumFeed = sv.restartedServerId
    BY <1>1, Numbers
  <1>3. sv.state # "connected"
    BY <1>2, Numbers DEF Inv, World, ClientInv
  <1> QED
    BY <1>1, <1>2, <1>3

\* The files of a client that moves have been checked for this level.
LEMMA MoveChecked ==
    ASSUME Inv, NEW m, Written(m), m.move, m.serverId = sv.serverId, Fine(sv, history),
           ~history.stale, sv_pure, sv.state \in {"primed", "active"},
           NEW u, NEW k \in Nat, m.clientCommands <= k, Ran(sv, u, cl.clientCommands, k, FALSE),
           u.state # "zombie"
    PROVE  u.gotCP
  <1> DEFINE j == m.clientCommands
             cp == cl.clientCommands[j]
  <1>1. j \in 1..Len(cl.clientCommands) /\ j \in 1..k /\ j \in Int /\ sv.lastClientCommand \in Int
    <2>1. j > 0
      BY DEF Written, WrittenInv
    <2> QED
      BY <2>1, Numbers
  <1>2. cp.checksumFeed = sv.restartedServerId
    <2>1. m.checksumFeed = sv.restartedServerId
      BY Numbers, OfTheLevel
    <2> QED
      BY <2>1 DEF Written, WrittenInv
  <1>3. cp.serverId >= sv.restartedServerId
    <2>1. cp.checksumFeed <= cp.serverId
      BY <1>1 DEF Inv, World, FreshInv
    <2> QED
      BY <1>1, <1>2, <2>1, Numbers
  <1>4. CASE j > sv.lastClientCommand
    BY <1>1, <1>3, <1>4 DEF Ran
  <1>5. CASE ~(j > sv.lastClientCommand)
    <2>1. j \in 1..sv.lastClientCommand
      BY <1>1, <1>5
    <2>2. sv.gotCP
      BY <1>2, <2>1 DEF Inv, CheckInv
    <2> QED
      BY <2>2 DEF Ran
  <1> QED
    BY <1>4, <1>5

\* What a message to the server leaves of the invariant.
Kept(t, g) ==
    /\ t \in Servers /\ CheckInv(t, cl, g)
    /\ toClient \o GamestatesSent(sv, t) \in Seq(ToClient)
    /\ World(t, cl, commands, g, toClient \o GamestatesSent(sv, t), toServer)
    /\ t.gamestateMessageNum # sv.gamestateMessageNum /\ ~history.stale =>
          cl.checksumFeed # sv.restartedServerId

\* An earlier level's commands are not executed, and of that level are their checks.
LEMMA EarlierChecks ==
    ASSUME Inv, NEW m, Written(m), m.serverId < sv.restartedServerId, ~history.stale
    PROVE  \A j \in 1..m.clientCommands :
              cl.clientCommands[j].checksumFeed # sv.restartedServerId
  <1> SUFFICES ASSUME NEW j \in 1..m.clientCommands
               PROVE  cl.clientCommands[j].checksumFeed # sv.restartedServerId
    OBVIOUS
  <1>1. j \in 1..Len(cl.clientCommands)
    BY Numbers
  <1>2. cl.clientCommands[j].checksumFeed <= m.serverId
    BY DEF Written, WrittenInv
  <1> QED
    BY <1>1, <1>2, Numbers

\* A message of an earlier level: its commands count as executed and are not.
LEMMA EarlierLevel ==
    ASSUME Inv, sv.state # "zombie", NEW m, Written(m), NEW g \in Histories,
           SameFlags(history, g), NEW t, NEW u, NEW k, OfEarlierLevel(sv, t, m, u, k)
    PROVE  Kept(t, g)
  <1>1. /\ sv \in Servers /\ cl \in Clients /\ commands \in Seq(SystemInfos)
        /\ history \in Histories /\ toClient \in Seq(ToClient) /\ toServer \in Seq(ToServer)
        /\ World(sv, cl, commands, history, toClient, toServer)
    BY DEF Inv, Typed
  <1>2. /\ k \in Nat /\ k <= Len(cl.clientCommands)
        /\ k = m.clientCommands \/ k = sv.lastClientCommand
    BY Numbers DEF OfEarlierLevel
  <1>3. /\ t \in Servers /\ Ran(u, t, cl.clientCommands, k, TRUE)
        /\ SameLevel(u, t) /\ SameSent(u, t) /\ t.state = u.state
        /\ t.gotCP = u.gotCP /\ t.pureAuthentic = u.pureAuthentic
        /\ u.lastClientCommand <= t.lastClientCommand /\ t.lastClientCommand <= k
    BY Zenon DEF OfEarlierLevel, Ran
  <1>4. t.lastClientCommand \in Nat /\ t.lastClientCommand <= Len(cl.clientCommands)
    BY <1>1, <1>2, <1>3 DEF Servers
  <1>5. m.serverId < sv.restartedServerId
    BY DEF OfEarlierLevel
  <1>6. Onward(u, t)
    BY <1>3 DEF Onward
  <1>7. ~g.stale => ~history.stale
    BY Zenon DEF SameFlags
  <1>8. CASE u = sv
    <2>1. Fine(t, g) => Fine(sv, history)
      BY <1>6, <1>8, FineBefore
    <2>2. World(t, cl, commands, g, toClient, toServer)
      <3>1. Fine(t, g) /\ t.state = "active" => cl.checksumFeed = t.restartedServerId
        BY <1>3, <1>8, <2>1 DEF Inv, World, LevelInv, SameLevel
      <3> QED
        BY <1>1, <1>3, <1>4, <1>6, <1>8, <3>1, Quiet
    <2>3. toClient \o GamestatesSent(sv, t) = toClient
      BY <1>1, <1>3, <1>8, NoneSent
    <2>4. CheckInv(t, cl, g)
      <3>1. t.gotCP /\ t.state # "zombie" => t.pureAuthentic
        BY <1>3, <1>8, Zenon DEF Inv, CheckInv
      <3>2. ASSUME sv_pure, ~g.stale, Fine(t, g), t.state \in {"primed", "active"},
                   NEW j \in 1..t.lastClientCommand,
                   cl.clientCommands[j].checksumFeed = t.restartedServerId
            PROVE  t.gotCP
        <4>1. cl.clientCommands[j].checksumFeed = sv.restartedServerId
          BY <1>3, <1>8, <3>2 DEF SameLevel
        <4>2. ~(j \in 1..m.clientCommands)
          BY <1>5, <1>7, <3>2, <4>1, EarlierChecks
        <4>3. j \in 1..sv.lastClientCommand
          BY <1>2, <1>3, <1>4, <4>2, Numbers
        <4>4. sv.gotCP
          BY <1>3, <1>7, <1>8, <2>1, <3>2, <4>1, <4>3, Zenon DEF Inv, CheckInv
        <4> QED
          BY <1>3, <1>8, <4>4, Zenon
      <3>3. g.stale \/ g.early \/ t.state # "zombie"
        BY <1>3, <1>8, Zenon
      <3> QED
        BY <3>1, <3>2, <3>3, Zenon DEF CheckInv
    <2>5. t.gamestateMessageNum = sv.gamestateMessageNum
      BY <1>3, <1>8 DEF SameSent
    <2> QED
      BY <1>1, <1>3, <2>2, <2>3, <2>4, <2>5 DEF Kept
  <1>9. CASE DroppedGamestate(sv, m) /\ Resent(sv, u)
    <2>1. sv.state \in {"connected", "primed"}
      BY <1>1, <1>9 DEF DroppedGamestate, Servers, ServerStates
    <2>2. ~history.stale => cl.checksumFeed # sv.restartedServerId
      <3>1. CASE sv.state = "connected"
        BY <3>1, Numbers DEF Inv, World, ClientInv
      <3>2. CASE sv.state = "primed"
        BY <1>5, <1>9, <3>2 DEF DroppedGamestate, Written, WrittenInv
      <3> QED
        BY <2>1, <3>1, <3>2
    <2> DEFINE w == [number |-> u.gamestateMessageNum, commands |-> Len(commands),
                     body |-> GamestateOf(u)]
    <2>3. Append(toClient, w) \in Seq(ToClient)
          /\ World(u, cl, commands, g, Append(toClient, w), toServer)
      BY <1>1, <1>9, <2>1, PutGamestate
    <2>4. u \in Servers /\ u.state = "primed" /\ ~u.gotCP
          /\ u.restartedServerId = sv.restartedServerId
      BY <1>9 DEF Resent, SameLevel
    <2>5. w \in ToClient
      BY <2>3
    <2>6. toClient \o GamestatesSent(sv, t) = Append(toClient, w)
      <3>1. sv.gamestateMessageNum < sv.outgoingSequence
        BY DEF Inv, World, ServerInv
      <3> QED
        BY <1>1, <1>3, <1>9, <2>5, <3>1, OneSent
    <2> HIDE DEF w
    <2>7. World(t, cl, commands, g, Append(toClient, w), toServer)
      <3>1. t.state # "active" /\ SameFlags(g, g)
        BY <1>3, <2>4 DEF SameFlags
      <3> QED
        BY <1>1, <1>3, <1>4, <1>6, <2>3, <2>4, <3>1, Quiet
    <2>8. CheckInv(t, cl, g)
      <3>1. ~t.gotCP /\ t.state # "zombie"
        BY <1>3, <2>4, Zenon
      <3>2. ASSUME ~g.stale, NEW j \in 1..t.lastClientCommand
            PROVE  cl.clientCommands[j].checksumFeed # t.restartedServerId
        <4>1. j \in 1..Len(cl.clientCommands)
          BY <1>4
        <4>2. cl.checksumFeed < sv.restartedServerId
          BY <1>7, <2>2, <3>2, Numbers
        <4>3. cl.clientCommands[j].checksumFeed <= cl.checksumFeed
          BY <4>1 DEF Inv, World, ClientInv
        <4> QED
          BY <1>3, <2>4, <4>1, <4>2, <4>3, Numbers DEF SameLevel
      <3> QED
        BY <3>1, <3>2, Zenon DEF CheckInv
    <2> QED
      BY <1>1, <1>3, <2>2, <2>3, <2>6, <2>7, <2>8 DEF Kept
  <1> QED
    BY <1>8, <1>9 DEF OfEarlierLevel

\* A message with the server's id: its commands, its checks and its move.
LEMMA ThisLevel ==
    ASSUME Inv, sv.state # "zombie", NEW m, Written(m), NEW g \in Histories,
           SameFlags(history, g), NEW t, NEW u, NEW k, OfThisLevel(sv, t, m, u, k)
    PROVE  Kept(t, g)
  <1>1. /\ sv \in Servers /\ cl \in Clients /\ commands \in Seq(SystemInfos)
        /\ history \in Histories /\ toClient \in Seq(ToClient) /\ toServer \in Seq(ToServer)
        /\ World(sv, cl, commands, history, toClient, toServer)
    BY DEF Inv, Typed
  <1>2. /\ k \in Nat /\ k <= Len(cl.clientCommands) /\ m.clientCommands <= k
        /\ m.serverId = sv.serverId /\ m.serverId >= sv.restartedServerId
    BY Numbers DEF OfThisLevel
  <1>3. /\ Ran(sv, u, cl.clientCommands, k, FALSE)
        /\ u \in Servers /\ SameLevel(sv, u) /\ SameSent(sv, u)
        /\ u.state = sv.state \/ u.state = "zombie"
        /\ sv.lastClientCommand <= u.lastClientCommand /\ u.lastClientCommand <= k
    BY Zenon DEF OfThisLevel, Ran
  <1>4. u.lastClientCommand \in Nat /\ u.lastClientCommand <= Len(cl.clientCommands)
    BY <1>1, <1>2, <1>3 DEF Servers
  <1>5. Onward(sv, u)
    BY <1>3 DEF Onward
  <1>6. /\ ~g.stale => ~history.stale
        /\ ~g.early => ~history.early
    BY Zenon DEF SameFlags
  <1>7. Fine(sv, history) => /\ cl.checksumFeed = sv.restartedServerId
                             /\ sv.state \in {"primed", "active"}
    BY <1>1, <1>2, OfTheLevel DEF Servers, ServerStates
  <1>8. sv.state \in {"primed", "active"}
    BY <1>1, <1>7 DEF Servers, ServerStates, Fine
  <1>9. Fine(u, g) => Fine(sv, history)
    BY <1>5, FineBefore
  <1>10. World(u, cl, commands, g, toClient, toServer)
    <2>1. Fine(u, g) /\ u.state = "active" => cl.checksumFeed = u.restartedServerId
      BY <1>3, <1>7, <1>9 DEF SameLevel
    <2> QED
      BY <1>1, <1>3, <1>4, <1>5, <2>1, Quiet
  <1>11. u.gotCP /\ u.state # "zombie" => u.pureAuthentic
    <2>1. sv.gotCP => sv.pureAuthentic
      BY Zenon DEF Inv, CheckInv
    <2> QED
      BY <1>3, <2>1, Zenon DEF Ran
  <1>12. ASSUME sv_pure, ~g.stale, Fine(sv, history), u.state # "zombie",
                NEW j \in 1..u.lastClientCommand,
                cl.clientCommands[j].checksumFeed = sv.restartedServerId
         PROVE  u.gotCP
    <2>1. j \in 1..Len(cl.clientCommands) /\ j \in 1..k
      BY <1>2, <1>3, <1>4
    <2>2. cl.clientCommands[j].serverId >= sv.restartedServerId
      <3>1. cl.clientCommands[j].checksumFeed <= cl.clientCommands[j].serverId
        BY <1>6, <1>12, <2>1 DEF Inv, World, FreshInv
      <3> QED
        BY <1>12, <2>1, <3>1, Numbers
    <2>3. CASE j > sv.lastClientCommand
      BY <1>3, <1>12, <2>1, <2>2, <2>3 DEF Ran
    <2>4. CASE ~(j > sv.lastClientCommand)
      <3>1. j \in 1..sv.lastClientCommand
        BY <1>1, <2>1, <2>4 DEF Servers
      <3>2. sv.gotCP
        BY <1>6, <1>8, <1>12, <3>1 DEF Inv, CheckInv
      <3> QED
        BY <1>3, <3>2 DEF Ran
    <2> QED
      BY <2>3, <2>4
  <1>13. u.state = "zombie" => g.early
    <2> SUFFICES ASSUME u.state = "zombie", ~g.early
                 PROVE  FALSE
      BY <1>6, Zenon
    <2>1. Fine(sv, history)
      BY <1>6 DEF Fine
    <2>2. PICK j \in 1..k : /\ cl.clientCommands[j].serverId >= sv.restartedServerId
                            /\ cl.clientCommands[j].checksumFeed # sv.restartedServerId
      BY <1>3 DEF Ran
    <2>3. j \in 1..Len(cl.clientCommands)
      BY <1>1, <1>2 DEF Clients
    <2> QED
      BY <2>1, <2>2, <2>3 DEF Inv, World, LevelInv, HasLevel
  <1>14. CASE t = u /\ (~m.move \/ u.state = "zombie")
    <2>1. toClient \o GamestatesSent(sv, t) = toClient
      BY <1>1, <1>3, <1>14, NoneSent
    <2>2. CheckInv(t, cl, g)
      <3>1. ASSUME sv_pure, ~g.stale, Fine(u, g), u.state \in {"primed", "active"},
                   NEW j \in 1..u.lastClientCommand,
                   cl.clientCommands[j].checksumFeed = u.restartedServerId
            PROVE  u.gotCP
        <4>1. Fine(sv, history) /\ u.state # "zombie"
              /\ cl.clientCommands[j].checksumFeed = sv.restartedServerId
          BY <1>3, <1>9, <3>1 DEF SameLevel
        <4> QED
          BY <1>12, <3>1, <4>1
      <3> QED
        BY <1>11, <1>13, <1>14, <3>1, Zenon DEF CheckInv
    <2>3. t.gamestateMessageNum = sv.gamestateMessageNum
      BY <1>3, <1>14 DEF SameSent
    <2> QED
      BY <1>1, <1>3, <1>10, <1>14, <2>1, <2>2, <2>3 DEF Kept
  <1>15. CASE m.move /\ u.state # "zombie" /\ t = SV_UserMove(u)
    <2>1. Moved(u, t)
      BY <1>3, <1>15, UserMoved
    <2>2. ~history.stale /\ sv_pure /\ Fine(sv, history) => u.gotCP
      BY <1>2, <1>3, <1>8, <1>15, MoveChecked
    <2>3. CASE ResendsForCP(u) /\ Resent(u, t)
      <3>1. u.state = "primed" /\ sv_pure /\ ~u.gotCP /\ Fine(sv, history) /\ history.stale
        BY <1>5, <2>2, <2>3, Zenon DEF ResendsForCP, Fine, Onward
      <3> DEFINE w == [number |-> t.gamestateMessageNum, commands |-> Len(commands),
                       body |-> GamestateOf(t)]
      <3>2. Append(toClient, w) \in Seq(ToClient)
            /\ World(t, cl, commands, g, Append(toClient, w), toServer)
        <4>1. SameFlags(g, g)
          BY DEF SameFlags
        <4> QED
          BY <1>1, <1>3, <1>10, <2>3, <3>1, <4>1, PutGamestate
      <3>3. toClient \o GamestatesSent(sv, t) = Append(toClient, w)
        <4>1. /\ t.gamestateMessageNum = sv.outgoingSequence + 1
              /\ sv.gamestateMessageNum < sv.outgoingSequence
          BY <1>3, <2>3 DEF Resent, SameSent, Inv, World, ServerInv
        <4>2. t.gamestateMessageNum # sv.gamestateMessageNum
          BY <1>1, <4>1 DEF Servers
        <4>3. GamestatesSent(sv, t) = <<w>>
          BY <4>2 DEF GamestatesSent, Message
        <4>4. w \in ToClient
          BY <3>2
        <4> QED
          BY <1>1, <4>3, <4>4, AppendOne
      <3> HIDE DEF w
      <3>4. t \in Servers /\ t.state = "primed" /\ ~t.gotCP /\ g.stale
        BY <2>3, <3>1, Zenon DEF Resent, SameFlags
      <3>5. CheckInv(t, cl, g)
        BY <3>4, Zenon DEF CheckInv
      <3> QED
        BY <3>1, <3>2, <3>3, <3>4, <3>5 DEF Kept
    <2>4. CASE /\ ~ResendsForCP(u) /\ t \in Servers
               /\ SameLevel(u, t) /\ SameSent(u, t) /\ SameChecks(u, t)
               /\ \/ t.state = "active" /\ u.state = "primed"
                  \/ t.state = u.state
                  \/ t.state = "zombie" /\ sv_pure /\ ~u.pureAuthentic
      <3>1. Onward(u, t)
        BY <2>4 DEF Onward
      <3>2. Fine(t, g) => Fine(u, g)
        BY <3>1, FineBefore DEF SameFlags
      <3>3. World(t, cl, commands, g, toClient, toServer)
        <4>1. Fine(t, g) /\ t.state = "active" => cl.checksumFeed = t.restartedServerId
          BY <1>3, <1>7, <1>9, <2>4, <3>2 DEF SameLevel
        <4>2. t.lastClientCommand <= Len(cl.clientCommands) /\ SameFlags(g, g)
          BY <1>4, <2>4 DEF SameChecks, SameFlags
        <4> QED
          BY <1>1, <1>3, <1>10, <2>4, <3>1, <4>1, <4>2, Quiet
      <3>4. toClient \o GamestatesSent(sv, t) = toClient /\ t.gamestateMessageNum = sv.gamestateMessageNum
        <4>1. SameSent(sv, t)
          BY <1>3, <2>4 DEF SameSent
        <4> QED
          BY <1>1, <4>1, NoneSent DEF SameSent
      <3>5. t.gotCP /\ t.state # "zombie" => t.pureAuthentic
        BY <1>11, <1>15, <2>4, Zenon DEF SameChecks
      <3>6. ASSUME sv_pure, ~g.stale, Fine(t, g), t.state \in {"primed", "active"},
                   NEW j \in 1..t.lastClientCommand,
                   cl.clientCommands[j].checksumFeed = t.restartedServerId
            PROVE  t.gotCP
        <4>1. u.gotCP
          BY <1>6, <1>9, <2>2, <3>2, <3>6
        <4> QED
          BY <2>4, <4>1, Zenon DEF SameChecks
      <3>7. g.stale \/ g.early \/ t.state # "zombie"
        <4> SUFFICES ASSUME ~g.stale, ~g.early, sv_pure, ~u.pureAuthentic
                     PROVE  FALSE
          BY <1>15, <2>4, Zenon
        <4>1. Fine(sv, history)
          BY <1>6 DEF Fine
        <4>2. u.gotCP
          BY <1>6, <2>2, <4>1
        <4> QED
          BY <1>11, <1>15, <4>2, Zenon
      <3>8. CheckInv(t, cl, g)
        BY <3>5, <3>6, <3>7, Zenon DEF CheckInv
      <3> QED
        BY <1>1, <2>4, <3>3, <3>4, <3>8 DEF Kept
    <2> QED
      BY <2>1, <2>3, <2>4 DEF Moved
  <1> QED
    BY <1>14, <1>15 DEF OfThisLevel

\* The oldest message under way.
LEMMA WrittenHead ==
    ASSUME Inv, toServer # <<>>
    PROVE  Written(Head(toServer))
  <1>1. Head(toServer) = toServer[1] /\ 1 \in 1..Len(toServer) /\ Head(toServer) \in ToServer
    BY DEF Inv, Typed
  <1> QED
    BY <1>1 DEF Written, Inv, World, Messages

\* The one handler with many outcomes: a message comes to the server.
LEMMA PacketKeeps ==
    ASSUME Inv, SV_PacketEvent
    PROVE  /\ Inv'
           /\ sv'.gamestateMessageNum # sv.gamestateMessageNum /\ ~history.stale =>
                 cl.checksumFeed # sv.restartedServerId
  <1> DEFINE m == Head(toServer)
             t == SV_ExecuteClientMessage(sv, m)
             think == sv.state # "zombie" /\ Thinks(sv, m)
             g == [history EXCEPT !.thought =
                      [feed |-> m.checksumFeed, level |-> sv.restartedServerId]]
  <1>1. /\ toServer # <<>> /\ toServer' = Tail(toServer)
        /\ sv' = IF sv.state = "zombie" THEN sv ELSE t
        /\ toClient' = toClient \o GamestatesSent(sv, sv')
        /\ history' = IF think THEN g ELSE history
        /\ cl' = cl /\ commands' = commands
    BY DEF SV_PacketEvent
  <1>2. Written(m)
    BY <1>1, WrittenHead
  <1>3. /\ sv \in Servers /\ cl \in Clients /\ commands \in Seq(SystemInfos)
        /\ history \in Histories /\ toClient \in Seq(ToClient) /\ toServer \in Seq(ToServer)
        /\ World(sv, cl, commands, history, toClient, toServer)
    BY DEF Inv, Typed
  <1>4. g \in Histories /\ SameFlags(history, g)
    <2>1. m.checksumFeed \in Ids /\ sv.restartedServerId \in Ids
      BY <1>2, <1>3 DEF Written, ToServer, Servers
    <2> HIDE DEF m
    <2> QED
      BY <1>3, <2>1 DEF Histories, SameFlags
  <1>5. history' \in Histories /\ SameFlags(history, history')
    <2>1. history \in Histories /\ SameFlags(history, history)
      BY <1>3 DEF SameFlags
    <2> HIDE DEF g, think
    <2>2. CASE think
      BY <1>1, <1>4, <2>2
    <2>3. CASE ~think
      <3>1. history' = history
        BY <1>1, <2>3
      <3> QED
        BY <2>1, <3>1
    <2> QED
      BY <2>2, <2>3
  <1>6. PlaysThisLevelUnlessEarly'
    <2> SUFFICES ASSUME ~history.early
                 PROVE  (history.thought.feed = history.thought.level)'
      BY <1>5, Zenon DEF PlaysThisLevelUnlessEarly, PlaysThisLevel, SameFlags
    <2>1. CASE think
      <3>1. m.serverId = sv.serverId
        BY <2>1 DEF Thinks
      <3>2. m.checksumFeed = sv.restartedServerId
        <4>1. Fine(sv, history) /\ m.serverId >= sv.restartedServerId
          BY <1>2, <3>1, Numbers DEF Fine
        <4> HIDE DEF m
        <4> QED
          BY <1>2, <4>1, OfTheLevel
      <3> HIDE DEF m, think
      <3>3. history'.thought = [feed |-> m.checksumFeed, level |-> sv.restartedServerId]
        BY <1>1, <1>3, <2>1 DEF Histories
      <3> QED
        BY <3>2, <3>3
    <2>2. CASE ~think
      <3> HIDE DEF think, g
      <3>1. history' = history
        BY <1>1, <2>2
      <3> QED
        BY <3>1 DEF Inv, PlaysThisLevelUnlessEarly, PlaysThisLevel
    <2> QED
      BY <2>1, <2>2
  <1>7. Kept(sv', history')
    <2> HIDE DEF g, think
    <2>1. CASE sv.state = "zombie"
      <3>1. sv' = sv /\ SameSent(sv, sv)
        BY <1>1, <2>1 DEF SameSent
      <3>2. toClient \o GamestatesSent(sv, sv') = toClient
        BY <1>3, <3>1, NoneSent
      <3>3. CheckInv(sv, cl, history')
        BY <1>5, <2>1, Zenon DEF Inv, CheckInv, SameFlags
      <3>4. World(sv, cl, commands, history', toClient, toServer)
        <4>1. /\ SameLevel(sv, sv) /\ Onward(sv, sv)
              /\ sv.lastClientCommand <= Len(cl.clientCommands)
              /\ ~(sv.state = "active")
          BY <1>2, <2>1, Numbers DEF SameLevel, Onward
        <4> HIDE DEF m
        <4> QED
          BY <1>3, <1>5, <3>1, <4>1, Quiet
      <3> QED
        BY <1>3, <3>1, <3>2, <3>3, <3>4 DEF Kept
    <2>2. CASE sv.state # "zombie"
      <3>1. sv' = t
        BY <1>1, <2>2
      <3>2. \/ t = sv /\ m.serverId # sv.serverId
            \/ \E u, k : OfEarlierLevel(sv, t, m, u, k)
            \/ \E u, k : OfThisLevel(sv, t, m, u, k)
        <4>1. m \in ToServer
          BY <1>2 DEF Written
        <4> HIDE DEF m
        <4> QED
          BY <1>2, <1>3, <2>2, <4>1, Numbers, MessageExecuted
      <3> HIDE DEF t, m
      <3>3. CASE t = sv
        <4>1. SameSent(sv, sv) /\ SameLevel(sv, sv) /\ Onward(sv, sv) /\ SameChecks(sv, sv)
              /\ sv.lastClientCommand <= Len(cl.clientCommands)
          BY <1>2, Numbers DEF SameSent, SameLevel, Onward, SameChecks
        <4>2. toClient \o GamestatesSent(sv, sv) = toClient
          BY <1>3, <4>1, NoneSent
        <4>3. Fine(sv, history') => Fine(sv, history)
          BY <1>5, <4>1, FineBefore
        <4>4. Fine(sv, history') /\ sv.state = "active" => cl.checksumFeed = sv.restartedServerId
          BY <4>3 DEF Inv, World, LevelInv
        <4>5. World(sv, cl, commands, history', toClient, toServer)
          BY <1>3, <1>5, <4>1, <4>4, Quiet
        <4>6. CheckInv(sv, cl, history')
          BY <1>5, <4>3, Zenon DEF Inv, CheckInv, SameFlags
        <4> QED
          BY <1>3, <3>1, <3>3, <4>2, <4>5, <4>6 DEF Kept
      <3>4. ASSUME NEW u, NEW k, OfEarlierLevel(sv, t, m, u, k)
            PROVE  Kept(t, history')
        BY <1>2, <1>5, <2>2, <3>4, EarlierLevel
      <3>5. ASSUME NEW u, NEW k, OfThisLevel(sv, t, m, u, k)
            PROVE  Kept(t, history')
        BY <1>2, <1>5, <2>2, <3>5, ThisLevel
      <3> QED
        BY <3>1, <3>2, <3>3, <3>4, <3>5
    <2> QED
      BY <2>1, <2>2
  <1> HIDE DEF m, t, g, think
  <1>8. /\ sv' \in Servers /\ CheckInv(sv', cl', history')
        /\ toClient' \in Seq(ToClient)
        /\ World(sv', cl', commands', history', toClient', toServer)
    BY <1>1, <1>7 DEF Kept
  <1>9. toServer' \in Seq(ToServer) /\ World(sv', cl', commands', history', toClient', toServer')
    BY <1>1, <1>3, <1>8, Taken
  <1>10. Inv'
    BY <1>1, <1>3, <1>5, <1>6, <1>8, <1>9 DEF Inv, Typed
  <1> QED
    BY <1>7, <1>10 DEF Kept

-----------------------------------------------------------------------------
(* The server's frame and the console's commands                           *)

\* What every step needs of types and numbers.
LEMMA AllTyped ==
    ASSUME Inv
    PROVE  /\ sv \in Servers /\ cl \in Clients /\ commands \in Seq(SystemInfos)
           /\ history \in Histories /\ toClient \in Seq(ToClient) /\ toServer \in Seq(ToServer)
           /\ World(sv, cl, commands, history, toClient, toServer)
           /\ sv.restartedServerId \in Nat /\ sv.serverId \in Nat
           /\ sv.restartedServerId <= sv.serverId /\ sv.serverId <= MaxServerId
           /\ cl.checksumFeed \in Nat /\ cl.checksumFeed <= sv.restartedServerId
           /\ sv.lastClientCommand \in Nat /\ sv.lastClientCommand <= Len(cl.clientCommands)
  <1>1. /\ sv \in Servers /\ cl \in Clients /\ commands \in Seq(SystemInfos)
        /\ history \in Histories /\ toClient \in Seq(ToClient) /\ toServer \in Seq(ToServer)
        /\ World(sv, cl, commands, history, toClient, toServer)
    BY DEF Inv, Typed
  <1>2. /\ sv.restartedServerId \in Nat /\ sv.serverId \in Nat /\ sv.lastClientCommand \in Nat
        /\ sv.systeminfo.sv_serverid \in Nat /\ cl.checksumFeed \in Nat
        /\ sv.serverId <= MaxServerId
    BY <1>1, GamestateAssumption DEF Servers, Clients, Ids, SystemInfos
  <1> QED
    BY <1>1, <1>2 DEF World, ServerInv, ClientInv

\* A system string that all in the world, or on their way to it, are told.
LEMMA Announced ==
    ASSUME NEW s \in Servers, NEW t \in Servers, NEW c \in Clients, NEW n \in Seq(SystemInfos),
           NEW h \in Histories, NEW tc \in Seq(ToClient), NEW ts \in Seq(ToServer),
           World(s, c, n, h, tc, ts), t = [s EXCEPT !.systeminfo = s.cvars],
           s.state \in {"primed", "active"}
    PROVE  World(t, c, Append(n, s.cvars), h, tc, ts)
  <1> DEFINE q == Append(n, s.cvars)
  <1>1. /\ t.restartedServerId = s.restartedServerId /\ t.serverId = s.serverId
        /\ t.cvars = s.cvars /\ t.systeminfo = s.cvars /\ t.state = s.state
        /\ SameSent(s, t) /\ t.lastClientCommand = s.lastClientCommand
    BY DEF Servers, SameSent
  <1>2. /\ s.cvars.sv_serverid = s.serverId /\ s.serverId \in Nat /\ s.restartedServerId \in Nat
        /\ s.restartedServerId <= s.serverId /\ c.checksumFeed <= s.restartedServerId
        /\ c.checksumFeed \in Nat
    <2>1. /\ s.serverId \in Nat /\ s.restartedServerId \in Nat /\ c.checksumFeed \in Nat
          /\ s.systeminfo.sv_serverid \in Nat
      BY GamestateAssumption DEF Servers, SystemInfos, Ids, Clients
    <2> QED
      BY <2>1 DEF World, ServerInv, ClientInv
  <1>3. /\ q \in Seq(SystemInfos) /\ Len(q) = Len(n) + 1 /\ q[Len(q)] = s.cvars
        /\ \A i \in 1..Len(q) : IF i \in 1..Len(n) THEN q[i] = n[i]
                                ELSE q[i] = s.cvars /\ i = Len(n) + 1
    BY DEF Servers
  <1> HIDE DEF q
  <1>4. Fine(t, h) => Fine(s, h)
    BY <1>1 DEF Fine
  <1>5. ServerInv(t, q)
    <2>1. \A i \in 1..Len(q) : q[i].sv_serverid <= t.serverId
      BY <1>1, <1>2, <1>3 DEF World, ServerInv
    <2>2. t.state # "connected"
      BY <1>1
    <2>3. 1 <= t.restartedServerId /\ t.gamestateMessageNum < t.outgoingSequence
      BY <1>1 DEF World, ServerInv, SameSent
    <2> QED
      BY <1>1, <1>2, <1>3, <2>1, <2>2, <2>3 DEF ServerInv
  <1>6. ClientInv(t, c, q)
    BY <1>1, <1>3 DEF World, ClientInv, SameSent, Clients
  <1>7. LevelInv(t, c, q, h)
    <2>1. \A i \in 1..Len(q) : i < c.snap => i \in 1..Len(n) /\ q[i] = n[i]
      BY <1>3 DEF World, ClientInv, Clients
    <2> QED
      BY <1>1, <1>4, <2>1 DEF World, LevelInv, HasLevel
  <1>8. FreshInv(t, c, q, h)
    <2>1. LastString(c, q) = t.systeminfo
      BY <1>1, <1>3 DEF World, ClientInv, LastString, Clients
    <2>2. ~h.stale => \A i \in 1..Len(q) :
             i > c.lastExecutedServerCommand => c.checksumFeed <= q[i].sv_serverid
      BY <1>2, <1>3 DEF World, FreshInv
    <2> QED
      BY <2>1, <2>2 DEF World, FreshInv
  <1>9. ASSUME NEW i \in 1..Len(tc)
        PROVE  /\ Carried(t, c, q, tc[i]) /\ SnapshotInv(t, c, q, h, tc[i])
               /\ GamestateInv(t, c, q, tc[i])
    <2>1. Carried(s, c, n, tc[i]) /\ SnapshotInv(s, c, n, h, tc[i]) /\ GamestateInv(s, c, n, tc[i])
      BY DEF World, Messages
    <2>2. tc[i] \in ToClient
      OBVIOUS
    <2>3. tc[i].commands \in Nat
      BY <2>2 DEF ToClient
    <2>4. Carried(t, c, q, tc[i])
      BY <1>1, <1>3, <2>1, <2>3 DEF Carried, SameSent
    <2>5. SnapshotInv(t, c, q, h, tc[i])
      <3>1. \A j \in 1..Len(q) : j <= tc[i].commands => j \in 1..Len(n) /\ q[j] = n[j]
        BY <1>3, <2>1, <2>3 DEF Carried
      <3> QED
        BY <1>1, <1>4, <2>1, <3>1 DEF SnapshotInv, HasLevel
    <2>6. GamestateInv(t, c, q, tc[i])
      <3> SUFFICES ASSUME tc[i].body.type = "gamestate"
                   PROVE  GamestateInv(t, c, q, tc[i])
        BY DEF GamestateInv
      <3>1. tc[i].body \in Gamestates
        BY <2>2 DEF ToClient, None, Snap
      <3>2. tc[i].body.checksumFeed \in Int
        BY <3>1 DEF Gamestates, Ids
      <3>3. \A j \in 1..Len(q) : j > tc[i].commands => tc[i].body.checksumFeed <= q[j].sv_serverid
        BY <1>2, <1>3, <2>1, <3>2, SMTT(30) DEF GamestateInv
      <3>4. Len(q) > tc[i].commands
        BY <1>3, <2>1, <2>3 DEF Carried
      <3> QED
        BY <1>1, <1>3, <2>1, <3>3, <3>4 DEF GamestateInv, HasLevel, SameSent
    <2> QED
      BY <2>4, <2>5, <2>6
  <1>10. ASSUME NEW i \in 1..Len(ts)
         PROVE  WrittenInv(t, c, h, ts[i])
    <2>1. WrittenInv(s, c, h, ts[i])
      BY DEF World, Messages
    <2> QED
      BY <1>1, <1>4, <2>1 DEF WrittenInv, HasLevel, SameSent
  <1>11. World(t, c, q, h, tc, ts)
    BY <1>5, <1>6, <1>7, <1>8, <1>9, <1>10 DEF World, Messages
  <1> QED
    BY <1>11 DEF q

\* The string of a client who has no gamestate of the level: it gets the new one with it.
LEMMA Unannounced ==
    ASSUME NEW s \in Servers, NEW t \in Servers, NEW c \in Clients, NEW n \in Seq(SystemInfos),
           NEW h \in Histories, NEW tc \in Seq(ToClient), NEW ts \in Seq(ToServer),
           World(s, c, n, h, tc, ts), t = [s EXCEPT !.systeminfo = s.cvars],
           s.state = "connected"
    PROVE  World(t, c, n, h, tc, ts)
  <1>1. /\ t.restartedServerId = s.restartedServerId /\ t.serverId = s.serverId
        /\ t.cvars = s.cvars /\ t.systeminfo = s.cvars /\ t.state = "connected"
        /\ SameSent(s, t) /\ t.lastClientCommand = s.lastClientCommand
    BY DEF Servers, SameSent
  <1>2. /\ s.cvars.sv_serverid = s.serverId /\ s.serverId \in Nat /\ s.restartedServerId \in Nat
        /\ s.restartedServerId <= s.serverId /\ c.checksumFeed < s.restartedServerId
        /\ c.checksumFeed \in Nat
    <2>1. /\ s.serverId \in Nat /\ s.restartedServerId \in Nat /\ c.checksumFeed \in Nat
          /\ s.systeminfo.sv_serverid \in Nat
      BY GamestateAssumption DEF Servers, SystemInfos, Ids, Clients
    <2> QED
      BY <2>1 DEF World, ServerInv, ClientInv
  <1>3. Fine(t, h) => Fine(s, h)
    BY <1>1 DEF Fine
  <1>4. ServerInv(t, n)
    <2>1. ~(Len(n) > 0 /\ n[Len(n)].sv_serverid >= t.restartedServerId)
      <3> SUFFICES ASSUME Len(n) > 0 PROVE n[Len(n)].sv_serverid < t.restartedServerId
        <4>1. Len(n) > 0 => n[Len(n)] \in SystemInfos
          OBVIOUS
        <4>2. Len(n) > 0 => n[Len(n)].sv_serverid \in Int
          BY <4>1 DEF SystemInfos, Ids
        <4> QED
          BY <1>1, <1>2, <4>2
      <3>1. Len(n) \in 1..Len(n)
        OBVIOUS
      <3> QED
        BY <1>1, <3>1 DEF World, ServerInv
    <2> QED
      BY <1>1, <1>2, <2>1 DEF World, ServerInv, SameSent
  <1>5. ClientInv(t, c, n)
    BY <1>1 DEF World, ClientInv, SameSent
  <1>6. LevelInv(t, c, n, h)
    BY <1>1, <1>3 DEF World, LevelInv, HasLevel
  <1>7. FreshInv(t, c, n, h)
    BY <1>1, <1>2 DEF World, FreshInv
  <1>8. ASSUME NEW i \in 1..Len(tc)
        PROVE  /\ Carried(t, c, n, tc[i]) /\ SnapshotInv(t, c, n, h, tc[i])
               /\ GamestateInv(t, c, n, tc[i])
    <2>1. Carried(s, c, n, tc[i]) /\ SnapshotInv(s, c, n, h, tc[i]) /\ GamestateInv(s, c, n, tc[i])
      BY DEF World, Messages
    <2>2. Carried(t, c, n, tc[i])
      BY <1>1, <2>1 DEF Carried, SameSent
    <2>3. SnapshotInv(t, c, n, h, tc[i])
      BY <1>1, <1>3, <2>1 DEF SnapshotInv, HasLevel
    <2>4. tc[i].body.type = "gamestate" => tc[i].body.checksumFeed # t.restartedServerId
      BY <1>1, <1>2, <2>1 DEF GamestateInv
    <2>5. GamestateInv(t, c, n, tc[i])
      BY <1>1, <2>1, <2>4 DEF GamestateInv, HasLevel, SameSent
    <2> QED
      BY <2>2, <2>3, <2>5
  <1>9. ASSUME NEW i \in 1..Len(ts)
         PROVE  WrittenInv(t, c, h, ts[i])
    <2>1. WrittenInv(s, c, h, ts[i])
      BY DEF World, Messages
    <2> QED
      BY <1>1, <1>3, <2>1 DEF WrittenInv, HasLevel, SameSent
  <1> QED
    BY <1>4, <1>5, <1>6, <1>7, <1>8, <1>9 DEF World, Messages

\* The frame tells of a changed string, or not yet, and sends a message.
LEMMA FrameKeeps ==
    ASSUME Inv, SV_Frame
    PROVE  Inv' /\ sv'.gamestateMessageNum = sv.gamestateMessageNum
  <1> DEFINE changed == sv.cvars # sv.systeminfo
             t == [sv EXCEPT !.systeminfo = sv.cvars]
             m == [ClientSnapshot(sv) EXCEPT !.commands = Len(commands')]
  <1>1. /\ sv.state # "zombie" /\ sv' = t
        /\ commands' = IF changed /\ Told(sv) THEN Append(commands, sv.cvars) ELSE commands
        /\ toClient' = toClient \/ toClient' = Append(toClient, m)
        /\ cl' = cl /\ toServer' = toServer /\ history' = history
    BY DEF SV_Frame
  <1>2. t \in Servers
    BY AllTyped DEF Servers
  <1>3. /\ t.state = sv.state /\ t.outgoingSequence = sv.outgoingSequence
        /\ t.gamestateMessageNum = sv.gamestateMessageNum
        /\ t.restartedServerId = sv.restartedServerId
        /\ t.gotCP = sv.gotCP /\ t.pureAuthentic = sv.pureAuthentic
        /\ t.lastClientCommand = sv.lastClientCommand
    BY AllTyped DEF Servers
  <1>4. sv.state \in {"connected", "primed", "active"}
    BY <1>1, AllTyped DEF Servers, ServerStates
  <1>5. Told(sv) <=> sv.state # "connected"
    BY <1>4 DEF Told, Rank
  <1>6. commands' \in Seq(SystemInfos)
        /\ World(t, cl, commands', history, toClient, toServer)
    <2>1. CASE changed /\ Told(sv)
      <3>1. commands' = Append(commands, sv.cvars) /\ sv.cvars \in SystemInfos
        BY <1>1, <2>1, AllTyped DEF Servers
      <3>2. commands' \in Seq(SystemInfos)
        BY <3>1, AllTyped
      <3>3. World(t, cl, Append(commands, sv.cvars), history, toClient, toServer)
        BY <1>2, <1>4, <1>5, <2>1, AllTyped, Announced
      <3> QED
        BY <3>1, <3>2, <3>3
    <2>2. CASE changed /\ ~Told(sv)
      <3>1. commands' = commands
        BY <1>1, <2>2
      <3>2. World(t, cl, commands, history, toClient, toServer)
        BY <1>2, <1>5, <2>2, AllTyped, Unannounced
      <3> QED
        BY <3>1, <3>2, AllTyped
    <2>3. CASE ~changed
      <3>1. commands' = commands
        BY <1>1, <2>3
      <3>2. t = sv
        BY <2>3, AllTyped DEF Servers
      <3> QED
        BY <3>1, <3>2, AllTyped
    <2> QED
      BY <2>1, <2>2, <2>3
  <1>7. toClient' \in Seq(ToClient) /\ World(t, cl, commands', history, toClient', toServer)
    <2>1. CASE toClient' = toClient
      BY <1>6, <2>1, AllTyped
    <2>2. CASE toClient' = Append(toClient, m)
      <3> DEFINE body == IF sv.state = "active" THEN Snap ELSE None
      <3>1. m = [number |-> sv.outgoingSequence, commands |-> Len(commands'), body |-> body]
        BY DEF ClientSnapshot, Message
      <3>2. body \in {None, Snap} /\ (body = Snap => sv.state = "active")
        BY DEF None, Snap
      <3> HIDE DEF body, m, t
      <3> QED
        BY <1>2, <1>3, <1>6, <2>2, <3>1, <3>2, AllTyped, PutPlain
    <2> QED
      BY <1>1, <2>1, <2>2
  <1> HIDE DEF t
  <1>8. CheckInv(t, cl, history)
    <2>1. Fine(t, history) => Fine(sv, history)
      BY <1>3 DEF Fine
    <2> QED
      BY <1>3, <2>1, Zenon DEF Inv, CheckInv
  <1>9. Inv'
    <2>1. PlaysThisLevelUnlessEarly'
      BY <1>1 DEF Inv, PlaysThisLevelUnlessEarly, PlaysThisLevel
    <2> QED
      BY <1>1, <1>2, <1>6, <1>7, <1>8, <2>1, AllTyped DEF Inv, Typed
  <1> QED
    BY <1>1, <1>3, <1>9

\* A variable is not in the string until the frame puts it there.
LEMMA CvarKeeps ==
    ASSUME Inv, Cvar_Set
    PROVE  Inv' /\ sv'.gamestateMessageNum = sv.gamestateMessageNum
  <1> DEFINE v == [sv.cvars EXCEPT !.rest = @ + 1]
             t == [sv EXCEPT !.cvars = v]
  <1>1. /\ sv' = t /\ sv.cvars.rest < MaxChanges
        /\ cl' = cl /\ commands' = commands /\ toClient' = toClient
        /\ toServer' = toServer /\ history' = history
    BY DEF Cvar_Set
  <1>2. v \in SystemInfos /\ v.sv_serverid = sv.cvars.sv_serverid
    <2>1. sv.cvars \in SystemInfos
      BY AllTyped DEF Servers
    <2>2. sv.cvars.rest + 1 \in 0..MaxChanges
      BY <1>1, <2>1, GamestateAssumption DEF SystemInfos
    <2> QED
      BY <2>1, <2>2 DEF SystemInfos
  <1> HIDE DEF v
  <1>3. t \in Servers
    BY <1>2, AllTyped DEF Servers
  <1>4. /\ t.state = sv.state /\ SameSent(sv, t) /\ SameChecks(sv, t) /\ t.cvars = v
        /\ t.serverId = sv.serverId /\ t.restartedServerId = sv.restartedServerId
        /\ t.systeminfo = sv.systeminfo
    BY AllTyped DEF Servers, SameSent, SameChecks
  <1> HIDE DEF t
  <1>5. SameLevel(sv, t) /\ Onward(sv, t) /\ SameFlags(history, history)
    BY <1>2, <1>4 DEF SameLevel, Onward, SameFlags
  <1>6. Fine(t, history) => Fine(sv, history)
    BY <1>5, FineBefore
  <1>7. World(t, cl, commands, history, toClient, toServer)
    <2>1. Fine(t, history) /\ t.state = "active" => cl.checksumFeed = t.restartedServerId
      BY <1>4, <1>6, AllTyped DEF World, LevelInv
    <2>2. t.lastClientCommand <= Len(cl.clientCommands)
      BY <1>4, AllTyped DEF SameChecks
    <2> QED
      BY <1>3, <1>4, <1>5, <2>1, <2>2, AllTyped, Quiet
  <1>8. CheckInv(t, cl, history)
    BY <1>4, <1>6, Zenon DEF Inv, CheckInv, SameChecks
  <1>9. PlaysThisLevelUnlessEarly'
    BY <1>1 DEF Inv, PlaysThisLevelUnlessEarly, PlaysThisLevel
  <1>10. Inv'
    BY <1>1, <1>3, <1>7, <1>8, <1>9, AllTyped DEF Inv, Typed
  <1> QED
    BY <1>1, <1>4, <1>10 DEF SameSent

\* A restart keeps the level's feed: who has it may enter the world.
LEMMA RestartKeeps ==
    ASSUME Inv, SV_MapRestart_f
    PROVE  Inv' /\ sv'.gamestateMessageNum = sv.gamestateMessageNum
  <1> DEFINE id == sv.serverId + 1
             v  == [sv.cvars EXCEPT !.sv_serverid = id]
             s  == [sv EXCEPT !.serverId = id, !.cvars = v]
             t  == IF sv.state = "zombie" THEN s ELSE SV_ClientEnterWorld(s)
             e  == history.early \/ cl.checksumFeed # sv.restartedServerId
             g  == [history EXCEPT !.early = e]
  <1>1. /\ sv.serverId < MaxServerId /\ sv' = t /\ history' = g
        /\ cl' = cl /\ commands' = commands /\ toClient' = toClient /\ toServer' = toServer
    BY DEF SV_MapRestart_f
  <1>2. id \in Ids /\ id \in Nat /\ sv.serverId <= id
    BY <1>1, AllTyped, GamestateAssumption, SMTT(30) DEF Ids
  <1> HIDE DEF id
  <1>3. v \in SystemInfos /\ v.sv_serverid = id
    <2>1. sv.cvars \in SystemInfos
      BY AllTyped DEF Servers
    <2>2. v \in SystemInfos
      BY <1>2, <2>1 DEF SystemInfos, Ids
    <2>3. v.sv_serverid = id
      BY <2>1 DEF SystemInfos
    <2> QED
      BY <2>2, <2>3
  <1> HIDE DEF v
  <1>4. s \in Servers
    BY <1>2, <1>3, AllTyped DEF Servers
  <1>5. /\ s.state = sv.state /\ SameSent(sv, s) /\ SameChecks(sv, s) /\ s.cvars = v
        /\ s.serverId = id /\ s.restartedServerId = sv.restartedServerId
        /\ s.systeminfo = sv.systeminfo
    BY AllTyped DEF Servers, SameSent, SameChecks
  <1> HIDE DEF s
  <1>6. /\ t \in Servers /\ SameLevel(s, t) /\ SameSent(s, t) /\ SameChecks(s, t)
        /\ IF sv.state = "zombie" THEN t.state = "zombie" ELSE t.state = "active"
        /\ sv.state = "zombie" => t = s
    <2>1. CASE sv.state = "zombie"
      BY <1>4, <1>5, <2>1 DEF SameLevel, SameSent, SameChecks
    <2>2. CASE sv.state # "zombie"
      <3>1. StateSet(s, SV_ClientEnterWorld(s), "active")
        BY <1>4, StateChanged
      <3> QED
        BY <2>2, <3>1 DEF StateSet
    <2> QED
      BY <2>1, <2>2
  <1>7. sv.state = "zombie" => t.cvars.sv_serverid = t.serverId
    BY <1>3, <1>5, <1>6
  <1> HIDE DEF t
  <1>8. /\ GoesOn(sv, t) /\ SameSent(sv, t) /\ Onward(sv, t)
        /\ t.lastClientCommand = sv.lastClientCommand
    BY <1>2, <1>3, <1>5, <1>6 DEF GoesOn, SameLevel, SameSent, SameChecks, Onward
  <1>9. e \in BOOLEAN /\ (~e => cl.checksumFeed = sv.restartedServerId)
                      /\ (~e => ~history.early)
    BY AllTyped DEF Histories
  <1> HIDE DEF e
  <1>10. g \in Histories /\ g.early = e /\ g.stale = history.stale /\ g.thought = history.thought
    BY <1>9, AllTyped DEF Histories
  <1> HIDE DEF g
  <1>11. Fine(t, g) => ~e /\ Fine(sv, history)
    BY <1>6, <1>9, <1>10, Zenon DEF Fine
  <1>12. ~g.stale => ~history.stale
    BY <1>10, Zenon
  <1>13. World(t, cl, commands, g, toClient, toServer)
    <2>1. Fine(t, g) /\ t.state = "active" => cl.checksumFeed = t.restartedServerId
      BY <1>8, <1>9, <1>11 DEF GoesOn
    <2>2. t.lastClientCommand <= Len(cl.clientCommands)
      BY <1>8, AllTyped
    <2> QED
      BY <1>6, <1>8, <1>11, <1>12, <2>1, <2>2, AllTyped, Continued
  <1>14. CheckInv(t, cl, g)
    <2>1. /\ t.gotCP = sv.gotCP /\ t.pureAuthentic = sv.pureAuthentic
          /\ t.state = "zombie" <=> sv.state = "zombie"
          /\ t.restartedServerId = sv.restartedServerId
      BY <1>5, <1>6, <1>8 DEF SameChecks, GoesOn
    <2>2. t.gotCP /\ t.state # "zombie" => t.pureAuthentic
      BY <2>1, Zenon DEF Inv, CheckInv
    <2>3. ASSUME sv_pure, ~g.stale, Fine(t, g), t.state \in {"primed", "active"}
          PROVE  \A k \in 1..t.lastClientCommand :
                    cl.clientCommands[k].checksumFeed = t.restartedServerId => t.gotCP
      <3>1. sv.state \in {"primed", "active"}
        <4>1. sv.state # "connected"
          BY <1>9, <1>11, <2>3, AllTyped DEF World, ClientInv
        <4> QED
          BY <2>1, <2>3, <4>1, AllTyped DEF Servers, ServerStates
      <3>2. \A k \in 1..sv.lastClientCommand :
               cl.clientCommands[k].checksumFeed = sv.restartedServerId => sv.gotCP
        BY <1>11, <1>12, <2>3, <3>1, Zenon DEF Inv, CheckInv
      <3> QED
        BY <1>8, <2>1, <3>2
    <2>4. g.stale \/ g.early \/ t.state # "zombie"
      <3>1. history.stale \/ history.early \/ sv.state # "zombie"
        BY DEF Inv, CheckInv
      <3> QED
        BY <1>9, <1>10, <2>1, <3>1, Zenon
    <2> QED
      BY <2>2, <2>3, <2>4, Zenon DEF CheckInv
  <1>15. PlaysThisLevelUnlessEarly'
    BY <1>1, <1>9, <1>10, Zenon DEF Inv, PlaysThisLevelUnlessEarly, PlaysThisLevel
  <1>16. Inv'
    BY <1>1, <1>6, <1>10, <1>13, <1>14, <1>15, AllTyped DEF Inv, Typed
  <1> QED
    BY <1>1, <1>8, <1>16 DEF SameSent

\* A server of a new level: all ids there were are of earlier levels.
NewLevel(s, t) ==
    /\ s.serverId < t.serverId /\ t.restartedServerId = t.serverId
    /\ t.cvars.sv_serverid = t.serverId /\ t.systeminfo.sv_serverid = t.serverId
    /\ SameSent(s, t) /\ SameChecks(s, t)
    /\ t.state = BackToConnected(s.state)

\* With the new id, nothing under way is of the level that runs.
LEMMA LevelBegun ==
    ASSUME NEW s \in Servers, NEW t \in Servers, NEW c \in Clients, NEW n \in Seq(SystemInfos),
           NEW h \in Histories, NEW tc \in Seq(ToClient), NEW ts \in Seq(ToServer),
           World(s, c, n, h, tc, ts), NewLevel(s, t)
    PROVE  World(t, c, n, h, tc, ts)
  <1>1. /\ s.serverId \in Nat /\ s.restartedServerId \in Nat /\ s.restartedServerId <= s.serverId
        /\ t.serverId \in Nat /\ t.restartedServerId = t.serverId
        /\ s.serverId < t.serverId /\ 1 <= t.serverId
        /\ c.checksumFeed \in Nat /\ c.checksumFeed <= s.restartedServerId
        /\ c.checksumFeed < t.serverId
    <2>1. /\ s.serverId \in Nat /\ s.restartedServerId \in Nat /\ c.checksumFeed \in Nat
          /\ t.serverId \in Nat /\ s.systeminfo.sv_serverid \in Nat
      BY GamestateAssumption DEF Servers, SystemInfos, Ids, Clients
    <2>2. s.restartedServerId <= s.serverId
      BY <2>1 DEF World, ServerInv
    <2> QED
      BY <2>1, <2>2 DEF World, ServerInv, ClientInv, NewLevel
  <1>2. t.state \in {"zombie", "connected"}
    BY DEF NewLevel, BackToConnected
  <1>3. \A i \in 1..Len(n) : n[i].sv_serverid \in Int /\ n[i].sv_serverid < t.serverId
    <2> SUFFICES ASSUME NEW i \in 1..Len(n)
                 PROVE  n[i].sv_serverid \in Int /\ n[i].sv_serverid < t.serverId
      OBVIOUS
    <2>1. n[i] \in SystemInfos
      OBVIOUS
    <2>2. n[i].sv_serverid \in Int
      BY <2>1 DEF SystemInfos, Ids
    <2> QED
      BY <1>1, <2>2 DEF World, ServerInv
  <1>4. \A k \in 1..Len(c.clientCommands) :
           /\ c.clientCommands[k].serverId \in Int
           /\ c.clientCommands[k].serverId < t.serverId
           /\ c.clientCommands[k].checksumFeed < t.serverId
    <2> SUFFICES ASSUME NEW k \in 1..Len(c.clientCommands)
                 PROVE  /\ c.clientCommands[k].serverId \in Int
                        /\ c.clientCommands[k].serverId < t.serverId
                        /\ c.clientCommands[k].checksumFeed < t.serverId
      OBVIOUS
    <2>1. c.clientCommands[k] \in Checks
      BY DEF Clients
    <2>2. c.clientCommands[k].serverId \in Int /\ c.clientCommands[k].checksumFeed \in Int
      BY <2>1 DEF Checks, Ids
    <2>3. /\ c.clientCommands[k].serverId <= s.serverId
          /\ c.clientCommands[k].checksumFeed <= c.checksumFeed
      BY Zenon DEF World, ClientInv
    <2> QED
      BY <1>1, <2>2, <2>3, SMTT(30)
  <1>5. c.systeminfo.sv_serverid < t.serverId
    <2>1. c.systeminfo.sv_serverid \in Int
      BY DEF Clients, SystemInfos, Ids
    <2> QED
      BY <1>1, <2>1 DEF World, ClientInv
  <1>6. ServerInv(t, n)
    <2>1. Len(n) > 0 => n[Len(n)].sv_serverid \in Int /\ n[Len(n)].sv_serverid < t.serverId
      BY <1>3
    <2> QED
      BY <1>1, <1>3, <2>1 DEF World, ServerInv, NewLevel, SameSent
  <1>7. ClientInv(t, c, n)
    <2>1. \A k \in 1..Len(c.clientCommands) :
             /\ c.clientCommands[k].serverId <= t.serverId
             /\ c.clientCommands[k].checksumFeed <= c.checksumFeed
      BY <1>1, <1>4 DEF World, ClientInv
    <2>2. c.systeminfo.sv_serverid <= t.serverId /\ c.checksumFeed <= t.serverId
      BY <1>1, <1>5 DEF Clients, SystemInfos, Ids
    <2> QED
      BY <1>1, <2>1, <2>2 DEF World, ClientInv, NewLevel, SameSent, SameChecks
  <1>8. LevelInv(t, c, n, h)
    <2>1. HasLevel(t, c.systeminfo.sv_serverid, c.checksumFeed)
      BY <1>1, <1>5 DEF HasLevel, Clients, SystemInfos, Ids
    <2>2. \A k \in 1..Len(c.clientCommands) :
             HasLevel(t, c.clientCommands[k].serverId, c.clientCommands[k].checksumFeed)
      BY <1>1, <1>4 DEF HasLevel
    <2>3. \A i \in 1..Len(n) : HasLevel(t, n[i].sv_serverid, c.checksumFeed)
      BY <1>1, <1>3 DEF HasLevel
    <2> QED
      BY <1>2, <2>1, <2>2, <2>3 DEF LevelInv
  <1>9. FreshInv(t, c, n, h)
    BY <1>1 DEF World, FreshInv
  <1>10. ASSUME NEW i \in 1..Len(tc)
         PROVE  /\ Carried(t, c, n, tc[i]) /\ SnapshotInv(t, c, n, h, tc[i])
                /\ GamestateInv(t, c, n, tc[i])
    <2>1. Carried(s, c, n, tc[i]) /\ SnapshotInv(s, c, n, h, tc[i]) /\ GamestateInv(s, c, n, tc[i])
      BY DEF World, Messages
    <2>2. tc[i] \in ToClient
      OBVIOUS
    <2>3. Carried(t, c, n, tc[i])
      BY <2>1 DEF Carried, NewLevel, SameSent
    <2>4. SnapshotInv(t, c, n, h, tc[i])
      BY <1>1, <1>3 DEF SnapshotInv, HasLevel
    <2>5. GamestateInv(t, c, n, tc[i])
      <3> SUFFICES ASSUME tc[i].body.type = "gamestate"
                   PROVE  GamestateInv(t, c, n, tc[i])
        BY DEF GamestateInv
      <3>1. tc[i].body \in Gamestates
        BY <2>2 DEF ToClient, None, Snap
      <3>2. tc[i].body.checksumFeed \in Int /\ tc[i].body.systeminfo.sv_serverid \in Int
        BY <3>1 DEF Gamestates, SystemInfos, Ids
      <3>3. /\ tc[i].body.checksumFeed < t.serverId
            /\ tc[i].body.systeminfo.sv_serverid < t.serverId
        BY <1>1, <2>1, <3>2 DEF GamestateInv
      <3>4. HasLevel(t, tc[i].body.systeminfo.sv_serverid, tc[i].body.checksumFeed)
        BY <1>1, <3>2, <3>3 DEF HasLevel
      <3> QED
        BY <1>1, <2>1, <3>2, <3>3, <3>4 DEF GamestateInv, NewLevel, SameSent
    <2> QED
      BY <2>3, <2>4, <2>5
  <1>11. ASSUME NEW i \in 1..Len(ts)
         PROVE  WrittenInv(t, c, h, ts[i])
    <2>1. WrittenInv(s, c, h, ts[i])
      BY DEF World, Messages
    <2>2. ts[i] \in ToServer
      OBVIOUS
    <2>3. ts[i].serverId \in Int
      BY <2>2 DEF ToServer, Ids
    <2>4. ts[i].serverId < t.serverId
      BY <1>1, <2>1, <2>3 DEF WrittenInv
    <2> QED
      BY <1>1, <1>2, <2>1, <2>3, <2>4 DEF WrittenInv, HasLevel
  <1> QED
    BY <1>6, <1>7, <1>8, <1>9, <1>10, <1>11 DEF World, Messages

\* The last messages of the level before are sent with its state.
LEMMA SpawnKeeps ==
    ASSUME Inv, SV_SpawnServer
    PROVE  Inv' /\ sv'.gamestateMessageNum = sv.gamestateMessageNum
  <1> DEFINE id == sv.serverId + 1
             v  == [sv.cvars EXCEPT !.sv_serverid = id]
             i  == SystemInfo(id, sv.cvars.rest)
             z  == BackToConnected(sv.state)
             t  == [sv EXCEPT !.serverId = id, !.restartedServerId = id, !.cvars = v,
                              !.systeminfo = i, !.state = z]
             m  == ClientSnapshot(sv)
  <1>1. /\ sv.serverId < MaxServerId /\ sv' = t
        /\ toClient' = IF sv.state = "zombie" THEN toClient ELSE toClient \o <<m, m>>
        /\ cl' = cl /\ commands' = commands /\ toServer' = toServer /\ history' = history
    BY DEF SV_SpawnServer
  <1>2. id \in Ids /\ id \in Nat /\ sv.serverId < id
    BY <1>1, AllTyped, GamestateAssumption, SMTT(30) DEF Ids
  <1> HIDE DEF id
  <1>3. /\ v \in SystemInfos /\ v.sv_serverid = id
        /\ i \in SystemInfos /\ i.sv_serverid = id
    <2>1. sv.cvars \in SystemInfos
      BY AllTyped DEF Servers
    <2>2. v \in SystemInfos
      BY <1>2, <2>1 DEF SystemInfos, Ids
    <2>3. v.sv_serverid = id
      BY <2>1 DEF SystemInfos
    <2>4. i \in SystemInfos /\ i.sv_serverid = id
      BY <1>2, <2>1 DEF SystemInfos, SystemInfo, Ids
    <2> QED
      BY <2>2, <2>3, <2>4
  <1>4. z \in ServerStates /\ z = BackToConnected(sv.state)
    BY DEF BackToConnected, ServerStates
  <1> HIDE DEF v, i, z
  <1>5. t \in Servers
    BY <1>2, <1>3, <1>4, AllTyped DEF Servers
  <1>6. /\ t.state = z /\ SameSent(sv, t) /\ SameChecks(sv, t) /\ t.cvars = v
        /\ t.serverId = id /\ t.restartedServerId = id /\ t.systeminfo = i
    BY AllTyped DEF Servers, SameSent, SameChecks
  <1> HIDE DEF t
  <1>7. NewLevel(sv, t)
    BY <1>2, <1>3, <1>4, <1>6 DEF NewLevel
  <1>8. toClient' \in Seq(ToClient)
        /\ World(sv, cl, commands, history, toClient', toServer)
    <2>1. CASE sv.state = "zombie"
      BY <1>1, <2>1, AllTyped
    <2>2. CASE sv.state # "zombie"
      <3> DEFINE body == IF sv.state = "active" THEN Snap ELSE None
      <3>1. m = [number |-> sv.outgoingSequence, commands |-> Len(commands), body |-> body]
        BY DEF ClientSnapshot, Message
      <3>2. body \in {None, Snap} /\ (body = Snap => sv.state = "active")
        BY DEF None, Snap
      <3> HIDE DEF body, m
      <3>3. Append(toClient, m) \in Seq(ToClient)
            /\ World(sv, cl, commands, history, Append(toClient, m), toServer)
        BY <3>1, <3>2, AllTyped, PutPlain
      <3> DEFINE q == Append(toClient, m)
      <3>4. Append(q, m) \in Seq(ToClient)
            /\ World(sv, cl, commands, history, Append(q, m), toServer)
        <4> HIDE DEF q
        <4> QED
          BY <3>1, <3>2, <3>3, AllTyped, PutPlain DEF q
      <3>5. toClient \o <<m, m>> = Append(q, m)
        <4>1. m \in ToClient
          BY <3>3
        <4> QED
          BY <4>1, AllTyped
      <3> QED
        BY <1>1, <2>2, <3>4, <3>5
    <2> QED
      BY <2>1, <2>2
  <1>9. World(t, cl, commands, history, toClient', toServer)
    BY <1>5, <1>7, <1>8, AllTyped, LevelBegun
  <1>10. CheckInv(t, cl, history)
    <2>1. /\ t.state \in {"zombie", "connected"}
          /\ t.state = "zombie" <=> sv.state = "zombie"
      BY <1>7 DEF NewLevel, BackToConnected
    <2> QED
      BY <1>6, <2>1, Zenon DEF Inv, CheckInv, SameChecks
  <1>11. PlaysThisLevelUnlessEarly'
    BY <1>1 DEF Inv, PlaysThisLevelUnlessEarly, PlaysThisLevel
  <1>12. Inv'
    BY <1>1, <1>5, <1>8, <1>9, <1>10, <1>11, AllTyped DEF Inv, Typed
  <1> QED
    BY <1>1, <1>6, <1>12 DEF SameSent

-----------------------------------------------------------------------------
(* The client                                                              *)

\* Fields of a client that its client game changes.
SameReceived(c, d) ==
    /\ d.checksumFeed = c.checksumFeed
    /\ d.serverMessageSequence = c.serverMessageSequence
    /\ d.serverCommandSequence = c.serverCommandSequence /\ d.snap = c.snap

\* A client that has only more of its own commands, or other strings executed, is as good
\* for what is under way.
LEMMA SameMessages ==
    ASSUME NEW s, NEW c \in Clients, NEW d, NEW n, NEW h, NEW tc \in Seq(ToClient),
           NEW ts \in Seq(ToServer), Messages(s, c, n, h, tc, ts), SameReceived(c, d),
           Len(c.clientCommands) <= Len(d.clientCommands), Len(d.clientCommands) \in Nat,
           \A k \in 1..Len(c.clientCommands) : d.clientCommands[k] = c.clientCommands[k]
    PROVE  Messages(s, d, n, h, tc, ts)
  <1>1. ASSUME NEW i \in 1..Len(tc)
        PROVE  /\ Carried(s, d, n, tc[i]) /\ SnapshotInv(s, d, n, h, tc[i])
               /\ GamestateInv(s, d, n, tc[i])
    BY DEF Messages, Carried, SnapshotInv, GamestateInv, SameReceived
  <1>2. ASSUME NEW i \in 1..Len(ts)
        PROVE  WrittenInv(s, d, h, ts[i])
    <2>1. WrittenInv(s, c, h, ts[i])
      BY DEF Messages
    <2>2. ts[i] \in ToServer
      OBVIOUS
    <2>3. ts[i].clientCommands \in Nat /\ Len(c.clientCommands) \in Nat
      BY <2>2, SMTT(30) DEF ToServer, Clients
    <2>4. \A k \in 1..ts[i].clientCommands : d.clientCommands[k] = c.clientCommands[k]
      BY <2>1, <2>3 DEF WrittenInv
    <2>5. ts[i].clientCommands > 0 => ts[i].clientCommands \in 1..ts[i].clientCommands
      BY <2>3
    <2>6. ts[i].clientCommands > 0 =>
             d.clientCommands[ts[i].clientCommands] = c.clientCommands[ts[i].clientCommands]
      BY <2>4, <2>5
    <2>7. ts[i].clientCommands <= Len(d.clientCommands)
      BY <2>1, <2>3 DEF WrittenInv
    <2> QED
      BY <2>1, <2>4, <2>6, <2>7 DEF WrittenInv, SameReceived
  <1> QED
    BY <1>1, <1>2 DEF Messages

\* The client writes a message.
LEMMA PutWritten ==
    ASSUME NEW s \in Servers, NEW c \in Clients, NEW n, NEW h, NEW tc, NEW ts \in Seq(ToServer),
           World(s, c, n, h, tc, ts), NEW m, NEW move \in BOOLEAN,
           m = [serverId |-> c.systeminfo.sv_serverid,
                messageAcknowledge |-> c.serverMessageSequence,
                clientCommands |-> Len(c.clientCommands), move |-> move,
                checksumFeed |-> c.checksumFeed],
           move => c.state \in {"primed", "active"}
    PROVE  Append(ts, m) \in Seq(ToServer) /\ World(s, c, n, h, tc, Append(ts, m))
  <1>1. /\ c.systeminfo.sv_serverid \in Nat /\ c.serverMessageSequence \in Nat
        /\ Len(c.clientCommands) \in Nat /\ c.checksumFeed \in Nat
        /\ s.restartedServerId \in Nat
        /\ \A k \in 1..Len(c.clientCommands) : c.clientCommands[k].checksumFeed \in Int
    <2>1. \A k \in 1..Len(c.clientCommands) : c.clientCommands[k] \in Checks
      BY DEF Clients
    <2>2. \A k \in 1..Len(c.clientCommands) : c.clientCommands[k].checksumFeed \in Int
      BY <2>1 DEF Checks, Ids
    <2>3. c.systeminfo \in SystemInfos /\ c.checksumFeed \in Ids
          /\ c.serverMessageSequence \in Nat /\ Len(c.clientCommands) \in Nat
      BY DEF Clients
    <2>4. c.systeminfo.sv_serverid \in Nat /\ c.checksumFeed \in Nat
      BY <2>3, GamestateAssumption DEF SystemInfos, Ids
    <2>5. s.restartedServerId \in Nat
      BY GamestateAssumption DEF Servers, Ids
    <2> QED
      BY <2>2, <2>3, <2>4, <2>5
  <1>2. m \in ToServer
    <2>1. c.systeminfo.sv_serverid \in Ids /\ c.checksumFeed \in Ids
      BY DEF Clients, SystemInfos, Ids
    <2> QED
      BY <1>1, <2>1 DEF ToServer
  <1>3. /\ m.serverId = c.systeminfo.sv_serverid
        /\ m.messageAcknowledge = c.serverMessageSequence
        /\ m.clientCommands = Len(c.clientCommands)
        /\ m.checksumFeed = c.checksumFeed
    OBVIOUS
  <1>4. m.move => c.state \in {"primed", "active"}
    <2>1. m.move = move
      OBVIOUS
    <2> QED
      BY <2>1, Zenon
  <1>5. WrittenInv(s, c, h, m)
    <2>1. /\ m.serverId <= s.serverId /\ m.messageAcknowledge <= c.serverMessageSequence
          /\ m.clientCommands <= Len(c.clientCommands) /\ m.checksumFeed <= c.checksumFeed
      BY <1>1, <1>3 DEF World, ClientInv
    <2>2. Fine(s, h) => HasLevel(s, m.serverId, m.checksumFeed)
      BY <1>3 DEF World, LevelInv
    <2>3. m.move => /\ m.clientCommands > 0
                    /\ c.clientCommands[m.clientCommands].checksumFeed = m.checksumFeed
      BY <1>3, <1>4 DEF World, ClientInv
    <2>4. ~h.stale => \A k \in 1..m.clientCommands : c.clientCommands[k].checksumFeed <= m.serverId
      BY <1>1, <1>3 DEF World, FreshInv, ClientInv
    <2>5. ~h.stale /\ m.serverId < s.restartedServerId => c.checksumFeed # s.restartedServerId
      BY <1>1, <1>3 DEF World, FreshInv
    <2> QED
      BY <2>1, <2>2, <2>3, <2>4, <2>5 DEF WrittenInv
  <1> DEFINE q == Append(ts, m)
  <1>6. /\ q \in Seq(ToServer) /\ Len(q) = Len(ts) + 1
        /\ \A i \in 1..Len(q) : IF i \in 1..Len(ts) THEN q[i] = ts[i] ELSE q[i] = m
    BY <1>2
  <1> HIDE DEF q
  <1>7. World(s, c, n, h, tc, q)
    BY <1>5, <1>6 DEF World, Messages
  <1> QED
    BY <1>6, <1>7 DEF q

\* A packet of the client says of its level what the client holds.
LEMMA WriteKeeps ==
    ASSUME Inv, CL_WritePacket
    PROVE  Inv'
  <1> DEFINE m == ClientMessage(cl)
             move == cl.state \in {"primed", "active"}
  <1>1. /\ toServer' = Append(toServer, m) /\ sv' = sv /\ cl' = cl
        /\ commands' = commands /\ toClient' = toClient /\ history' = history
    BY DEF CL_WritePacket
  <1>2. m = [serverId |-> cl.systeminfo.sv_serverid,
             messageAcknowledge |-> cl.serverMessageSequence,
             clientCommands |-> Len(cl.clientCommands), move |-> move,
             checksumFeed |-> cl.checksumFeed]
    BY DEF ClientMessage
  <1>3. move \in BOOLEAN /\ (move => cl.state \in {"primed", "active"})
    OBVIOUS
  <1> HIDE DEF m, move
  <1>4. Append(toServer, m) \in Seq(ToServer)
        /\ World(sv, cl, commands, history, toClient, Append(toServer, m))
    BY <1>2, <1>3, AllTyped, PutWritten
  <1> QED
    BY <1>1, <1>4, AllTyped DEF Inv, Typed, PlaysThisLevelUnlessEarly, PlaysThisLevel

\* What is lost was known of; nothing follows from its absence.
LEMMA LossKeeps ==
    ASSUME Inv, LoseToClient \/ LoseToServer
    PROVE  Inv' /\ sv' = sv
  <1>1. CASE LoseToClient
    <2>1. /\ toClient # <<>> /\ toClient' = Tail(toClient) /\ sv' = sv /\ cl' = cl
          /\ commands' = commands /\ toServer' = toServer /\ history' = history
      BY <1>1 DEF LoseToClient
    <2> QED
      BY <2>1, AllTyped, Taken DEF Inv, Typed, PlaysThisLevelUnlessEarly, PlaysThisLevel
  <1>2. CASE LoseToServer
    <2>1. /\ toServer # <<>> /\ toServer' = Tail(toServer) /\ sv' = sv /\ cl' = cl
          /\ commands' = commands /\ toClient' = toClient /\ history' = history
      BY <1>2 DEF LoseToServer
    <2> QED
      BY <2>1, AllTyped, Taken DEF Inv, Typed, PlaysThisLevelUnlessEarly, PlaysThisLevel
  <1> QED
    BY <1>1, <1>2

\* A snapshot brings the client into the world.
LEMMA FirstSnapshotKeeps ==
    ASSUME Inv, CL_FirstSnapshot
    PROVE  Inv'
  <1> DEFINE d == [cl EXCEPT !.state = "active"]
  <1>1. /\ cl.state = "primed" /\ cl' = d /\ sv' = sv /\ commands' = commands
        /\ toClient' = toClient /\ toServer' = toServer /\ history' = history
    BY DEF CL_FirstSnapshot
  <1>2. d \in Clients
    BY AllTyped DEF Clients, ClientStates
  <1>3. /\ SameReceived(cl, d) /\ d.clientCommands = cl.clientCommands
        /\ d.systeminfo = cl.systeminfo
        /\ d.lastExecutedServerCommand = cl.lastExecutedServerCommand
    BY AllTyped DEF Clients, SameReceived
  <1> HIDE DEF d
  <1>4. ClientInv(sv, d, commands)
    BY <1>1, <1>3, AllTyped DEF World, ClientInv, SameReceived
  <1>5. LevelInv(sv, d, commands, history) /\ FreshInv(sv, d, commands, history)
    BY <1>3, AllTyped DEF World, LevelInv, FreshInv, LastString, SameReceived
  <1>6. Messages(sv, d, commands, history, toClient, toServer)
    <2>1. Len(cl.clientCommands) \in Nat
      BY AllTyped DEF Clients
    <2> QED
      BY <1>3, <2>1, AllTyped, SameMessages DEF World
  <1>7. CheckInv(sv, d, history)
    BY <1>3 DEF Inv, CheckInv
  <1> QED
    BY <1>1, <1>2, <1>4, <1>5, <1>6, <1>7, AllTyped
       DEF Inv, Typed, World, PlaysThisLevelUnlessEarly, PlaysThisLevel

\* The commands up to a snapshot's are of the level of that snapshot.
LEMMA ExecutionKeeps ==
    ASSUME Inv, CG_ExecuteNewServerCommands
    PROVE  Inv'
  <1>1. PICK latest \in (cl.lastExecutedServerCommand + 1)..(cl.snap - 1) :
           cl' = [cl EXCEPT !.lastExecutedServerCommand = latest,
                            !.systeminfo = commands[latest]]
    BY DEF CG_ExecuteNewServerCommands
  <1> DEFINE x == commands[latest]
             d == [cl EXCEPT !.lastExecutedServerCommand = latest, !.systeminfo = x]
  <1>2. /\ cl' = d /\ sv' = sv /\ commands' = commands
        /\ toClient' = toClient /\ toServer' = toServer /\ history' = history
    BY <1>1 DEF CG_ExecuteNewServerCommands
  <1>3. /\ latest \in Nat /\ latest \in 1..Len(commands) /\ latest < cl.snap
        /\ cl.lastExecutedServerCommand \in Nat /\ latest > cl.lastExecutedServerCommand
        /\ latest <= cl.serverCommandSequence /\ Len(commands) \in Nat
    <2>1. /\ cl.snap \in Nat /\ cl.serverCommandSequence \in Nat
          /\ cl.lastExecutedServerCommand \in Nat /\ Len(commands) \in Nat
      BY AllTyped DEF Clients
    <2>2. cl.snap <= cl.serverCommandSequence + 1 /\ cl.serverCommandSequence <= Len(commands)
      BY AllTyped DEF World, ClientInv
    <2> QED
      BY <1>1, <2>1, <2>2
  <1>4. x \in SystemInfos
    BY <1>3, AllTyped
  <1> HIDE DEF x
  <1>5. d \in Clients
    BY <1>3, <1>4, AllTyped DEF Clients
  <1>6. /\ SameReceived(cl, d) /\ d.clientCommands = cl.clientCommands
        /\ d.systeminfo = x /\ d.lastExecutedServerCommand = latest /\ d.state = cl.state
    BY AllTyped DEF Clients, SameReceived
  <1> HIDE DEF d
  <1>7. ClientInv(sv, d, commands)
    <2>1. x.sv_serverid <= sv.serverId
      BY <1>3, AllTyped DEF World, ServerInv, x
    <2> QED
      BY <1>3, <1>6, <2>1, AllTyped DEF World, ClientInv, SameReceived
  <1>8. LevelInv(sv, d, commands, history)
    <2>1. Fine(sv, history) => HasLevel(sv, x.sv_serverid, cl.checksumFeed)
      BY <1>3, AllTyped DEF World, LevelInv, x
    <2> QED
      BY <1>6, <2>1, AllTyped DEF World, LevelInv, SameReceived
  <1>9. FreshInv(sv, d, commands, history)
    <2>1. ~history.stale => cl.checksumFeed <= x.sv_serverid
      BY <1>3, AllTyped DEF World, FreshInv, x
    <2>2. LastString(d, commands) = LastString(cl, commands)
      BY <1>3, <1>6 DEF LastString, x
    <2> QED
      BY <1>3, <1>6, <2>1, <2>2, AllTyped DEF World, FreshInv, SameReceived
  <1>10. Messages(sv, d, commands, history, toClient, toServer)
    <2>1. Len(cl.clientCommands) \in Nat
      BY AllTyped DEF Clients
    <2> QED
      BY <1>6, <2>1, AllTyped, SameMessages, SMTT(30) DEF World
  <1>11. CheckInv(sv, d, history)
    BY <1>6 DEF Inv, CheckInv
  <1> QED
    BY <1>2, <1>5, <1>7, <1>8, <1>9, <1>10, <1>11, AllTyped
       DEF Inv, Typed, World, PlaysThisLevelUnlessEarly, PlaysThisLevel

\* The client's check names the id and the feed of the gamestate it has loaded.
LEMMA InitCGameKeeps ==
    ASSUME Inv, CL_InitCGame
    PROVE  Inv'
  <1> DEFINE cp == [serverId |-> cl.systeminfo.sv_serverid, checksumFeed |-> cl.checksumFeed]
             cps == Append(cl.clientCommands, cp)
             d == [cl EXCEPT !.state = "primed", !.clientCommands = cps]
             m == [ClientMessage(d) EXCEPT !.move = FALSE]
  <1>1. /\ cl.state = "loading" /\ cl' = d /\ toServer' = Append(toServer, m) /\ sv' = sv
        /\ commands' = commands /\ toClient' = toClient /\ history' = history
    BY DEF CL_InitCGame
  <1>2. /\ cl.systeminfo.sv_serverid \in Ids /\ cl.checksumFeed \in Ids
        /\ cl.clientCommands \in Seq(Checks)
    BY AllTyped DEF Clients, SystemInfos, Ids
  <1>3. cp \in Checks /\ cp.serverId = cl.systeminfo.sv_serverid
        /\ cp.checksumFeed = cl.checksumFeed
    BY <1>2 DEF Checks
  <1> HIDE DEF cp
  <1>4. /\ cps \in Seq(Checks) /\ Len(cps) = Len(cl.clientCommands) + 1
        /\ Len(cl.clientCommands) \in Nat /\ cps[Len(cps)] = cp
        /\ \A k \in 1..Len(cl.clientCommands) : cps[k] = cl.clientCommands[k]
        /\ \A k \in 1..Len(cps) :
              k \in 1..Len(cl.clientCommands) \/ (k = Len(cps) /\ cps[k] = cp)
    BY <1>2, <1>3
  <1> HIDE DEF cps
  <1>5. d \in Clients
    BY <1>4, AllTyped DEF Clients, ClientStates
  <1>6. /\ SameReceived(cl, d) /\ d.clientCommands = cps
        /\ d.systeminfo = cl.systeminfo /\ d.state = "primed"
        /\ d.lastExecutedServerCommand = cl.lastExecutedServerCommand
    BY AllTyped DEF Clients, SameReceived
  <1> HIDE DEF d
  <1>7. m = [serverId |-> d.systeminfo.sv_serverid,
             messageAcknowledge |-> d.serverMessageSequence,
             clientCommands |-> Len(d.clientCommands), move |-> FALSE,
             checksumFeed |-> d.checksumFeed]
    <2> DEFINE b == d.state \in {"primed", "active"}
               w == ClientMessage(d)
    <2>1. w = [serverId |-> d.systeminfo.sv_serverid,
               messageAcknowledge |-> d.serverMessageSequence,
               clientCommands |-> Len(d.clientCommands), move |-> b,
               checksumFeed |-> d.checksumFeed]
      BY DEF ClientMessage
    <2>2. m = [w EXCEPT !.move = FALSE]
      OBVIOUS
    <2> HIDE DEF b, w, m
    <2> QED
      BY <2>1, <2>2
  <1> HIDE DEF m
  <1>8. cl.checksumFeed \in Int /\ cl.systeminfo.sv_serverid \in Int
    BY <1>2 DEF Ids
  <1>9. ClientInv(sv, d, commands)
    <2>1. \A k \in 1..Len(cps) : /\ cps[k].serverId <= sv.serverId
                                 /\ cps[k].checksumFeed <= cl.checksumFeed
      <3> SUFFICES ASSUME NEW k \in 1..Len(cps)
                   PROVE  /\ cps[k].serverId <= sv.serverId
                          /\ cps[k].checksumFeed <= cl.checksumFeed
        OBVIOUS
      <3>1. CASE k \in 1..Len(cl.clientCommands)
        BY <1>4, <3>1, AllTyped DEF World, ClientInv
      <3>2. CASE cps[k] = cp
        BY <1>3, <1>8, <3>2, AllTyped DEF World, ClientInv
      <3> QED
        BY <1>4, <3>1, <3>2
    <2>2. /\ Len(cps) > 0 /\ cps[Len(cps)].checksumFeed = cl.checksumFeed
          /\ sv.lastClientCommand <= Len(cps)
      BY <1>3, <1>4, AllTyped
    <2> QED
      BY <1>6, <2>1, <2>2, AllTyped DEF World, ClientInv, SameReceived
  <1>10. LevelInv(sv, d, commands, history)
    <2>1. Fine(sv, history) =>
             \A k \in 1..Len(cps) : HasLevel(sv, cps[k].serverId, cps[k].checksumFeed)
      BY <1>3, <1>4, AllTyped DEF World, LevelInv
    <2> QED
      BY <1>6, <2>1, AllTyped DEF World, LevelInv, SameReceived
  <1>11. FreshInv(sv, d, commands, history)
    <2>1. ~history.stale => \A k \in 1..Len(cps) : cps[k].checksumFeed <= cps[k].serverId
      BY <1>3, <1>4, AllTyped DEF World, FreshInv
    <2>2. LastString(d, commands) = LastString(cl, commands)
      BY <1>6 DEF LastString
    <2> QED
      BY <1>6, <2>1, <2>2, AllTyped DEF World, FreshInv, SameReceived
  <1>12. Messages(sv, d, commands, history, toClient, toServer)
    <2>1. Len(cl.clientCommands) <= Len(d.clientCommands) /\ Len(d.clientCommands) \in Nat
      BY <1>4, <1>6
    <2> QED
      BY <1>4, <1>6, <2>1, AllTyped, SameMessages DEF World
  <1>13. CheckInv(sv, d, history)
    <2>1. \A k \in 1..sv.lastClientCommand : cps[k] = cl.clientCommands[k]
      BY <1>4, AllTyped
    <2> QED
      BY <1>6, <2>1, Zenon DEF Inv, CheckInv
  <1>14. World(sv, d, commands, history, toClient, toServer)
    BY <1>9, <1>10, <1>11, <1>12, AllTyped DEF World
  <1>15. /\ Append(toServer, m) \in Seq(ToServer)
         /\ World(sv, d, commands, history, toClient, Append(toServer, m))
    BY <1>5, <1>7, <1>14, AllTyped, PutWritten
  <1> QED
    BY <1>1, <1>5, <1>13, <1>15, AllTyped
       DEF Inv, Typed, PlaysThisLevelUnlessEarly, PlaysThisLevel

\* The client after a message: what it has received, and of a gamestate or a snapshot more.
Parsed(c, d, m) ==
    /\ d \in Clients /\ d.clientCommands = c.clientCommands
    /\ d.lastExecutedServerCommand = c.lastExecutedServerCommand
    /\ d.serverMessageSequence = m.number /\ d.serverCommandSequence = m.commands
    /\ \/ /\ m.body.type = "gamestate" /\ d.state = "loading" /\ d.snap = 0
          /\ d.systeminfo = m.body.systeminfo /\ d.checksumFeed = m.body.checksumFeed
       \/ /\ m.body.type # "gamestate" /\ d.state = c.state
          /\ d.systeminfo = c.systeminfo /\ d.checksumFeed = c.checksumFeed
          /\ \/ m.body.type = "snapshot" /\ d.snap = m.commands + 1
             \/ d.snap = c.snap

\* What parsing changes, for each kind of message.
LEMMA MessageParsed ==
    ASSUME NEW c \in Clients, NEW m \in ToClient
    PROVE  Parsed(c, CL_ParseServerMessage(c, m), m)
  <1> DEFINE e == [c EXCEPT !.serverMessageSequence = m.number,
                            !.serverCommandSequence = m.commands]
             d == CL_ParseServerMessage(c, m)
  <1>1. /\ m.number \in Nat /\ m.commands \in Nat
        /\ m.body \in {None, Snap} \cup Gamestates
    BY DEF ToClient
  <1>2. e \in Clients
    BY <1>1 DEF Clients
  <1>3. /\ e.clientCommands = c.clientCommands /\ e.state = c.state
        /\ e.lastExecutedServerCommand = c.lastExecutedServerCommand
        /\ e.serverMessageSequence = m.number /\ e.serverCommandSequence = m.commands
        /\ e.systeminfo = c.systeminfo /\ e.checksumFeed = c.checksumFeed /\ e.snap = c.snap
    BY DEF Clients
  <1>4. d = CASE m.body.type = "gamestate" -> CL_ParseGamestate(e, m)
              [] m.body.type = "snapshot"  -> [e EXCEPT !.snap = m.commands + 1]
              [] m.body.type = "none"      -> e
    BY DEF CL_ParseServerMessage
  <1> HIDE DEF e, d
  <1>5. CASE m.body \in Gamestates
    <2>1. /\ m.body.type = "gamestate" /\ m.body.systeminfo \in SystemInfos
          /\ m.body.checksumFeed \in Ids
      BY <1>5 DEF Gamestates
    <2> DEFINE si == m.body.systeminfo
               fd == m.body.checksumFeed
    <2>2. d = [e EXCEPT !.state = "loading", !.systeminfo = si, !.checksumFeed = fd, !.snap = 0]
      BY <1>4, <2>1 DEF CL_ParseGamestate
    <2>3. si \in SystemInfos /\ fd \in Ids
      BY <2>1
    <2> HIDE DEF si, fd
    <2>4. d \in Clients
      BY <1>2, <2>2, <2>3 DEF Clients, ClientStates
    <2>5. /\ d.clientCommands = c.clientCommands
          /\ d.lastExecutedServerCommand = c.lastExecutedServerCommand
          /\ d.serverMessageSequence = m.number /\ d.serverCommandSequence = m.commands
          /\ d.state = "loading" /\ d.snap = 0 /\ d.systeminfo = si /\ d.checksumFeed = fd
      BY <1>2, <1>3, <2>2 DEF Clients
    <2> QED
      BY <2>1, <2>4, <2>5 DEF Parsed, si, fd, d
  <1>6. CASE m.body = Snap
    <2>1. m.body.type = "snapshot"
      BY <1>6 DEF Snap
    <2> DEFINE sn == m.commands + 1
    <2>2. d = [e EXCEPT !.snap = sn] /\ sn \in Nat
      BY <1>1, <1>4, <2>1
    <2> HIDE DEF sn
    <2>3. d \in Clients
      BY <1>2, <2>2 DEF Clients
    <2>4. /\ d.clientCommands = c.clientCommands
          /\ d.lastExecutedServerCommand = c.lastExecutedServerCommand
          /\ d.serverMessageSequence = m.number /\ d.serverCommandSequence = m.commands
          /\ d.state = c.state /\ d.snap = sn /\ d.systeminfo = c.systeminfo
          /\ d.checksumFeed = c.checksumFeed
      BY <1>2, <1>3, <2>2 DEF Clients
    <2> QED
      BY <2>1, <2>3, <2>4 DEF Parsed, sn, d
  <1>7. CASE m.body = None
    <2>1. m.body.type = "none"
      BY <1>7 DEF None
    <2>2. d = e
      BY <1>4, <2>1
    <2> QED
      BY <1>2, <1>3, <2>1, <2>2 DEF Parsed, d
  <1> QED
    BY <1>1, <1>5, <1>6, <1>7

\* A message comes to the client: m, before those of q.
LEMMA ReceivedMessage ==
    ASSUME NEW s \in Servers, NEW c \in Clients, NEW n \in Seq(SystemInfos), NEW h \in Histories,
           NEW g \in Histories, NEW tc \in Seq(ToClient), NEW ts \in Seq(ToServer),
           World(s, c, n, h, tc, ts), tc # <<>>, NEW d, Parsed(c, d, tc[1]),
           g.early = h.early, ~g.stale => ~h.stale,
           ~g.stale /\ tc[1].body.type = "gamestate" =>
              \A i \in (c.lastExecutedServerCommand + 1)..tc[1].commands :
                 ~(n[i].sv_serverid < tc[1].body.checksumFeed)
    PROVE  World(s, d, n, g, Tail(tc), ts)
  <1> DEFINE m == tc[1]
             q == Tail(tc)
  <1>1. /\ m \in ToClient /\ q \in Seq(ToClient) /\ 1 \in 1..Len(tc)
        /\ \A i \in 1..Len(q) : i + 1 \in 1..Len(tc) /\ 1 < i + 1 /\ q[i] = tc[i + 1]
        /\ \A i, j \in 1..Len(q) : i < j => i + 1 < j + 1
    OBVIOUS
  <1>2. /\ Carried(s, c, n, m) /\ SnapshotInv(s, c, n, h, m) /\ GamestateInv(s, c, n, m)
        /\ \A i \in 1..Len(q) :
              /\ Carried(s, c, n, q[i]) /\ SnapshotInv(s, c, n, h, q[i])
              /\ GamestateInv(s, c, n, q[i]) /\ InOrder(m, q[i]) /\ q[i] \in ToClient
        /\ \A i, j \in 1..Len(q) : i < j => InOrder(q[i], q[j])
    BY <1>1 DEF World, Messages
  <1> HIDE DEF m, q
  <1>3. Parsed(c, d, m) /\ d \in Clients
    BY DEF m, Parsed
  <1>4. Fine(s, g) => Fine(s, h)
    BY Zenon DEF Fine
  <1>5. /\ m.number \in Nat /\ m.commands \in Nat /\ Len(n) \in Nat
        /\ c.serverMessageSequence \in Nat /\ c.serverCommandSequence \in Nat
        /\ c.lastExecutedServerCommand \in Nat /\ c.snap \in Nat
        /\ s.outgoingSequence \in Nat /\ s.gamestateMessageNum \in Int
    BY <1>1 DEF ToClient, Clients, Servers
  <1>6. /\ c.checksumFeed \in Int /\ d.checksumFeed \in Int
        /\ s.restartedServerId \in Int
    BY <1>3 DEF Clients, Servers, Ids
  <1>7. m.body.type = "gamestate" =>
           /\ d.systeminfo = m.body.systeminfo /\ d.checksumFeed = m.body.checksumFeed
           /\ d.snap = 0 /\ d.state = "loading"
    BY <1>3 DEF Parsed
  <1>8. m.body.type # "gamestate" =>
           /\ d.systeminfo = c.systeminfo /\ d.checksumFeed = c.checksumFeed
           /\ d.state = c.state
    BY <1>3 DEF Parsed
  <1>9. /\ d.clientCommands = c.clientCommands
        /\ d.lastExecutedServerCommand = c.lastExecutedServerCommand
        /\ d.serverMessageSequence = m.number /\ d.serverCommandSequence = m.commands
    BY <1>3 DEF Parsed
  <1>10. c.checksumFeed <= d.checksumFeed /\ d.checksumFeed <= s.restartedServerId
    <2>1. CASE m.body.type = "gamestate"
      BY <1>2, <1>7, <2>1 DEF GamestateInv
    <2>2. CASE m.body.type # "gamestate"
      BY <1>6, <1>8, <2>2 DEF World, ClientInv
    <2> QED
      BY <2>1, <2>2
  <1>11. /\ c.serverMessageSequence <= m.number /\ m.number <= s.outgoingSequence
         /\ c.serverCommandSequence <= m.commands /\ m.commands <= Len(n)
         /\ c.lastExecutedServerCommand <= c.serverCommandSequence
         /\ c.snap <= c.serverCommandSequence + 1
    BY <1>2 DEF Carried, World, ClientInv
  <1>12. ServerInv(s, n)
    BY DEF World
  <1>13. ClientInv(s, d, n)
    <2>1. d.systeminfo.sv_serverid <= s.serverId
      BY <1>2, <1>7, <1>8 DEF GamestateInv, World, ClientInv
    <2>2. d.snap <= d.serverCommandSequence + 1
      BY <1>3, <1>5, <1>9, <1>11, SMTT(30) DEF Parsed
    <2>3. s.state = "connected" => d.checksumFeed < s.restartedServerId
      BY <1>2, <1>7, <1>8 DEF GamestateInv, World, ClientInv
    <2>4. \A k \in 1..Len(c.clientCommands) : /\ c.clientCommands[k].serverId <= s.serverId
                                              /\ c.clientCommands[k].checksumFeed <= d.checksumFeed
      <3>1. \A k \in 1..Len(c.clientCommands) : c.clientCommands[k] \in Checks
        BY DEF Clients
      <3>2. \A k \in 1..Len(c.clientCommands) : c.clientCommands[k].checksumFeed \in Int
        BY <3>1 DEF Checks, Ids
      <3> QED
        BY <1>6, <1>10, <3>2 DEF World, ClientInv
    <2>5. d.state \in {"primed", "active"} =>
             /\ Len(c.clientCommands) > 0
             /\ c.clientCommands[Len(c.clientCommands)].checksumFeed = d.checksumFeed
      BY <1>7, <1>8 DEF World, ClientInv
    <2>6. s.lastClientCommand <= Len(c.clientCommands)
      BY DEF World, ClientInv
    <2> QED
      BY <1>5, <1>9, <1>10, <1>11, <2>1, <2>2, <2>3, <2>4, <2>5, <2>6 DEF ClientInv
  <1>14. LevelInv(s, d, n, g)
    <2> SUFFICES ASSUME Fine(s, g)
                 PROVE  LevelInv(s, d, n, g)
      BY DEF LevelInv
    <2>1. s.state = "active" => d.checksumFeed = s.restartedServerId
      BY <1>4, <1>6, <1>10 DEF World, LevelInv
    <2>2. HasLevel(s, d.systeminfo.sv_serverid, d.checksumFeed)
      BY <1>2, <1>4, <1>7, <1>8 DEF GamestateInv, World, LevelInv
    <2>3. \A k \in 1..Len(c.clientCommands) :
             HasLevel(s, c.clientCommands[k].serverId, c.clientCommands[k].checksumFeed)
      BY <1>4 DEF World, LevelInv
    <2>4. \A i \in 1..Len(n) : i < d.snap => HasLevel(s, n[i].sv_serverid, d.checksumFeed)
      <3> SUFFICES ASSUME NEW i \in 1..Len(n), i < d.snap
                   PROVE  HasLevel(s, n[i].sv_serverid, d.checksumFeed)
        OBVIOUS
      <3>1. CASE m.body.type = "gamestate"
        BY <1>7, <3>1
      <3>2. CASE m.body.type = "snapshot" /\ d.snap = m.commands + 1
        <4>1. i <= m.commands
          BY <1>5, <3>2
        <4> QED
          BY <1>2, <1>4, <1>8, <3>2, <4>1 DEF SnapshotInv
      <3>3. CASE m.body.type # "gamestate" /\ d.snap = c.snap
        BY <1>4, <1>8, <3>3 DEF World, LevelInv
      <3> QED
        BY <1>3, <3>1, <3>2, <3>3 DEF Parsed
    <2> QED
      BY <1>9, <2>1, <2>2, <2>3, <2>4 DEF LevelInv
  <1>15. FreshInv(s, d, n, g)
    <2> SUFFICES ASSUME ~g.stale, ~h.stale
                 PROVE  FreshInv(s, d, n, g)
      BY DEF FreshInv
    <2>1. \A k \in 1..Len(c.clientCommands) :
             c.clientCommands[k].checksumFeed <= c.clientCommands[k].serverId
      BY DEF World, FreshInv
    <2>2. CASE m.body.type # "gamestate"
      <3>1. LastString(d, n) = LastString(c, n)
        BY <1>8, <1>9, <2>2 DEF LastString
      <3> QED
        BY <1>8, <1>9, <2>1, <2>2, <3>1 DEF World, FreshInv
    <2>3. CASE m.body.type = "gamestate"
      <3>1. d.checksumFeed <= d.systeminfo.sv_serverid
        BY <1>2, <1>7, <2>3 DEF GamestateInv
      <3>2. \A i \in 1..Len(n) : n[i].sv_serverid \in Int
        <4>1. \A i \in 1..Len(n) : n[i] \in SystemInfos
          OBVIOUS
        <4> QED
          BY <4>1 DEF SystemInfos, Ids
      <3>3. ASSUME NEW i \in 1..Len(n), i > c.lastExecutedServerCommand
            PROVE  d.checksumFeed <= n[i].sv_serverid
        <4>1. CASE i > m.commands
          BY <1>2, <1>7, <2>3, <4>1 DEF GamestateInv
        <4>2. CASE ~(i > m.commands)
          <5>1. i \in (c.lastExecutedServerCommand + 1)..m.commands
            BY <1>5, <3>3, <4>2
          <5>2. ~(n[i].sv_serverid < m.body.checksumFeed)
            BY <2>3, <5>1 DEF m
          <5> QED
            BY <1>6, <1>7, <2>3, <3>2, <5>2
        <4> QED
          BY <4>1, <4>2
      <3>4. ASSUME d.checksumFeed = s.restartedServerId
            PROVE  LastString(d, n) = s.systeminfo
        <4>1. IF Len(n) > m.commands THEN n[Len(n)] = s.systeminfo
              ELSE m.body.systeminfo = s.systeminfo
          BY <1>2, <1>7, <2>3, <3>4 DEF GamestateInv
        <4>2. CASE Len(n) > c.lastExecutedServerCommand
          <5>1. Len(n) \in 1..Len(n) /\ Len(n) > 0
            BY <1>5, <4>2
          <5>2. n[Len(n)].sv_serverid >= s.restartedServerId
            BY <1>6, <3>2, <3>3, <3>4, <4>2, <5>1
          <5>3. n[Len(n)] = s.systeminfo
            BY <5>1, <5>2 DEF World, ServerInv
          <5> QED
            BY <1>9, <4>2, <5>3 DEF LastString
        <4>3. CASE ~(Len(n) > c.lastExecutedServerCommand)
          <5>1. ~(Len(n) > m.commands)
            BY <1>5, <1>11, <4>3
          <5> QED
            BY <1>7, <1>9, <2>3, <4>1, <4>3, <5>1 DEF LastString
        <4> QED
          BY <4>2, <4>3
      <3> QED
        BY <1>9, <2>1, <3>1, <3>3, <3>4 DEF FreshInv
    <2> QED
      BY <2>2, <2>3
  <1>16. ASSUME NEW i \in 1..Len(q)
         PROVE  /\ Carried(s, d, n, q[i]) /\ SnapshotInv(s, d, n, g, q[i])
                /\ GamestateInv(s, d, n, q[i])
    <2>1. Carried(s, d, n, q[i])
      BY <1>2, <1>9 DEF Carried, InOrder
    <2>2. SnapshotInv(s, d, n, g, q[i])
      BY <1>2, <1>4, <1>6, <1>10 DEF SnapshotInv, HasLevel
    <2>3. q[i].body.type = "gamestate" => d.checksumFeed <= q[i].body.checksumFeed
      BY <1>2, <1>7, <1>8 DEF GamestateInv, InOrder
    <2>4. GamestateInv(s, d, n, q[i])
      BY <1>2, <2>3 DEF GamestateInv
    <2> QED
      BY <2>1, <2>2, <2>4
  <1>17. ASSUME NEW i \in 1..Len(ts)
         PROVE  WrittenInv(s, d, g, ts[i])
    <2> DEFINE w == ts[i]
    <2>1. WrittenInv(s, c, h, w) /\ w \in ToServer
      BY DEF World, Messages
    <2>2. w.messageAcknowledge \in Nat /\ w.checksumFeed \in Int
      BY <2>1, SMTT(30) DEF ToServer, Ids
    <2> HIDE DEF w
    <2>3. w.messageAcknowledge <= m.number /\ w.checksumFeed <= d.checksumFeed
      <3>1. w.messageAcknowledge <= c.serverMessageSequence /\ w.checksumFeed <= c.checksumFeed
        BY <2>1 DEF WrittenInv
      <3> QED
        <4>1. w.messageAcknowledge <= m.number
          BY <1>5, <1>11, <2>2, <3>1, SMTT(30)
        <4>2. w.checksumFeed <= d.checksumFeed
          BY <1>6, <1>10, <2>2, <3>1
        <4> QED
          BY <4>1, <4>2
    <2>4. ASSUME ~g.stale, s.state = "primed", w.serverId < s.restartedServerId,
                 w.messageAcknowledge > s.gamestateMessageNum
          PROVE  d.checksumFeed # s.restartedServerId
      <3>1. CASE m.body.type = "gamestate"
        <4>1. m.number <= s.gamestateMessageNum
          BY <1>2, <3>1 DEF GamestateInv
        <4>2. w.messageAcknowledge <= c.serverMessageSequence
          BY <2>1 DEF WrittenInv
        <4> QED
          BY <1>5, <1>11, <2>2, <2>4, <4>1, <4>2, SMTT(30)
      <3>2. CASE m.body.type # "gamestate"
        BY <1>8, <2>1, <2>4, <3>2 DEF WrittenInv
      <3> QED
        BY <3>1, <3>2
    <2>5. ~g.stale => \A k \in 1..w.clientCommands : c.clientCommands[k].checksumFeed <= w.serverId
      BY <2>1 DEF WrittenInv
    <2>6. Fine(s, g) => HasLevel(s, w.serverId, w.checksumFeed)
      BY <1>4, <2>1 DEF WrittenInv
    <2>7. WrittenInv(s, d, g, w)
      BY <1>9, <2>1, <2>3, <2>4, <2>5, <2>6 DEF WrittenInv
    <2> QED
      BY <2>7 DEF w
  <1>18. Messages(s, d, n, g, q, ts)
    BY <1>2, <1>16, <1>17 DEF Messages
  <1> QED
    BY <1>12, <1>13, <1>14, <1>15, <1>18 DEF World, q

\* A message comes to the client.
LEMMA ClientPacketKeeps ==
    ASSUME Inv, CL_PacketEvent
    PROVE  Inv' /\ sv' = sv
  <1> DEFINE m == Head(toClient)
             d == CL_ParseServerMessage(cl, m)
             e == history.stale \/ Overtaken(cl, m)
             g == [history EXCEPT !.stale = e]
  <1>1. /\ toClient # <<>> /\ toClient' = Tail(toClient) /\ cl' = d /\ history' = g
        /\ sv' = sv /\ commands' = commands /\ toServer' = toServer
    BY DEF CL_PacketEvent
  <1>2. m = toClient[1] /\ m \in ToClient /\ Tail(toClient) \in Seq(ToClient)
    BY <1>1, AllTyped
  <1> HIDE DEF m
  <1>3. Parsed(cl, d, m) /\ d \in Clients
    BY <1>2, AllTyped, MessageParsed DEF Parsed
  <1> HIDE DEF d
  <1>4. e \in BOOLEAN /\ (~e => ~history.stale) /\ (~e => ~Overtaken(cl, m))
    BY AllTyped DEF Histories
  <1> HIDE DEF e
  <1>5. g \in Histories /\ g.early = history.early /\ g.stale = e /\ g.thought = history.thought
    BY <1>4, AllTyped DEF Histories
  <1> HIDE DEF g
  <1>6. ~g.stale => ~history.stale /\ ~Overtaken(cl, m)
    BY <1>4, <1>5, Zenon
  <1>7. ~g.stale /\ m.body.type = "gamestate" =>
           \A i \in (cl.lastExecutedServerCommand + 1)..m.commands :
              ~(commands[i].sv_serverid < m.body.checksumFeed)
    BY <1>6 DEF Overtaken
  <1>8. World(sv, d, commands, g, Tail(toClient), toServer)
    BY <1>1, <1>2, <1>3, <1>5, <1>6, <1>7, AllTyped, ReceivedMessage
  <1>9. CheckInv(sv, d, g)
    <2>1. d.clientCommands = cl.clientCommands
      BY <1>3 DEF Parsed
    <2>2. Fine(sv, g) => Fine(sv, history)
      BY <1>5, Zenon DEF Fine
    <2>3. sv.gotCP /\ sv.state # "zombie" => sv.pureAuthentic
      BY DEF Inv, CheckInv
    <2>4. sv_pure /\ ~g.stale /\ Fine(sv, g) /\ sv.state \in {"primed", "active"} =>
             \A k \in 1..sv.lastClientCommand :
                d.clientCommands[k].checksumFeed = sv.restartedServerId => sv.gotCP
      BY <1>6, <2>1, <2>2, Zenon DEF Inv, CheckInv
    <2>5. g.stale \/ g.early \/ sv.state # "zombie"
      BY <1>5, <1>6, Zenon DEF Inv, CheckInv
    <2> QED
      BY <2>3, <2>4, <2>5, Zenon DEF CheckInv
  <1>10. PlaysThisLevelUnlessEarly'
    BY <1>1, <1>5, Zenon DEF Inv, PlaysThisLevelUnlessEarly, PlaysThisLevel
  <1> QED
    BY <1>1, <1>2, <1>3, <1>5, <1>8, <1>9, <1>10, AllTyped DEF Inv, Typed

-----------------------------------------------------------------------------
(* Theorems                                                                *)

\* At first nothing has been sent, and the client holds nothing.
LEMMA InvInit ==
    ASSUME Init
    PROVE  Inv
  <1>1. SystemInfo(1, 0) \in SystemInfos /\ SystemInfo(0, 0) \in SystemInfos
        /\ SystemInfo(1, 0).sv_serverid = 1 /\ SystemInfo(0, 0).sv_serverid = 0
    BY GamestateAssumption DEF SystemInfo, SystemInfos
  <1> DEFINE i == SystemInfo(1, 0)
             o == SystemInfo(0, 0)
             thought == [feed |-> 0, level |-> 0]
  <1>2. /\ sv = [state |-> "connected", serverId |-> 1, restartedServerId |-> 1,
                 cvars |-> i, systeminfo |-> i, outgoingSequence |-> 1,
                 gamestateMessageNum |-> -1, lastClientCommand |-> 0,
                 gotCP |-> FALSE, pureAuthentic |-> FALSE]
        /\ cl = [state |-> "connected", systeminfo |-> o, checksumFeed |-> 0,
                 serverMessageSequence |-> 0, serverCommandSequence |-> 0,
                 lastExecutedServerCommand |-> 0, snap |-> 0, clientCommands |-> <<>>]
        /\ commands = <<>> /\ toClient = <<>> /\ toServer = <<>>
        /\ history = [early |-> FALSE, stale |-> FALSE, thought |-> thought]
    BY DEF Init
  <1> HIDE DEF i, o
  <1>3. 0 \in Ids /\ 1 \in Ids
    BY GamestateAssumption DEF Ids
  <1>4. sv \in Servers
    BY <1>1, <1>2, <1>3 DEF Servers, ServerStates, i
  <1>5. cl \in Clients
    BY <1>1, <1>2, <1>3 DEF Clients, ClientStates, o
  <1>6. /\ commands \in Seq(SystemInfos) /\ toClient \in Seq(ToClient) /\ toServer \in Seq(ToServer)
        /\ Len(commands) = 0 /\ Len(toClient) = 0 /\ Len(toServer) = 0
    BY <1>2
  <1>7. history \in Histories /\ ~history.early /\ ~history.stale
        /\ history.thought.feed = history.thought.level
    BY <1>2, <1>3 DEF Histories
  <1>8. /\ sv.state = "connected" /\ sv.serverId = 1 /\ sv.restartedServerId = 1
        /\ sv.cvars = i /\ sv.systeminfo = i /\ sv.outgoingSequence = 1
        /\ sv.gamestateMessageNum = -1 /\ sv.lastClientCommand = 0 /\ ~sv.gotCP
        /\ i.sv_serverid = 1
    BY <1>1, <1>2 DEF i
  <1>9. /\ cl.state = "connected" /\ cl.systeminfo = o /\ cl.checksumFeed = 0
        /\ cl.serverMessageSequence = 0 /\ cl.serverCommandSequence = 0
        /\ cl.lastExecutedServerCommand = 0 /\ cl.snap = 0 /\ Len(cl.clientCommands) = 0
        /\ o.sv_serverid = 0
    BY <1>1, <1>2 DEF o
  <1>10. ServerInv(sv, commands)
    BY <1>6, <1>8 DEF ServerInv
  <1>11. ClientInv(sv, cl, commands)
    BY <1>6, <1>8, <1>9 DEF ClientInv
  <1>12. LevelInv(sv, cl, commands, history)
    BY <1>6, <1>8, <1>9 DEF LevelInv, HasLevel
  <1>13. FreshInv(sv, cl, commands, history)
    BY <1>6, <1>8, <1>9 DEF FreshInv
  <1>14. Messages(sv, cl, commands, history, toClient, toServer)
    BY <1>6 DEF Messages
  <1>15. CheckInv(sv, cl, history)
    BY <1>7, <1>8 DEF CheckInv
  <1> QED
    BY <1>4, <1>5, <1>6, <1>7, <1>10, <1>11, <1>12, <1>13, <1>14, <1>15
       DEF Inv, Typed, World, PlaysThisLevelUnlessEarly, PlaysThisLevel

\* What every step leaves true, and what a gamestate is sent for.
LEMMA StepKeeps ==
    ASSUME Inv, [Next]_vars
    PROVE  /\ Inv'
           /\ sv'.gamestateMessageNum # sv.gamestateMessageNum /\ ~history.stale =>
                 cl.checksumFeed # sv.restartedServerId
  <1>1. CASE SV_PacketEvent
    BY <1>1, PacketKeeps
  <1>2. CASE SV_Frame
    BY <1>2, FrameKeeps
  <1>3. CASE Cvar_Set
    BY <1>3, CvarKeeps
  <1>4. CASE SV_SpawnServer
    BY <1>4, SpawnKeeps
  <1>5. CASE SV_MapRestart_f
    BY <1>5, RestartKeeps
  <1>6. CASE CL_PacketEvent
    BY <1>6, ClientPacketKeeps
  <1>7. CASE CL_InitCGame
    BY <1>7, InitCGameKeeps DEF CL_InitCGame
  <1>8. CASE CL_FirstSnapshot
    BY <1>8, FirstSnapshotKeeps DEF CL_FirstSnapshot
  <1>9. CASE CG_ExecuteNewServerCommands
    BY <1>9, ExecutionKeeps DEF CG_ExecuteNewServerCommands
  <1>10. CASE CL_WritePacket
    BY <1>10, WriteKeeps DEF CL_WritePacket
  <1>11. CASE LoseToClient \/ LoseToServer
    BY <1>11, LossKeeps
  <1>12. CASE UNCHANGED vars
    <2>1. /\ sv' = sv /\ cl' = cl /\ commands' = commands /\ history' = history
          /\ toClient' = toClient /\ toServer' = toServer
      BY <1>12 DEF vars
    <2> QED
      BY <2>1 DEF Inv, Typed, PlaysThisLevelUnlessEarly, PlaysThisLevel
  <1> QED
    BY <1>1, <1>2, <1>3, <1>4, <1>5, <1>6, <1>7, <1>8, <1>9, <1>10, <1>11, <1>12 DEF Next

\* The invariant holds of every behaviour, in which messages are lost at will.
THEOREM InductiveInvariant == Spec => []Inv
  <1>1. Init => Inv
    BY InvInit
  <1>2. Inv /\ [Next]_vars => Inv'
    BY StepKeeps
  <1> QED
    BY <1>1, <1>2, PTL DEF Spec

\* The server's and the client's state is of its type: no counter passes the one it
\* follows, no id is of a level there has not been.
THEOREM TypeCorrect == Spec => []TypeOK
  <1>1. Inv => TypeOK
    <2> SUFFICES ASSUME Inv PROVE TypeOK
      OBVIOUS
    <2>1. /\ sv.state \in {"zombie", "connected", "primed", "active"}
          /\ sv.serverId \in Ids
          /\ {sv.cvars, sv.systeminfo, cl.systeminfo} \subseteq SystemInfos
          /\ cl.state \in {"connected", "loading", "primed", "active"}
          /\ cl.checksumFeed \in Ids
      BY AllTyped DEF Servers, ServerStates, Clients, ClientStates
    <2>2. {sv.gotCP, sv.pureAuthentic} \subseteq BOOLEAN
      BY AllTyped DEF Servers
    <2>3. sv.restartedServerId \in 1..sv.serverId
      BY AllTyped DEF World, ServerInv
    <2>4. sv.gamestateMessageNum < sv.outgoingSequence
      BY AllTyped DEF World, ServerInv
    <2>5. /\ cl.lastExecutedServerCommand \in Nat /\ cl.serverCommandSequence \in Nat
          /\ Len(commands) \in Nat /\ Len(cl.clientCommands) \in Nat
      BY AllTyped DEF Clients
    <2>6. /\ sv.lastClientCommand \in 0..Len(cl.clientCommands)
          /\ cl.lastExecutedServerCommand \in 0..cl.serverCommandSequence
          /\ cl.serverCommandSequence \in 0..Len(commands)
      BY <2>5, AllTyped DEF World, ClientInv
    <2>7. Range(commands) \subseteq SystemInfos
      BY AllTyped DEF Range
    <2> QED
      BY <2>1, <2>2, <2>3, <2>4, <2>6, <2>7 DEF TypeOK
  <1> QED
    BY <1>1, InductiveInvariant, PTL

\* Who plays holds the gamestate of the level that is played.
THEOREM WhoPlaysHasTheLevel == Spec => []PlaysThisLevelUnlessEarly
  <1>1. Inv => PlaysThisLevelUnlessEarly
    BY DEF Inv
  <1> QED
    BY <1>1, InductiveInvariant, PTL

\* Nobody whose files are good is dropped for them, but a client that has gone back to an
\* earlier server id.
THEOREM HonestStay == Spec => []NoHonestDropUnlessStale
  <1>1. Inv => NoHonestDropUnlessStale
    BY Zenon DEF Inv, CheckInv, NoHonestDropUnlessStale, NoHonestDrop
  <1> QED
    BY <1>1, InductiveInvariant, PTL

\* A client in the world that has executed every command holds the server's system string.
THEOREM StringArrives == Spec => []HoldsTheString
  <1>1. Inv => HoldsTheString
    <2> SUFFICES ASSUME Inv, ~history.stale, cl.checksumFeed = sv.restartedServerId,
                        cl.lastExecutedServerCommand = Len(commands)
                 PROVE  cl.systeminfo = sv.systeminfo
      BY DEF HoldsTheString
    <2>1. LastString(cl, commands) = sv.systeminfo
      BY AllTyped DEF World, FreshInv
    <2>2. Len(commands) \in Nat
      BY AllTyped
    <2> QED
      BY <2>1, <2>2 DEF LastString
  <1> QED
    BY <1>1, InductiveInvariant, PTL

\* The gamestate is sent only to a client who does not have this level's.
THEOREM GamestateIsNeeded == Spec => NoNeedlessGamestate
  <1>1. Inv /\ [Next]_vars =>
           [sv'.gamestateMessageNum # sv.gamestateMessageNum /\ ~history.stale
               => cl.checksumFeed # sv.restartedServerId]_vars
    BY StepKeeps
  <1> QED
    BY <1>1, InductiveInvariant, PTL DEF Spec, NoNeedlessGamestate

=============================================================================
