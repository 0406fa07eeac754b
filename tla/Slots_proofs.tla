---------------------------- MODULE Slots_proofs ----------------------------
(***************************************************************************)
(* Proofs about Slots, for every number of players, slots, private slots   *)
(* and bots.                                                               *)
(*                                                                         *)
(* That a player has one slot, and that a request which is late or sent    *)
(* twice disturbs nobody, rest on the order in which slots are looked at:  *)
(* the reconnect limit is that of the first slot the player's address has  *)
(* had, in use or not, so the slot in use has to be that one.              *)
(***************************************************************************)
EXTENDS Slots, TLAPS

-----------------------------------------------------------------------------
(* The inductive invariant                                                 *)

\* What TypeOK says of a slot, and of what the game knows of it.
SlotRecords  == [state  : {"free", "zombie", "connected", "active"},
                 adr    : Players \cup {Bot, Nobody},
                 recent : BOOLEAN]
LevelRecords == [connected : {"disconnected", "connecting", "connected"},
                 cl_guid   : Players \cup {Bot, Nobody}]

USE DEF SlotRecords, LevelRecords

\* A slot has the address of a player only if the player may have the slot.
OpenInv == \A p \in Players, i \in Clients : clients[i].adr = p => i \in Open(p)

\* A player's slot comes before all that it had earlier.
FirstInv ==
    \A p \in Players : \A i \in Own(p), j \in Clients : clients[j].adr = p => i <= j

\* The connection of a slot is recent while the answer to the request is under way, and
\* while another request is, of a player who has got the answer.
RecentInv ==
    \A p \in Players, i \in Clients :
        /\ InUse(i) /\ clients[i].adr = p
        /\ reply[p] = "connectResponse" \/ (p \in connecting /\ cls[p] = "connected")
        => clients[i].recent

Inv == TypeOK /\ GameKnowsWhoPlays /\ OpenInv /\ FirstInv /\ RecentInv

LEMMA InitInv == Init => Inv
  <1> SUFFICES ASSUME Init PROVE Inv
    OBVIOUS
  <1> USE SlotsAssumption
  <1>1. TypeOK
    BY DEF Init, TypeOK, NoClient, Absent, Clients
  <1>2. \A i \in Clients : \/ i \in BotSlots /\ clients[i].state = "active" /\ clients[i].adr = Bot
                           \/ clients[i] = NoClient
    BY DEF Init, NoClient
  <1>3. \A i \in Clients : clients[i].adr \notin Players
    BY <1>2 DEF NoClient
  <1>4. OpenInv /\ FirstInv /\ RecentInv
    BY <1>3 DEF OpenInv, FirstInv, RecentInv, Own
  <1>5. GameKnowsWhoPlays
    BY <1>1 DEF Init, GameKnowsWhoPlays, Ghost, InUse, NoClient, Absent, Clients
  <1> QED
    BY <1>1, <1>4, <1>5 DEF Inv

-----------------------------------------------------------------------------
(* The connect request                                                     *)

\* The slot a player is given is one it may have, before all that it had earlier, and
\* its only one if it has one.
LEMMA SlotGiven ==
    ASSUME Inv, NEW p \in Players, NEW i \in Clients, First(i, SlotsFor(p))
    PROVE  /\ i \in Open(p)
           /\ Own(p) \subseteq {i}
           /\ \A j \in Clients : clients[j].adr = p => i <= j
           /\ \/ clients[i].state = "free"
              \/ clients[i].adr = p
              \/ i \in Bots(p)
  <1> USE SlotsAssumption
  <1>1. CASE Own(p) # {}
    <2>1. i \in Own(p)
      BY <1>1 DEF First, SlotsFor
    <2>2. \A j \in Clients : clients[j].adr = p => i <= j
      BY <2>1 DEF Inv, FirstInv
    <2>3. \A j \in Own(p) : j <= i /\ i <= j
      BY <2>1 DEF Inv, FirstInv, Own
    <2>4. Own(p) \subseteq {i}
      BY <2>3 DEF Own, Clients
    <2> QED
      BY <2>1, <2>2, <2>4 DEF Own, Inv, OpenInv
  <1>2. CASE Own(p) = {}
    <2>1. \A j \in Clients : clients[j].adr = p => j \in Free(p)
      BY <1>2 DEF Own, Free, Inv, OpenInv
    <2>2. CASE Free(p) # {}
      <3>1. i \in Free(p) /\ \A j \in Free(p) : i <= j
        BY <1>2, <2>2 DEF First, SlotsFor
      <3> QED
        BY <1>2, <2>1, <3>1 DEF Free
    <2>3. CASE Free(p) = {}
      <3>1. i \in Bots(p)
        BY <1>2, <2>3 DEF First, SlotsFor
      <3> QED
        BY <1>2, <2>1, <2>3, <3>1 DEF Bots
    <2> QED
      BY <2>2, <2>3
  <1> QED
    BY <1>1, <1>2

\* What the player and the slot are after the request.
LEMMA AfterGiving ==
    ASSUME Inv, NEW p \in Players, NEW i \in Clients, GiveSlot(p, i)
    PROVE  /\ \A j \in Clients \ {i} : clients'[j] = clients[j] /\ level'[j] = level[j]
           /\ clients'[i].adr = p
           /\ \/ /\ clients'[i].state = "free" /\ g_guidCheck
                 /\ reply' = [reply EXCEPT ![p] = "denied"]
              \/ /\ clients'[i].state = "connected" /\ clients'[i].recent
                 /\ level'[i].cl_guid = p
                 /\ reply' = [reply EXCEPT ![p] = "connectResponse"]
           /\ clients' \in [Clients -> SlotRecords]
           /\ level' \in [Clients -> LevelRecords]
  <1> DEFINE lv == IF i \in Bots(p) THEN ClientDisconnect(level, i) ELSE level
  <1>1. /\ lv \in [Clients -> LevelRecords]
        /\ \A j \in Clients \ {i} : lv[j] = level[j]
    BY DEF Inv, TypeOK, ClientDisconnect, Absent
  <1>2. CASE Denied(lv, p)
    <2>1. /\ clients' = [clients EXCEPT ![i] = [NoClient EXCEPT !.adr = p]]
          /\ level' = lv
          /\ reply' = [reply EXCEPT ![p] = "denied"]
      BY <1>2 DEF GiveSlot
    <2> QED
      BY <1>1, <1>2, <2>1 DEF Denied, NoClient, Inv, TypeOK
  <1>3. CASE ~Denied(lv, p)
    <2>1. /\ clients' = [clients EXCEPT ![i] =
                           [state |-> "connected", adr |-> p, recent |-> TRUE]]
          /\ level' = [lv EXCEPT ![i] = [connected |-> "connecting", cl_guid |-> p]]
          /\ reply' = [reply EXCEPT ![p] = "connectResponse"]
      BY <1>3 DEF GiveSlot, ClientConnect
    <2> QED
      BY <1>1, <2>1 DEF Inv, TypeOK
  <1> QED
    BY <1>2, <1>3

LEMMA DirectConnectStep ==
    ASSUME Inv, NEW p \in Players, SV_DirectConnect(p)
    PROVE  Inv'
  <1> USE SlotsAssumption
  <1>1. CASE UNCHANGED <<clients, level, reply>>
    <2>1. connecting' \subseteq connecting /\ UNCHANGED <<g_guidCheck, cls>>
      BY DEF SV_DirectConnect
    <2> QED
      BY <1>1, <2>1 DEF Inv, TypeOK, GameKnowsWhoPlays, OpenInv, FirstInv, RecentInv,
                        Open, Own, Ghost, InUse
  <1>2. ASSUME NEW i \in Clients, First(i, SlotsFor(p)), GiveSlot(p, i)
        PROVE  Inv'
    <2>1. /\ connecting' = connecting \ {p}
          /\ UNCHANGED <<g_guidCheck, cls>>
      BY DEF SV_DirectConnect
    <2>2. /\ i \in Open(p)
          /\ Own(p) \subseteq {i}
          /\ \A j \in Clients : clients[j].adr = p => i <= j
      BY <1>2, SlotGiven
    <2>3. /\ \A j \in Clients \ {i} : clients'[j] = clients[j] /\ level'[j] = level[j]
          /\ clients'[i].adr = p
          /\ \/ /\ clients'[i].state = "free" /\ g_guidCheck
                /\ reply' = [reply EXCEPT ![p] = "denied"]
             \/ /\ clients'[i].state = "connected" /\ clients'[i].recent
                /\ level'[i].cl_guid = p
                /\ reply' = [reply EXCEPT ![p] = "connectResponse"]
      BY <1>2, AfterGiving
    <2>4. TypeOK'
      <3>1. reply' \in [Players -> {"none", "connectResponse", "denied"}]
        BY <2>3 DEF Inv, TypeOK
      <3>2. connecting' \subseteq Players /\ cls' = cls /\ g_guidCheck' = g_guidCheck
        BY <2>1 DEF Inv, TypeOK
      <3>3. /\ clients' \in [Clients -> SlotRecords]
            /\ level' \in [Clients -> LevelRecords]
        BY <1>2, AfterGiving
      <3> QED
        BY <3>1, <3>2, <3>3 DEF Inv, TypeOK
    <2>5. GameKnowsWhoPlays'
      BY <2>1, <2>3 DEF Inv, GameKnowsWhoPlays, Ghost, InUse
    <2>6. OpenInv'
      BY <2>2, <2>3 DEF Inv, OpenInv, Open
    <2>7. FirstInv'
      <3> SUFFICES ASSUME NEW q \in Players, NEW k \in Own(q)', NEW j \in Clients,
                          clients'[j].adr = q
                   PROVE  k <= j
        BY DEF FirstInv
      <3>1. k \in Clients /\ clients'[k].state # "free" /\ clients'[k].adr = q
        BY DEF Own
      <3>2. CASE k = i
        BY <2>2, <2>3, <3>1, <3>2 DEF Clients
      <3>3. CASE k # i
        <4>1. k \in Own(q)
          BY <2>3, <3>1, <3>3 DEF Own
        <4>2. q # p
          BY <2>2, <3>3, <4>1
        <4> QED
          BY <2>3, <4>1, <4>2 DEF Inv, FirstInv
      <3> QED
        BY <3>2, <3>3
    <2>8. RecentInv'
      <3> SUFFICES ASSUME NEW q \in Players, NEW j \in Clients,
                          InUse(j)', clients'[j].adr = q,
                          \/ reply'[q] = "connectResponse"
                          \/ q \in connecting' /\ cls'[q] = "connected"
                   PROVE  clients'[j].recent
        BY DEF RecentInv
      <3>1. CASE j = i
        BY <2>3, <3>1 DEF InUse
      <3>2. CASE j # i
        <4>1. InUse(j) /\ clients[j].adr = q /\ clients'[j] = clients[j]
          BY <2>3, <3>2 DEF InUse
        <4>2. q # p
          BY <2>2, <3>2, <4>1 DEF InUse, Own
        <4>3. reply'[q] = reply[q]
          BY <2>3, <4>2 DEF Inv, TypeOK
        <4> QED
          BY <2>1, <4>1, <4>2, <4>3 DEF Inv, RecentInv
      <3> QED
        BY <3>1, <3>2
    <2> QED
      BY <2>4, <2>5, <2>6, <2>7, <2>8 DEF Inv
  <1> QED
    BY <1>1, <1>2 DEF SV_DirectConnect

-----------------------------------------------------------------------------
(* The other steps                                                         *)

\* The messages that get lost or arrive, and the programs of the players; the slots stay.
LEMMA PlayerStep ==
    ASSUME Inv, NEW p \in Players,
           \/ CL_Connect_f(p) \/ SV_GetChallenge(p) \/ CL_CheckForResend(p)
           \/ CL_ConnectionlessPacket(p) \/ CL_CheckTimeout(p) \/ Lose(p)
    PROVE  Inv'
  <1>1. UNCHANGED <<clients, level, g_guidCheck>>
    BY DEF CL_Connect_f, SV_GetChallenge, CL_CheckForResend, CL_ConnectionlessPacket,
           CL_CheckTimeout, Lose
  <1>2. GameKnowsWhoPlays' /\ OpenInv' /\ FirstInv'
    BY <1>1 DEF Inv, GameKnowsWhoPlays, OpenInv, FirstInv, Open, Own, Ghost, InUse
  <1>3. TypeOK' /\ RecentInv'
    <2>1. CASE CL_Connect_f(p) \/ SV_GetChallenge(p)
      BY <1>1, <2>1 DEF CL_Connect_f, SV_GetChallenge, Inv, TypeOK, RecentInv, InUse
    <2>2. CASE CL_CheckForResend(p)
      BY <1>1, <2>2 DEF CL_CheckForResend, Inv, TypeOK, RecentInv, InUse
    <2>3. CASE CL_ConnectionlessPacket(p)
      BY <1>1, <2>3 DEF CL_ConnectionlessPacket, Inv, TypeOK, RecentInv, InUse
    <2>4. CASE CL_CheckTimeout(p)
      BY <1>1, <2>4 DEF CL_CheckTimeout, Inv, TypeOK, RecentInv, InUse
    <2>5. CASE Lose(p)
      BY <1>1, <2>5 DEF Lose, Inv, TypeOK, RecentInv, InUse
    <2> QED
      BY <2>1, <2>2, <2>3, <2>4, <2>5
  <1> QED
    BY <1>2, <1>3 DEF Inv

\* Nothing that takes no slot for a player, nor sends one anything, disturbs the order of
\* the slots or what is known of their age.
LEMMA SlotsKept ==
    ASSUME Inv,
           \A j \in Clients : /\ clients'[j].adr = clients[j].adr
                              /\ clients'[j].recent = clients[j].recent
                              /\ InUse(j)' => InUse(j)
                              /\ clients'[j].state # "free" => clients[j].state # "free",
           \A p \in Players : cls'[p] = "connected" => cls[p] = "connected",
           connecting' = connecting, reply' = reply
    PROVE  OpenInv' /\ FirstInv' /\ RecentInv'
  <1>1. OpenInv'
    BY DEF Inv, OpenInv, Open
  <1>2. FirstInv'
    <2> SUFFICES ASSUME NEW p \in Players, NEW i \in Own(p)', NEW j \in Clients,
                        clients'[j].adr = p
                 PROVE  i <= j
      BY DEF FirstInv
    <2>1. i \in Own(p) /\ clients[j].adr = p
      BY DEF Own
    <2> QED
      BY <2>1 DEF Inv, FirstInv
  <1>3. RecentInv'
    BY DEF Inv, RecentInv, InUse
  <1> QED
    BY <1>1, <1>2, <1>3

\* A slot is given back, as a zombie's or at once: the game is told.
LEMMA DropStep ==
    ASSUME Inv, NEW i \in Clients, NEW state \in {"free", "zombie"}, InUse(i),
           SV_DropClient(i, state),
           cls' \in [Players -> {"disconnected", "connecting", "challenging", "connected"}],
           \A p \in Players : cls'[p] = "connected" => cls[p] = "connected",
           UNCHANGED <<g_guidCheck, connecting, reply>>
    PROVE  Inv'
  <1>1. /\ clients' = [clients EXCEPT ![i].state = state]
        /\ level' = [level EXCEPT ![i] = Absent]
    BY DEF SV_DropClient, ClientDisconnect
  <1>2. TypeOK'
    BY <1>1 DEF Inv, TypeOK, Absent
  <1>3. GameKnowsWhoPlays'
    <2> SUFFICES ASSUME NEW j \in Clients
                 PROVE  /\ InUse(j)' => level'[j].cl_guid = clients'[j].adr
                        /\ clients'[j].state = "active" => level'[j].connected = "connected"
                        /\ clients'[j].state = "zombie" => level'[j] = Absent
                        /\ Ghost(j)' => g_guidCheck'
      BY DEF GameKnowsWhoPlays
    <2>1. CASE j = i
      BY <1>1, <2>1 DEF Inv, TypeOK, Ghost, InUse, Absent
    <2>2. CASE j # i
      <3>1. clients'[j] = clients[j] /\ level'[j] = level[j] /\ g_guidCheck' = g_guidCheck
        BY <1>1, <2>2 DEF Inv, TypeOK
      <3> QED
        BY <3>1 DEF Inv, GameKnowsWhoPlays, Ghost, InUse
    <2> QED
      BY <2>1, <2>2
  <1>4. \A j \in Clients : /\ clients'[j].adr = clients[j].adr
                           /\ clients'[j].recent = clients[j].recent
                           /\ InUse(j)' => InUse(j)
                           /\ clients'[j].state # "free" => clients[j].state # "free"
    BY <1>1 DEF Inv, TypeOK, InUse
  <1>5. OpenInv' /\ FirstInv' /\ RecentInv'
    BY <1>4, SlotsKept
  <1> QED
    BY <1>2, <1>3, <1>5 DEF Inv

LEMMA DisconnectStep ==
    ASSUME Inv, NEW p \in Players, CL_Disconnect(p)
    PROVE  Inv'
  <1>1. /\ cls' \in [Players -> {"disconnected", "connecting", "challenging", "connected"}]
        /\ \A q \in Players : cls'[q] = "connected" => cls[q] = "connected"
        /\ UNCHANGED <<g_guidCheck, connecting, reply>>
    BY DEF CL_Disconnect, Inv, TypeOK
  <1>2. CASE UNCHANGED <<clients, level>>
    BY <1>1, <1>2 DEF Inv, TypeOK, GameKnowsWhoPlays, OpenInv, FirstInv, RecentInv,
                      Open, Own, Ghost, InUse
  <1>3. ASSUME NEW i \in Clients, Playing(i, p), SV_DropClient(i, "zombie")
        PROVE  Inv'
    BY <1>1, <1>3, DropStep DEF Playing
  <1> QED
    BY <1>2, <1>3 DEF CL_Disconnect

LEMMA SlotStep ==
    ASSUME Inv, NEW i \in Clients,
           \/ ReconnectLimitPasses(i) \/ SV_ClientEnterWorld(i)
           \/ SV_Kick(i) \/ SV_CheckTimeouts(i)
    PROVE  Inv'
  <1>1. CASE ReconnectLimitPasses(i)
    <2>1. /\ clients' = [clients EXCEPT ![i].recent = FALSE]
          /\ clients[i].adr \notin connecting /\ reply[clients[i].adr] = "none"
          /\ UNCHANGED <<level, g_guidCheck, cls, connecting, reply>>
      BY <1>1 DEF ReconnectLimitPasses
    <2>2. /\ clients[i] \in SlotRecords
          /\ clients'[i] = [clients[i] EXCEPT !.recent = FALSE]
          /\ \A j \in Clients \ {i} : clients'[j] = clients[j]
          /\ DOMAIN clients' = Clients /\ clients' = [j \in Clients |-> clients'[j]]
      BY <2>1 DEF Inv, TypeOK
    <2>3. TypeOK'
      <3>1. clients'[i] \in SlotRecords
        BY <2>2
      <3> QED
        BY <2>1, <2>2, <3>1 DEF Inv, TypeOK
    <2>4. \A j \in Clients : /\ clients'[j].adr = clients[j].adr
                             /\ clients'[j].state = clients[j].state
                             /\ j # i => clients'[j].recent = clients[j].recent
      BY <2>2
    <2>5. GameKnowsWhoPlays'
      BY <2>1, <2>4 DEF Inv, GameKnowsWhoPlays, Ghost, InUse
    <2>6. OpenInv'
      BY <2>4 DEF Inv, OpenInv, Open
    <2>7. FirstInv'
      <3> SUFFICES ASSUME NEW p \in Players, NEW k \in Own(p)', NEW j \in Clients,
                          clients'[j].adr = p
                   PROVE  k <= j
        BY DEF FirstInv
      <3>1. k \in Own(p) /\ clients[j].adr = p
        BY <2>4 DEF Own
      <3> QED
        BY <3>1 DEF Inv, FirstInv
    <2>8. RecentInv'
      BY <2>1, <2>4 DEF Inv, RecentInv, InUse
    <2> QED
      BY <2>3, <2>5, <2>6, <2>7, <2>8 DEF Inv
  <1>2. CASE SV_ClientEnterWorld(i)
    <2>1. /\ clients' = [clients EXCEPT ![i].state = "active"]
          /\ level' = [level EXCEPT ![i].connected = "connected"]
          /\ InUse(i)
          /\ UNCHANGED <<g_guidCheck, cls, connecting, reply>>
      BY <1>2 DEF SV_ClientEnterWorld, ClientBegin, InUse
    <2>2. TypeOK'
      BY <2>1, SMTT(30) DEF Inv, TypeOK
    <2>3. GameKnowsWhoPlays'
      BY <2>1 DEF Inv, TypeOK, GameKnowsWhoPlays, Ghost, InUse
    <2>4. \A j \in Clients : /\ clients'[j].adr = clients[j].adr
                             /\ clients'[j].recent = clients[j].recent
                             /\ InUse(j)' => InUse(j)
                             /\ clients'[j].state # "free" => clients[j].state # "free"
      BY <2>1 DEF Inv, TypeOK, InUse
    <2>5. OpenInv' /\ FirstInv' /\ RecentInv'
      BY <2>1, <2>4, SlotsKept
    <2> QED
      BY <2>2, <2>3, <2>5 DEF Inv
  <1>3. CASE SV_Kick(i)
    <2>1. /\ cls' \in [Players -> {"disconnected", "connecting", "challenging", "connected"}]
          /\ \A q \in Players : cls'[q] = "connected" => cls[q] = "connected"
      BY <1>3 DEF SV_Kick, Inv, TypeOK
    <2> QED
      BY <1>3, <2>1, DropStep DEF SV_Kick
  <1>4. CASE ZombieTimeout(i)
    <2>1. /\ clients' = [clients EXCEPT ![i].state = "free"]
          /\ clients[i].state = "zombie"
          /\ UNCHANGED <<level, g_guidCheck, cls, connecting, reply>>
      BY <1>4 DEF ZombieTimeout
    <2>2. TypeOK'
      BY <2>1 DEF Inv, TypeOK
    <2>3. GameKnowsWhoPlays'
      BY <2>1 DEF Inv, TypeOK, GameKnowsWhoPlays, Ghost, InUse, Absent
    <2>4. \A j \in Clients : /\ clients'[j].adr = clients[j].adr
                             /\ clients'[j].recent = clients[j].recent
                             /\ InUse(j)' => InUse(j)
                             /\ clients'[j].state # "free" => clients[j].state # "free"
      BY <2>1 DEF Inv, TypeOK, InUse
    <2>5. OpenInv' /\ FirstInv' /\ RecentInv'
      BY <2>1, <2>4, SlotsKept
    <2> QED
      BY <2>2, <2>3, <2>5 DEF Inv
  <1>5. CASE ClientTimeout(i)
    <2>1. cls' \in [Players -> {"disconnected", "connecting", "challenging", "connected"}]
      BY <1>5 DEF ClientTimeout, Inv, TypeOK
    <2> QED
      BY <1>5, <2>1, DropStep DEF ClientTimeout
  <1> QED
    BY <1>1, <1>2, <1>3, <1>4, <1>5 DEF SV_CheckTimeouts

LEMMA SpawnStep ==
    ASSUME Inv, SV_SpawnServer
    PROVE  Inv'
  <1>1. \A i \in Clients :
           /\ ~InUse(i) => clients'[i] = clients[i] /\ level'[i] = Absent
           /\ InUse(i) /\ clients[i].adr = Bot =>
                clients'[i] = clients[i] /\ level'[i] = level[i]
           /\ InUse(i) /\ clients[i].adr # Bot =>
                /\ clients'[i] = [clients[i] EXCEPT !.state = "connected"]
                /\ level'[i] = [connected |-> "connecting", cl_guid |-> clients[i].adr]
    BY DEF SV_SpawnServer, ClientConnect, Inv, TypeOK
  <1>2. UNCHANGED <<g_guidCheck, cls, connecting, reply>>
    BY DEF SV_SpawnServer
  <1>3. TypeOK'
    <2>1. \A i \in Clients :
             /\ clients'[i] \in SlotRecords
             /\ level'[i] \in LevelRecords
      <3> SUFFICES ASSUME NEW i \in Clients
                   PROVE  /\ clients'[i] \in SlotRecords
                          /\ level'[i] \in LevelRecords
        OBVIOUS
      <3>1. /\ clients[i] \in SlotRecords
            /\ level[i] \in LevelRecords
        BY DEF Inv, TypeOK
      <3>2. clients'[i] \in SlotRecords
        <4>1. clients'[i] = clients[i] \/ clients'[i] = [clients[i] EXCEPT !.state = "connected"]
          BY <1>1
        <4> QED
          BY <3>1, <4>1
      <3>3. level'[i] \in LevelRecords
        <4>1. CASE ~InUse(i)
          <5>1. level'[i] = Absent
            BY <1>1, <4>1
          <5> QED
            BY <5>1 DEF Absent
        <4>2. CASE InUse(i) /\ clients[i].adr = Bot
          BY <1>1, <3>1, <4>2
        <4>3. CASE InUse(i) /\ clients[i].adr # Bot
          <5>1. level'[i] = [connected |-> "connecting", cl_guid |-> clients[i].adr]
            BY <1>1, <4>3
          <5> QED
            BY <3>1, <5>1
        <4> QED
          BY <4>1, <4>2, <4>3
      <3> QED
        BY <3>2, <3>3
    <2>2. /\ clients' = [i \in Clients |-> clients'[i]]
          /\ level' = [i \in Clients |-> level'[i]]
      BY DEF SV_SpawnServer
    <2> QED
      BY <1>2, <2>1, <2>2 DEF Inv, TypeOK
  <1>4. \A j \in Clients : /\ clients'[j].adr = clients[j].adr
                           /\ clients'[j].recent = clients[j].recent
                           /\ InUse(j)' => InUse(j)
                           /\ clients'[j].state # "free" => clients[j].state # "free"
    <2> SUFFICES ASSUME NEW j \in Clients
                 PROVE  /\ clients'[j].adr = clients[j].adr
                        /\ clients'[j].recent = clients[j].recent
                        /\ InUse(j)' => InUse(j)
                        /\ clients'[j].state # "free" => clients[j].state # "free"
      OBVIOUS
    <2>1. CASE clients'[j] = clients[j]
      BY <2>1 DEF InUse
    <2>2. CASE InUse(j) /\ clients'[j] = [clients[j] EXCEPT !.state = "connected"]
      <3>1. clients[j] \in SlotRecords
        BY DEF Inv, TypeOK
      <3> QED
        BY <2>2, <3>1 DEF InUse
    <2> QED
      BY <1>1, <2>1, <2>2
  <1>5. OpenInv' /\ FirstInv' /\ RecentInv'
    BY <1>2, <1>4, SlotsKept
  <1>6. GameKnowsWhoPlays'
    <2> SUFFICES ASSUME NEW i \in Clients
                 PROVE  /\ InUse(i)' => level'[i].cl_guid = clients'[i].adr
                        /\ clients'[i].state = "active" => level'[i].connected = "connected"
                        /\ clients'[i].state = "zombie" => level'[i] = Absent
                        /\ Ghost(i)' => g_guidCheck'
      BY DEF GameKnowsWhoPlays
    <2>1. CASE ~InUse(i)
      <3>1. clients'[i] = clients[i] /\ level'[i] = Absent
        BY <1>1, <2>1
      <3> QED
        BY <2>1, <3>1 DEF InUse, Ghost, Absent
    <2>2. CASE InUse(i) /\ clients[i].adr = Bot
      BY <1>1, <2>2 DEF Inv, GameKnowsWhoPlays, InUse, Ghost
    <2>3. CASE InUse(i) /\ clients[i].adr # Bot
      <3>1. /\ clients'[i].state = "connected" /\ clients'[i].adr = clients[i].adr
            /\ level'[i].cl_guid = clients[i].adr
        <4>1. clients[i] \in SlotRecords
          BY DEF Inv, TypeOK
        <4>2. /\ clients'[i] = [clients[i] EXCEPT !.state = "connected"]
              /\ level'[i] = [connected |-> "connecting", cl_guid |-> clients[i].adr]
          BY <1>1, <2>3
        <4> QED
          BY <4>1, <4>2
      <3> QED
        BY <3>1 DEF Ghost
    <2> QED
      BY <2>1, <2>2, <2>3
  <1> QED
    BY <1>3, <1>5, <1>6 DEF Inv

-----------------------------------------------------------------------------
(* The invariant, and what follows from it                                 *)

\* Every step, of a player, of the server or of the network, keeps the invariant.
THEOREM InvInductive == Inv /\ [Next]_vars => Inv'
  <1> SUFFICES ASSUME Inv, [Next]_vars PROVE Inv'
    OBVIOUS
  <1>1. ASSUME NEW p \in Players,
               \/ CL_Connect_f(p) \/ SV_GetChallenge(p) \/ CL_CheckForResend(p)
               \/ CL_ConnectionlessPacket(p) \/ CL_CheckTimeout(p) \/ Lose(p)
        PROVE  Inv'
    BY <1>1, PlayerStep
  <1>2. ASSUME NEW p \in Players, SV_DirectConnect(p) PROVE Inv'
    BY <1>2, DirectConnectStep
  <1>3. ASSUME NEW p \in Players, CL_Disconnect(p) PROVE Inv'
    BY <1>3, DisconnectStep
  <1>4. ASSUME NEW i \in Clients,
               \/ ReconnectLimitPasses(i) \/ SV_ClientEnterWorld(i)
               \/ SV_Kick(i) \/ SV_CheckTimeouts(i)
        PROVE  Inv'
    BY <1>4, SlotStep
  <1>5. CASE SV_SpawnServer
    BY <1>5, SpawnStep
  <1>6. CASE UNCHANGED vars
    BY <1>6 DEF vars, Inv, TypeOK, GameKnowsWhoPlays, OpenInv, FirstInv, RecentInv,
                Open, Own, Ghost, InUse
  <1> QED
    BY <1>1, <1>2, <1>3, <1>4, <1>5, <1>6 DEF Next

\* The invariant holds in every state the server and its players can get to.
THEOREM Invariance == Spec => []Inv
  BY InitInv, InvInductive, PTL DEF Spec

\* Every variable keeps its type, however many players, slots and bots there are.
THEOREM TypeCorrect == Spec => []TypeOK
  <1>1. Inv => TypeOK
    BY DEF Inv
  <1> QED
    BY <1>1, Invariance, PTL

\* However often requests are lost or sent again and players leave, crash and come back,
\* no player has two slots (SV_DirectConnect).
THEOREM OneSlot == Spec => []OneSlotEach
  <1>1. Inv => OneSlotEach
    BY SlotsAssumption DEF Inv, FirstInv, OneSlotEach, Own, Clients
  <1> QED
    BY <1>1, Invariance, PTL

\* The game's list of clients follows the server's slots, but for ghosts, and there are
\* none of these unless guids are compared (ClientConnect, ClientDisconnect).
THEOREM GameAgrees == Spec => []GameKnowsWhoPlays
  <1>1. Inv => GameKnowsWhoPlays
    BY DEF Inv
  <1> QED
    BY <1>1, Invariance, PTL

\* A connect request, a player's own sent twice or another's, leaves the slot of a
\* connected player as it is (SV_DirectConnect): its own is within the reconnect limit,
\* for the first slot of its address is the one it has.
THEOREM RequestsDisturbNobody == Spec => NotPutOut
  <1>1. ASSUME Inv, NEW p \in Players, NEW q \in Players, NEW i \in Clients,
               Playing(i, p), SV_DirectConnect(q)
        PROVE  clients'[i] = clients[i]
    <2>1. i \in Own(p) /\ clients[i].adr = p /\ InUse(i)
      BY <1>1 DEF Playing, Own, InUse
    <2>2. CASE p = q
      <3>1. First(i, {j \in Clients : clients[j].adr = p})
        BY <1>1, <2>1 DEF Inv, FirstInv, First
      <3>2. p \in connecting /\ cls[p] = "connected"
        BY <1>1, <2>2 DEF Playing, SV_DirectConnect
      <3>3. clients[i].recent
        BY <1>1, <2>1, <3>2 DEF Inv, RecentInv
      <3>4. TooSoon(q)
        BY <2>2, <3>1, <3>3 DEF TooSoon
      <3> QED
        BY <1>1, <3>4 DEF SV_DirectConnect
    <2>3. CASE p # q
      <3>1. ASSUME NEW k \in Clients, First(k, SlotsFor(q)), GiveSlot(q, k)
            PROVE  clients'[i] = clients[i]
        <4>1. k # i
          BY <1>1, <2>1, <2>3, <3>1, SlotGiven, SlotsAssumption DEF Bots, InUse
        <4> QED
          BY <1>1, <3>1, <4>1, AfterGiving
      <3> QED
        BY <1>1, <3>1 DEF SV_DirectConnect
    <2> QED
      BY <2>2, <2>3
  <1>2. Inv => \A p, q \in Players, i \in Clients :
                  Playing(i, p) /\ SV_DirectConnect(q) => clients'[i] = clients[i]
    BY <1>1
  <1> QED
    BY <1>2, Invariance, PTL DEF NotPutOut

=============================================================================
