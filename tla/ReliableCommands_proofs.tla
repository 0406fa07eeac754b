----------------------- MODULE ReliableCommands_proofs -----------------------
(***************************************************************************)
(* Proofs about ReliableCommands, for every size of the rings, number of   *)
(* commands and number of messages under way, as long as neither end lets  *)
(* so many commands go unacknowledged that its ring is full (WindowsFit).  *)
(* The last theorem, how often the game is told of a drop, is about rings  *)
(* that do get full, and has an invariant of its own.                      *)
(*                                                                         *)
(* What an end will find in a slot when a message arrives depends on what  *)
(* the other end has acknowledged since, in messages still under way.  The *)
(* invariant orders these: the acknowledgements under way one way lie      *)
(* between what their receiver has been told and what their sender knows,  *)
(* and the commands repeated the other way begin where the sender had been *)
(* acknowledged, never past it.                                            *)
(***************************************************************************)
EXTENDS ReliableCommands, TLAPS, FiniteSetTheorems, WellFoundedInduction

\* Two slots of the server's ring are left for what SV_DropClient adds, one of the
\* client's for the key, which is the last command acknowledged.
WindowsFit ==
    /\ ServerWindow + 2 <= MAX_RELIABLE_COMMANDS
    /\ ClientWindow < MAX_RELIABLE_COMMANDS

-----------------------------------------------------------------------------
(* The inductive invariant                                                 *)

\* The text of command n of an end whose last one is a disconnect if it is number e.
Text(n, e) == IF n = e THEN Disconnect ELSE n
Never == -1
Ending == IF sv.state = "zombie" THEN sv.reliableSequence ELSE Never

\* A ring that got commands up to number last holds the latest of them.
Holds(ring, last, e) ==
    \A n \in 0..last : n > last - MAX_RELIABLE_COMMANDS => ring[Slot(n)] = Text(n, e)

Texted(a, s, e) == [n \in (a + 1)..s |-> Text(n, e)]

Messages == [acknowledge : Nat, key : Int,
             commands : {Texted(a, s, e) : a \in Nat, s \in Nat, e \in Int}, stamp : Nat]

SvRecords == [state : {"active", "zombie"}, reason : {"none", "kicked"}, disconnects : Nat,
              reliableSequence : Nat, reliableAcknowledge : Nat, reliableCommands : Ring,
              lastClientCommand : Nat, lastClientCommandString : Int]

ClRecords == [state : {"active", "dropped"}, error : {"none", "disconnect", "cycled out"},
              reliableSequence : Nat, reliableAcknowledge : Nat, reliableCommands : Ring,
              serverCommandSequence : Nat, serverCommands : Ring, lastExecuted : Nat,
              snap : {<<>>} \cup [serverCommandNum : Nat, stamp : Nat]]

Typed ==
    /\ sv \in SvRecords
    /\ cl \in ClRecords
    /\ toClient \in Seq(Messages)
    /\ toServer \in Seq(Messages)
    /\ svExecuted \in Seq(Int) /\ clExecuted \in Seq(Int)
    /\ thought \in Nat /\ shown \in Nat

\* What the server issued, what of it is acknowledged, and how it was dropped.
ServerInv ==
    /\ sv.reliableAcknowledge <= sv.reliableSequence
    /\ Holds(sv.reliableCommands, sv.reliableSequence, Ending)
    /\ sv.lastClientCommandString = sv.lastClientCommand
    /\ sv.state = "active" => /\ Outstanding(sv) <= ServerWindow
                              /\ sv.disconnects = 0 /\ sv.reason = "none"
    /\ sv.state = "zombie" => /\ Outstanding(sv) <= MAX_RELIABLE_COMMANDS
                              /\ sv.reliableAcknowledge < sv.reliableSequence
                              /\ sv.disconnects = 1 /\ sv.reason = "kicked"

\* What the client issued and what it has been told.
ClientInv ==
    /\ Outstanding(cl) <= ClientWindow
    /\ cl.reliableAcknowledge <= sv.lastClientCommand
    /\ sv.lastClientCommand <= cl.reliableSequence
    /\ Holds(cl.reliableCommands, cl.reliableSequence, Never)
    /\ sv.reliableAcknowledge <= cl.serverCommandSequence
    /\ cl.serverCommandSequence <= sv.reliableSequence
    /\ Holds(cl.serverCommands, cl.serverCommandSequence, Ending)
    /\ cl.lastExecuted <= cl.serverCommandSequence
    /\ cl.snap # <<>> =>
          /\ cl.lastExecuted <= cl.snap.serverCommandNum
          /\ cl.snap.serverCommandNum <= cl.serverCommandSequence
          /\ cl.snap.stamp <= cl.snap.serverCommandNum

\* A message to the client.
ServersMessage(m) ==
    /\ cl.reliableAcknowledge <= m.acknowledge /\ m.acknowledge <= sv.lastClientCommand
    /\ m.key = m.acknowledge
    /\ m.stamp <= sv.reliableSequence
    /\ \E a \in 0..sv.reliableAcknowledge : m.commands = Texted(a, m.stamp, Ending)

\* A message to the server.
ClientsMessage(m) ==
    /\ sv.reliableAcknowledge <= m.acknowledge /\ m.acknowledge <= cl.serverCommandSequence
    /\ m.key = Text(m.acknowledge, Ending)
    /\ m.stamp <= cl.reliableSequence
    /\ \E a \in 0..cl.reliableAcknowledge : m.commands = Texted(a, m.stamp, Never)

InOrder(messages) ==
    \A i, j \in DOMAIN messages : i < j => messages[i].acknowledge <= messages[j].acknowledge

MessageInv ==
    /\ \A i \in DOMAIN toClient : ServersMessage(toClient[i])
    /\ \A i \in DOMAIN toServer : ClientsMessage(toServer[i])
    /\ InOrder(toClient) /\ InOrder(toServer)

\* What was executed at each end, and what was seen after it.
ExecutedInv ==
    /\ svExecuted = [i \in 1..sv.lastClientCommand |-> i]
    /\ thought <= sv.lastClientCommand
    /\ clExecuted = [i \in 1..Len(clExecuted) |-> i]
    /\ Len(clExecuted) <= sv.reliableSequence
    /\ cl.state = "active" => Len(clExecuted) = cl.lastExecuted
    /\ shown <= Len(clExecuted)

Inv == Typed /\ ServerInv /\ ClientInv /\ MessageInv /\ ExecutedInv
-----------------------------------------------------------------------------
(* Types                                                                   *)

LEMMA ServerTypes ==
    ASSUME NEW s \in SvRecords
    PROVE  /\ s.state \in {"active", "zombie"} /\ s.disconnects \in Nat
           /\ s.reliableSequence \in Nat /\ s.reliableAcknowledge \in Nat
           /\ s.reliableCommands \in Ring
           /\ s.lastClientCommand \in Nat /\ s.lastClientCommandString \in Int
  BY DEF SvRecords

LEMMA ClientTypes ==
    ASSUME NEW c \in ClRecords
    PROVE  /\ c.state \in {"active", "dropped"}
           /\ c.reliableSequence \in Nat /\ c.reliableAcknowledge \in Nat
           /\ c.reliableCommands \in Ring
           /\ c.serverCommandSequence \in Nat /\ c.serverCommands \in Ring
           /\ c.lastExecuted \in Nat
           /\ c.snap # <<>> => c.snap.serverCommandNum \in Nat /\ c.snap.stamp \in Nat
  BY DEF ClRecords

LEMMA MessageTypes ==
    ASSUME NEW m \in Messages
    PROVE  m.acknowledge \in Nat /\ m.key \in Int /\ m.stamp \in Nat
  BY DEF Messages

LEMMA Types ==
    ASSUME Typed
    PROVE  /\ sv.disconnects \in Nat
           /\ sv.reliableSequence \in Nat /\ sv.reliableAcknowledge \in Nat
           /\ sv.reliableCommands \in Ring
           /\ sv.lastClientCommand \in Nat /\ sv.lastClientCommandString \in Int
           /\ cl.reliableSequence \in Nat /\ cl.reliableAcknowledge \in Nat
           /\ cl.reliableCommands \in Ring
           /\ cl.serverCommandSequence \in Nat /\ cl.serverCommands \in Ring
           /\ cl.lastExecuted \in Nat
           /\ thought \in Nat /\ shown \in Nat /\ Ending \in Int
  <1>1. sv \in SvRecords /\ cl \in ClRecords /\ thought \in Nat /\ shown \in Nat
    BY DEF Typed
  <1>2. sv.reliableSequence \in Nat
    BY <1>1, ServerTypes
  <1>3. Ending \in Int
    BY <1>2 DEF Ending, Never
  <1> QED
    BY <1>1, <1>3, ServerTypes, ClientTypes

-----------------------------------------------------------------------------
(* Rings                                                                   *)

\* Multiples of a positive number.
LEMMA Multiples ==
    ASSUME NEW k \in Nat \ {0}, NEW d \in Int
    PROVE  k * d <= 0 \/ k * d >= k
  <1>1. CASE d <= 0
    BY <1>1
  <1>2. CASE d >= 1
    <2>1. PICK j \in Nat : d = j + 1
      BY <1>2
    <2>2. k * d = k * j + k /\ k * j \in Nat
      BY <2>1
    <2> QED
      BY <2>2
  <1> QED
    BY <1>1, <1>2

LEMMA SlotType ==
    ASSUME NEW n \in Nat
    PROVE  Slot(n) \in 0..(MAX_RELIABLE_COMMANDS - 1)
  BY RingAssumption DEF Slot

\* Commands that are fewer than a ring apart have slots of their own.
LEMMA SlotsApart ==
    ASSUME NEW a \in Nat, NEW b \in Nat, a < b, b - a < MAX_RELIABLE_COMMANDS
    PROVE  Slot(a) # Slot(b)
  <1> DEFINE k == MAX_RELIABLE_COMMANDS
             p == a \div k
             q == b \div k
  <1>1. k \in Nat \ {0}
    BY RingAssumption
  <1>2. /\ a = k * p + (a % k) /\ b = k * q + (b % k)
        /\ p \in Int /\ q \in Int
    BY <1>1
  <1>3. SUFFICES ASSUME a % k = b % k PROVE FALSE
    BY DEF Slot
  <1>4. b - a = k * (q - p)
    BY <1>1, <1>2, <1>3
  <1>5. k * (q - p) <= 0 \/ k * (q - p) >= k
    BY <1>1, <1>2, Multiples
  <1> QED
    BY <1>1, <1>4, <1>5

\* A ring with one more command in it.
LEMMA RingPut ==
    ASSUME NEW ring \in Ring, NEW last \in Nat, NEW e \in Int,
           Holds(ring, last, e)
    PROVE  /\ [ring EXCEPT ![Slot(last + 1)] = Text(last + 1, e)] \in Ring
           /\ Holds([ring EXCEPT ![Slot(last + 1)] = Text(last + 1, e)], last + 1, e)
  <1> DEFINE r == [ring EXCEPT ![Slot(last + 1)] = Text(last + 1, e)]
  <1>1. Slot(last + 1) \in 0..(MAX_RELIABLE_COMMANDS - 1)
    BY SlotType
  <1>2. r \in Ring
    BY <1>1 DEF Ring, Texts, Text, Disconnect
  <1>3. ASSUME NEW n \in 0..(last + 1), n > last + 1 - MAX_RELIABLE_COMMANDS
        PROVE  r[Slot(n)] = Text(n, e)
    <2>1. Slot(n) \in 0..(MAX_RELIABLE_COMMANDS - 1)
      BY SlotType
    <2>2. CASE n = last + 1
      BY <1>1, <2>2 DEF Ring
    <2>3. CASE n # last + 1
      <3>1. Slot(n) # Slot(last + 1)
        BY <1>3, <2>3, SlotsApart, RingAssumption
      <3>2. ring[Slot(n)] = Text(n, e)
        BY <1>3, <2>3, RingAssumption DEF Holds
      <3> QED
        BY <2>1, <3>1, <3>2 DEF Ring
    <2> QED
      BY <2>2, <2>3
  <1> HIDE DEF r
  <1>4. Holds(r, last + 1, e)
    BY <1>3, RingAssumption DEF Holds
  <1> QED
    BY <1>2, <1>4 DEF r

\* Only the disconnect, which comes after all that the ring holds, changes.
LEMMA RingEnds ==
    ASSUME NEW ring, NEW last \in Nat, NEW e \in Int, e > last,
           Holds(ring, last, Never)
    PROVE  Holds(ring, last, e)
  BY DEF Holds, Text, Never

LEMMA TextedEnds ==
    ASSUME NEW a \in Nat, NEW s \in Nat, NEW e \in Int, e > s
    PROVE  Texted(a, s, Never) = Texted(a, s, e)
  BY DEF Texted, Text, Never

\* The commands not acknowledged yet, when no more than a ring holds.
LEMMA UnacknowledgedTexts ==
    ASSUME NEW side, NEW e \in Int,
           side.reliableSequence \in Nat, side.reliableAcknowledge \in Nat,
           side.reliableSequence - side.reliableAcknowledge <= MAX_RELIABLE_COMMANDS,
           Holds(side.reliableCommands, side.reliableSequence, e)
    PROVE  Unacknowledged(side) =
               Texted(side.reliableAcknowledge, side.reliableSequence, e)
  <1>1. \A n \in (side.reliableAcknowledge + 1)..side.reliableSequence :
            side.reliableCommands[Slot(n)] = Text(n, e)
    BY RingAssumption DEF Holds
  <1> QED
    BY <1>1 DEF Unacknowledged, Texted

-----------------------------------------------------------------------------
(* The initial states                                                      *)

LEMMA InitInv == Init => Inv
  <1> SUFFICES ASSUME Init PROVE Inv
    OBVIOUS
  <1>1. EmptyRing \in Ring /\ \A e \in Int : e # 0 => Holds(EmptyRing, 0, e)
    <2>1. EmptyRing \in Ring
      BY DEF EmptyRing, Ring, Texts
    <2>2. EmptyRing[Slot(0)] = 0
      BY SlotType DEF EmptyRing
    <2> QED
      BY <2>1, <2>2 DEF Holds, Text
  <1>2. Ending = Never /\ Never \in Int /\ Never # 0
    <2>1. sv.state = "active"
      BY DEF Init
    <2>2. Ending = Never
      BY <2>1 DEF Ending
    <2>3. Never \in Int /\ Never # 0
      BY DEF Never
    <2> QED
      BY <2>2, <2>3
  <1>3. /\ sv \in SvRecords
        /\ cl \in ClRecords
        /\ toClient = <<>> /\ toServer = <<>>
        /\ svExecuted = <<>> /\ clExecuted = <<>> /\ thought = 0 /\ shown = 0
    <2>1. sv \in SvRecords
      BY <1>1 DEF Init, SvRecords
    <2>2. cl \in ClRecords
      BY <1>1 DEF Init, ClRecords
    <2> QED
      BY <2>1, <2>2 DEF Init
  <1>4. Typed
    BY <1>3 DEF Typed
  <1>5. /\ sv.state = "active" /\ sv.reason = "none" /\ sv.disconnects = 0
        /\ sv.reliableSequence = 0 /\ sv.reliableAcknowledge = 0
        /\ sv.reliableCommands = EmptyRing
        /\ sv.lastClientCommand = 0 /\ sv.lastClientCommandString = 0
    BY DEF Init
  <1>6. /\ cl.state = "active"
        /\ cl.reliableSequence = 0 /\ cl.reliableAcknowledge = 0
        /\ cl.reliableCommands = EmptyRing
        /\ cl.serverCommandSequence = 0 /\ cl.serverCommands = EmptyRing
        /\ cl.lastExecuted = 0 /\ cl.snap = <<>>
    BY DEF Init
  <1>7. ServerInv
    <2>1. Holds(sv.reliableCommands, sv.reliableSequence, Ending)
      BY <1>1, <1>2, <1>5, Zenon
    <2>2. Outstanding(sv) = 0
      BY <1>5 DEF Outstanding
    <2> QED
      BY <1>5, <2>1, <2>2, WindowAssumption DEF ServerInv
  <1>8. ClientInv
    <2>1. /\ Holds(cl.reliableCommands, cl.reliableSequence, Never)
          /\ Holds(cl.serverCommands, cl.serverCommandSequence, Ending)
      BY <1>1, <1>2, <1>6, Zenon
    <2>2. Outstanding(cl) = 0
      BY <1>6 DEF Outstanding
    <2> QED
      BY <1>5, <1>6, <2>1, <2>2, WindowAssumption DEF ClientInv
  <1>9. MessageInv
    BY <1>3 DEF MessageInv, InOrder
  <1>10. ExecutedInv
    <2>1. svExecuted = [i \in 1..sv.lastClientCommand |-> i]
      BY <1>3, <1>5
    <2>2. Len(clExecuted) = 0
      BY <1>3
    <2>3. clExecuted = [i \in 1..Len(clExecuted) |-> i]
      BY <1>3, <2>2
    <2> QED
      BY <1>3, <1>5, <1>6, <2>1, <2>2, <2>3 DEF ExecutedInv
  <1> QED
    BY <1>4, <1>7, <1>8, <1>9, <1>10 DEF Inv

-----------------------------------------------------------------------------
(* Commands are issued                                                     *)

LEMMA PutServer ==
    ASSUME NEW s \in SvRecords, NEW text \in Int
    PROVE  /\ Put(s, text) \in SvRecords
           /\ Put(s, text).reliableSequence = s.reliableSequence + 1
           /\ Put(s, text).reliableCommands =
                 [s.reliableCommands EXCEPT ![Slot(s.reliableSequence + 1)] = text]
           /\ Put(s, text).state = s.state /\ Put(s, text).reason = s.reason
           /\ Put(s, text).disconnects = s.disconnects
           /\ Put(s, text).reliableAcknowledge = s.reliableAcknowledge
           /\ Put(s, text).lastClientCommand = s.lastClientCommand
           /\ Put(s, text).lastClientCommandString = s.lastClientCommandString
  <1> DEFINE n == s.reliableSequence + 1
             ring == [s.reliableCommands EXCEPT ![Slot(n)] = text]
  <1>1. n \in Nat
    BY ServerTypes
  <1>2. ring \in Ring
    BY ServerTypes DEF Ring, Texts
  <1>3. Put(s, text) = [s EXCEPT !.reliableSequence = n, !.reliableCommands = ring]
    BY DEF Put
  <1> HIDE DEF ring, n
  <1>4. Put(s, text) \in SvRecords
    BY <1>1, <1>2, <1>3 DEF SvRecords
  <1>5. Put(s, text).reliableSequence = n /\ Put(s, text).reliableCommands = ring
    BY <1>3 DEF SvRecords
  <1>6. /\ Put(s, text).state = s.state /\ Put(s, text).reason = s.reason
        /\ Put(s, text).disconnects = s.disconnects
        /\ Put(s, text).reliableAcknowledge = s.reliableAcknowledge
        /\ Put(s, text).lastClientCommand = s.lastClientCommand
        /\ Put(s, text).lastClientCommandString = s.lastClientCommandString
    BY <1>3 DEF SvRecords
  <1> QED
    BY <1>4, <1>5, <1>6 DEF ring, n

LEMMA PutClient ==
    ASSUME NEW c \in ClRecords, NEW text \in Int
    PROVE  /\ Put(c, text) \in ClRecords
           /\ Put(c, text).reliableSequence = c.reliableSequence + 1
           /\ Put(c, text).reliableCommands =
                 [c.reliableCommands EXCEPT ![Slot(c.reliableSequence + 1)] = text]
           /\ Put(c, text).state = c.state
           /\ Put(c, text).reliableAcknowledge = c.reliableAcknowledge
           /\ Put(c, text).serverCommandSequence = c.serverCommandSequence
           /\ Put(c, text).serverCommands = c.serverCommands
           /\ Put(c, text).lastExecuted = c.lastExecuted
           /\ Put(c, text).snap = c.snap
  <1> DEFINE n == c.reliableSequence + 1
             ring == [c.reliableCommands EXCEPT ![Slot(n)] = text]
  <1>1. n \in Nat
    BY ClientTypes
  <1>2. ring \in Ring
    BY ClientTypes DEF Ring, Texts
  <1>3. Put(c, text) = [c EXCEPT !.reliableSequence = n, !.reliableCommands = ring]
    BY DEF Put
  <1> HIDE DEF ring, n
  <1>4. Put(c, text) \in ClRecords
    BY <1>1, <1>2, <1>3 DEF ClRecords
  <1>5. Put(c, text).reliableSequence = n /\ Put(c, text).reliableCommands = ring
    BY <1>3 DEF ClRecords
  <1>6. /\ Put(c, text).state = c.state
        /\ Put(c, text).reliableAcknowledge = c.reliableAcknowledge
        /\ Put(c, text).serverCommandSequence = c.serverCommandSequence
        /\ Put(c, text).serverCommands = c.serverCommands
        /\ Put(c, text).lastExecuted = c.lastExecuted
        /\ Put(c, text).snap = c.snap
    BY <1>3 DEF ClRecords
  <1> QED
    BY <1>4, <1>5, <1>6 DEF ring, n

\* What SV_DropClient does to a client that is not a zombie and whose ring has room.
LEMMA DropServer ==
    ASSUME NEW s \in SvRecords, s.state = "active",
           Outstanding(s) + 1 < MAX_RELIABLE_COMMANDS
    PROVE  LET d == DropClient(s, "kicked")
               first == [s.reliableCommands EXCEPT
                            ![Slot(s.reliableSequence + 1)] = s.reliableSequence + 1]
           IN  /\ d \in SvRecords
               /\ d.state = "zombie" /\ d.reason = "kicked"
               /\ d.disconnects = s.disconnects + 1
               /\ d.reliableSequence = s.reliableSequence + 2
               /\ d.reliableAcknowledge = s.reliableAcknowledge
               /\ d.reliableCommands =
                     [first EXCEPT ![Slot(s.reliableSequence + 2)] = Disconnect]
               /\ d.lastClientCommand = s.lastClientCommand
               /\ d.lastClientCommandString = s.lastClientCommandString
  <1> DEFINE n == s.reliableSequence + 1
             k == s.disconnects + 1
             p == Put(s, n)
             z == [p EXCEPT !.state = "zombie", !.reason = "kicked", !.disconnects = k]
             d == Put(z, Disconnect)
  <1>1. s.reliableSequence \in Nat /\ s.reliableAcknowledge \in Nat
        /\ s.disconnects \in Nat /\ n \in Int /\ k \in Nat
    BY ServerTypes
  <1>2. AddServerCommand(s) = p
    BY <1>1, RingAssumption DEF AddServerCommand, Outstanding
  <1>3. /\ p \in SvRecords
        /\ p.reliableSequence = n /\ p.disconnects = s.disconnects
        /\ p.reliableCommands = [s.reliableCommands EXCEPT ![Slot(n)] = n]
        /\ p.reliableAcknowledge = s.reliableAcknowledge
        /\ p.lastClientCommand = s.lastClientCommand
        /\ p.lastClientCommandString = s.lastClientCommandString
    BY <1>1, PutServer
  <1>4. DropClient(s, "kicked") = Bury(p, "kicked")
    BY <1>2 DEF DropClient
  <1> HIDE DEF p
  <1>5. /\ z \in SvRecords
        /\ z.state = "zombie" /\ z.reason = "kicked" /\ z.disconnects = k
        /\ z.reliableSequence = p.reliableSequence
        /\ z.reliableCommands = p.reliableCommands
        /\ z.reliableAcknowledge = p.reliableAcknowledge
        /\ z.lastClientCommand = p.lastClientCommand
        /\ z.lastClientCommandString = p.lastClientCommandString
    <2> HIDE DEF k
    <2> QED
      BY <1>1, <1>3 DEF SvRecords
  <1>6. Bury(p, "kicked") = d
    <2>1. Bury(p, "kicked") = IF Outstanding(z) = MAX_RELIABLE_COMMANDS
                              THEN [z EXCEPT !.reliableSequence = @ + 1] ELSE d
      BY <1>3, Zenon DEF Bury
    <2> HIDE DEF z
    <2>2. Outstanding(z) # MAX_RELIABLE_COMMANDS
      BY <1>1, <1>3, <1>5, RingAssumption DEF Outstanding
    <2> QED
      BY <2>1, <2>2
  <1> HIDE DEF z
  <1>7. Disconnect \in Int
    BY DEF Disconnect
  <1>8. /\ d \in SvRecords
        /\ d.reliableSequence = z.reliableSequence + 1
        /\ d.reliableCommands =
              [z.reliableCommands EXCEPT ![Slot(z.reliableSequence + 1)] = Disconnect]
        /\ d.state = z.state /\ d.reason = z.reason /\ d.disconnects = z.disconnects
        /\ d.reliableAcknowledge = z.reliableAcknowledge
        /\ d.lastClientCommand = z.lastClientCommand
        /\ d.lastClientCommandString = z.lastClientCommandString
    BY <1>5, <1>7, PutServer
  <1> HIDE DEF d
  <1>9. z.reliableSequence + 1 = s.reliableSequence + 2
    BY <1>1, <1>3, <1>5
  <1> QED
    BY <1>3, <1>4, <1>5, <1>6, <1>8, <1>9

\* What the others know of the server stays true when it issues commands, the last of
\* which may be the disconnect.
LEMMA ServerIssues ==
    ASSUME Inv, sv.state = "active", sv' \in SvRecords, ServerInv',
           sv'.reliableSequence > sv.reliableSequence,
           sv'.reliableAcknowledge = sv.reliableAcknowledge,
           sv'.lastClientCommand = sv.lastClientCommand,
           UNCHANGED <<cl, toClient, toServer, svExecuted, clExecuted, thought, shown>>
    PROVE  Inv'
  <1> DEFINE e == Ending'
  <1>1. Typed /\ ServerInv /\ ClientInv /\ MessageInv /\ ExecutedInv
    BY DEF Inv
  <1>2. /\ sv.reliableSequence \in Nat /\ sv.reliableAcknowledge \in Nat
        /\ sv.lastClientCommand \in Nat /\ cl.serverCommandSequence \in Nat
        /\ cl.reliableSequence \in Nat /\ cl.reliableAcknowledge \in Nat
        /\ sv'.reliableSequence \in Nat
    BY <1>1, Types, ServerTypes
  <1>3. Ending = Never /\ e \in Int /\ (e = Never \/ e > sv.reliableSequence)
    <2>1. Ending = Never
      BY DEF Ending
    <2>2. e = Never \/ e = sv'.reliableSequence
      BY DEF Ending
    <2> QED
      BY <1>2, <2>1, <2>2 DEF Never
  <1> HIDE DEF e
  <1>4. Typed'
    BY <1>1 DEF Typed
  <1>5. ClientInv'
    <2>1. Holds(cl.serverCommands, cl.serverCommandSequence, Never)
          /\ cl.serverCommandSequence <= sv.reliableSequence
      BY <1>1, <1>3, Zenon DEF ClientInv
    <2>2. Holds(cl.serverCommands, cl.serverCommandSequence, e)
      <3>1. CASE e = Never
        BY <2>1, <3>1
      <3>2. CASE e > sv.reliableSequence
        <4>1. e > cl.serverCommandSequence
          BY <1>2, <1>3, <2>1, <3>2
        <4> QED
          BY <1>2, <1>3, <2>1, <4>1, RingEnds
      <3> QED
        BY <1>3, <3>1, <3>2
    <2>3. cl' = cl /\ sv'.reliableSequence >= cl.serverCommandSequence
      BY <1>2, <2>1
    <2> QED
      BY <1>1, <1>2, <2>2, <2>3 DEF ClientInv, Outstanding, e
  <1>6. MessageInv'
    <2>1. ASSUME NEW i \in DOMAIN toClient
          PROVE  ServersMessage(toClient[i])'
      <3> DEFINE m == toClient[i]
      <3>1. m \in Messages /\ ServersMessage(m)
        BY <1>1 DEF Typed, MessageInv
      <3>2. m.stamp \in Nat /\ m.stamp <= sv.reliableSequence
        BY <3>1, MessageTypes DEF ServersMessage
      <3>3. PICK a \in 0..sv.reliableAcknowledge : m.commands = Texted(a, m.stamp, Never)
        BY <1>3, <3>1 DEF ServersMessage
      <3>4. m.commands = Texted(a, m.stamp, e)
        <4>1. CASE e = Never
          BY <3>3, <4>1
        <4>2. CASE e > sv.reliableSequence
          <5>1. e > m.stamp /\ a \in Nat
            BY <1>2, <1>3, <3>2, <4>2
          <5> QED
            BY <1>3, <3>2, <3>3, <5>1, TextedEnds
        <4> QED
          BY <1>3, <4>1, <4>2
      <3>5. toClient' = toClient /\ cl' = cl /\ m.stamp <= sv'.reliableSequence
        BY <1>2, <3>2
      <3> QED
        BY <3>1, <3>3, <3>4, <3>5 DEF ServersMessage, e
    <2>2. ASSUME NEW i \in DOMAIN toServer
          PROVE  ClientsMessage(toServer[i])'
      <3> DEFINE m == toServer[i]
      <3>1. m \in Messages /\ ClientsMessage(m)
        BY <1>1 DEF Typed, MessageInv
      <3>2. m.acknowledge <= sv.reliableSequence /\ m.acknowledge \in Nat
        BY <1>1, <1>2, <3>1, MessageTypes DEF ClientsMessage, ClientInv
      <3>3. m.key = Text(m.acknowledge, e)
        BY <1>2, <1>3, <3>1, <3>2 DEF ClientsMessage, Text, Never
      <3>4. toServer' = toServer /\ cl' = cl
        OBVIOUS
      <3> QED
        BY <3>1, <3>3, <3>4 DEF ClientsMessage, e
    <2>3. toClient' = toClient /\ toServer' = toServer
      OBVIOUS
    <2> QED
      BY <1>1, <2>1, <2>2, <2>3 DEF MessageInv, InOrder
  <1>7. ExecutedInv'
    <2>1. Len(clExecuted) \in Nat
      BY <1>1 DEF Typed
    <2>2. /\ svExecuted' = svExecuted /\ clExecuted' = clExecuted
          /\ thought' = thought /\ shown' = shown /\ cl' = cl
      OBVIOUS
    <2> QED
      BY <1>1, <1>2, <2>1, <2>2 DEF ExecutedInv
  <1> QED
    BY <1>4, <1>5, <1>6, <1>7 DEF Inv

LEMMA ServerSends ==
    ASSUME WindowsFit, Inv, SV_SendServerCommand
    PROVE  Inv'
  <1>1. /\ sv \in SvRecords /\ ServerInv
        /\ sv.reliableSequence \in Nat /\ sv.reliableAcknowledge \in Nat
        /\ sv.reliableCommands \in Ring
    BY Types DEF Inv, Typed
  <1> DEFINE n == sv.reliableSequence + 1
             p == Put(sv, n)
  <1>2. /\ sv.state = "active" /\ Outstanding(sv) < ServerWindow
        /\ sv' = AddServerCommand(sv)
    BY DEF SV_SendServerCommand
  <1>3. sv' = p
    <2>1. Outstanding(sv) # MAX_RELIABLE_COMMANDS
      BY <1>1, <1>2, WindowAssumption, RingAssumption DEF WindowsFit, Outstanding
    <2> QED
      BY <1>2, <2>1 DEF AddServerCommand
  <1>4. /\ p \in SvRecords /\ p.reliableSequence = n
        /\ p.reliableCommands = [sv.reliableCommands EXCEPT ![Slot(n)] = n]
        /\ p.state = sv.state /\ p.reason = sv.reason /\ p.disconnects = sv.disconnects
        /\ p.reliableAcknowledge = sv.reliableAcknowledge
        /\ p.lastClientCommand = sv.lastClientCommand
        /\ p.lastClientCommandString = sv.lastClientCommandString
    BY <1>1, PutServer
  <1> HIDE DEF p
  <1>5. Ending = Never /\ Ending' = Never /\ Never \in Int /\ Text(n, Never) = n
    <2>1. Ending = Never /\ Ending' = Never
      BY <1>2, <1>3, <1>4 DEF Ending
    <2> QED
      BY <1>1, <2>1 DEF Never, Text
  <1>6. ServerInv'
    <2>1. Holds(sv.reliableCommands, sv.reliableSequence, Never)
      BY <1>1, <1>5, Zenon DEF ServerInv
    <2>2. Holds([sv.reliableCommands EXCEPT ![Slot(n)] = Text(n, Never)], n, Never)
      BY <1>1, <1>5, <2>1, RingPut
    <2>3. Holds(p.reliableCommands, p.reliableSequence, Never)
      BY <1>4, <1>5, <2>2
    <2>4. /\ p.reliableAcknowledge <= p.reliableSequence
          /\ Outstanding(p) <= ServerWindow
          /\ p.lastClientCommandString = p.lastClientCommand
          /\ p.disconnects = 0 /\ p.reason = "none"
      BY <1>1, <1>2, <1>4, WindowAssumption DEF ServerInv, Outstanding
    <2> QED
      BY <1>2, <1>3, <1>4, <1>5, <2>3, <2>4 DEF ServerInv
  <1> QED
    <2>1. UNCHANGED <<cl, toClient, toServer, svExecuted, clExecuted, thought, shown>>
      BY DEF SV_SendServerCommand
    <2>2. sv'.reliableSequence > sv.reliableSequence
      BY <1>1, <1>3, <1>4
    <2> QED
      BY <1>2, <1>3, <1>4, <1>6, <2>1, <2>2, ServerIssues

LEMMA ServerDrops ==
    ASSUME WindowsFit, Inv, SV_GameDropClient
    PROVE  Inv'
  <1>1. /\ sv \in SvRecords /\ ServerInv
        /\ sv.reliableSequence \in Nat /\ sv.reliableAcknowledge \in Nat
        /\ sv.reliableCommands \in Ring /\ sv.disconnects \in Nat
    BY Types DEF Inv, Typed
  <1> DEFINE n == sv.reliableSequence + 1
             e == n + 1
             first == [sv.reliableCommands EXCEPT ![Slot(n)] = n]
             d == DropClient(sv, "kicked")
  <1>2. sv.state = "active" /\ sv' = d
    BY DEF SV_GameDropClient
  <1>3. /\ Outstanding(sv) <= ServerWindow
        /\ Outstanding(sv) + 1 < MAX_RELIABLE_COMMANDS
        /\ Outstanding(sv) = sv.reliableSequence - sv.reliableAcknowledge
    BY <1>1, <1>2, WindowAssumption, RingAssumption DEF WindowsFit, ServerInv, Outstanding
  <1>4. /\ d \in SvRecords
        /\ d.state = "zombie" /\ d.reason = "kicked"
        /\ d.disconnects = sv.disconnects + 1
        /\ d.reliableSequence = sv.reliableSequence + 2
        /\ d.reliableAcknowledge = sv.reliableAcknowledge
        /\ d.reliableCommands = [first EXCEPT ![Slot(sv.reliableSequence + 2)] = Disconnect]
        /\ d.lastClientCommand = sv.lastClientCommand
        /\ d.lastClientCommandString = sv.lastClientCommandString
    BY <1>1, <1>2, <1>3, DropServer
  <1> HIDE DEF d
  <1>5. e = sv.reliableSequence + 2 /\ e \in Nat /\ n \in Nat
    BY <1>1
  <1>6. Ending = Never /\ Ending' = e
    BY <1>2, <1>4, <1>5 DEF Ending
  <1>7. ServerInv'
    <2>1. Holds(sv.reliableCommands, sv.reliableSequence, Never)
      BY <1>1, <1>6, Zenon DEF ServerInv
    <2>2. Holds(sv.reliableCommands, sv.reliableSequence, e)
      BY <1>1, <1>5, <2>1, RingEnds
    <2>3. Text(n, e) = n /\ Text(e, e) = Disconnect
      BY <1>5 DEF Text
    <2>4. first \in Ring /\ Holds(first, n, e)
      BY <1>1, <1>5, <2>2, <2>3, RingPut
    <2> HIDE DEF first
    <2>5. Holds([first EXCEPT ![Slot(e)] = Disconnect], e, e)
      BY <1>5, <2>3, <2>4, RingPut
    <2>6. Holds(d.reliableCommands, d.reliableSequence, e)
      BY <1>4, <1>5, <2>5
    <2>7. /\ d.reliableAcknowledge < d.reliableSequence
          /\ d.reliableAcknowledge <= d.reliableSequence
          /\ Outstanding(d) <= MAX_RELIABLE_COMMANDS
          /\ d.disconnects = 1
          /\ d.lastClientCommandString = d.lastClientCommand
      BY <1>1, <1>2, <1>3, <1>4, WindowAssumption, RingAssumption
        DEF ServerInv, Outstanding, WindowsFit
    <2> QED
      BY <1>2, <1>4, <1>6, <2>6, <2>7 DEF ServerInv
  <1> QED
    <2>1. UNCHANGED <<cl, toClient, toServer, svExecuted, clExecuted, thought, shown>>
      BY DEF SV_GameDropClient
    <2>2. sv'.reliableSequence > sv.reliableSequence
      BY <1>1, <1>2, <1>4
    <2> QED
      BY <1>2, <1>4, <1>7, <2>1, <2>2, ServerIssues

LEMMA ClientAdds ==
    ASSUME WindowsFit, Inv, CL_AddReliableCommand
    PROVE  Inv'
  <1>1. /\ cl \in ClRecords /\ ServerInv /\ ClientInv /\ MessageInv /\ ExecutedInv /\ Typed
        /\ cl.reliableSequence \in Nat /\ cl.reliableAcknowledge \in Nat
        /\ cl.reliableCommands \in Ring /\ sv.lastClientCommand \in Nat
    BY Types DEF Inv, Typed
  <1> DEFINE n == cl.reliableSequence + 1
             p == Put(cl, n)
  <1>2. /\ cl.state = "active" /\ Outstanding(cl) < ClientWindow
        /\ UNCHANGED <<sv, toClient, toServer, svExecuted, clExecuted, thought, shown>>
    BY DEF CL_AddReliableCommand
  <1>3. cl' = p
    <2>1. ~ClientIsFull(cl)
      BY <1>1, <1>2, WindowAssumption, RingAssumption DEF WindowsFit, Outstanding, ClientIsFull
    <2> QED
      BY <2>1 DEF CL_AddReliableCommand
  <1>4. /\ p \in ClRecords /\ p.reliableSequence = n
        /\ p.reliableCommands = [cl.reliableCommands EXCEPT ![Slot(n)] = n]
        /\ p.state = cl.state
        /\ p.reliableAcknowledge = cl.reliableAcknowledge
        /\ p.serverCommandSequence = cl.serverCommandSequence
        /\ p.serverCommands = cl.serverCommands
        /\ p.lastExecuted = cl.lastExecuted /\ p.snap = cl.snap
    <2>1. n \in Int
      BY <1>1
    <2> QED
      BY <1>1, <2>1, PutClient
  <1> HIDE DEF p
  <1>5. Typed'
    BY <1>1, <1>2, <1>3, <1>4 DEF Typed
  <1>6. ServerInv' /\ Ending' = Ending
    BY <1>1, <1>2 DEF ServerInv, Ending
  <1>7. ClientInv'
    <2>1. Text(n, Never) = n /\ Never \in Int
      BY <1>1 DEF Text, Never
    <2>2. Holds(p.reliableCommands, n, Never)
      BY <1>1, <1>4, <2>1, RingPut DEF ClientInv
    <2>3. Outstanding(p) <= ClientWindow
      BY <1>1, <1>2, <1>4, WindowAssumption DEF Outstanding
    <2>4. sv.lastClientCommand <= n
      BY <1>1 DEF ClientInv
    <2> QED
      BY <1>1, <1>2, <1>3, <1>4, <1>6, <2>2, <2>3, <2>4 DEF ClientInv
  <1>8. MessageInv'
    <2>1. ASSUME NEW i \in DOMAIN toServer
          PROVE  ClientsMessage(toServer[i])'
      <3> DEFINE m == toServer[i]
      <3>1. ClientsMessage(m) /\ m.stamp \in Nat
        BY <1>1, MessageTypes DEF MessageInv, Typed
      <3>2. m.stamp <= n
        BY <1>1, <3>1 DEF ClientsMessage
      <3>3. toServer' = toServer
        BY <1>2
      <3> QED
        BY <1>2, <1>3, <1>4, <1>6, <3>1, <3>2, <3>3 DEF ClientsMessage
    <2>2. ASSUME NEW i \in DOMAIN toClient
          PROVE  ServersMessage(toClient[i])'
      BY <1>1, <1>2, <1>3, <1>4, <1>6 DEF MessageInv, ServersMessage
    <2> QED
      BY <1>1, <1>2, <2>1, <2>2 DEF MessageInv, InOrder
  <1>9. ExecutedInv'
    BY <1>1, <1>2, <1>3, <1>4 DEF ExecutedInv
  <1> QED
    BY <1>5, <1>6, <1>7, <1>8, <1>9 DEF Inv

-----------------------------------------------------------------------------
(* Messages are sent and lost                                              *)

LEMMA Appended ==
    ASSUME NEW messages \in Seq(Messages), NEW m \in Messages, InOrder(messages),
           \A i \in DOMAIN messages : messages[i].acknowledge <= m.acknowledge
    PROVE  /\ Append(messages, m) \in Seq(Messages)
           /\ \A i \in DOMAIN Append(messages, m) :
                 \/ Append(messages, m)[i] = m
                 \/ i \in DOMAIN messages /\ Append(messages, m)[i] = messages[i]
           /\ InOrder(Append(messages, m))
  <1> DEFINE longer == Append(messages, m)
             k == Len(messages)
  <1>1. /\ longer \in Seq(Messages) /\ DOMAIN messages = 1..k /\ k \in Nat
        /\ DOMAIN longer = 1..(k + 1) /\ longer[k + 1] = m
        /\ \A i \in 1..k : longer[i] = messages[i]
    OBVIOUS
  <1>2. \A i \in DOMAIN longer : longer[i] = m \/ (i \in 1..k /\ longer[i] = messages[i])
    BY <1>1
  <1> HIDE DEF longer, k
  <1>3. ASSUME NEW i \in DOMAIN longer, NEW j \in DOMAIN longer, i < j
        PROVE  longer[i].acknowledge <= longer[j].acknowledge
    <2>1. i \in 1..k /\ longer[i] = messages[i]
      BY <1>1, <1>3
    <2>2. CASE j \in 1..k
      BY <1>1, <1>3, <2>1, <2>2 DEF InOrder
    <2>3. CASE j = k + 1
      BY <1>1, <2>1, <2>3
    <2> QED
      BY <1>1, <2>2, <2>3
  <1>4. InOrder(longer)
    BY <1>3 DEF InOrder
  <1> QED
    BY <1>1, <1>2, <1>4 DEF longer, k

LEMMA Tailed ==
    ASSUME NEW messages \in Seq(Messages), messages # <<>>, InOrder(messages)
    PROVE  /\ Head(messages) \in Messages /\ 1 \in DOMAIN messages
           /\ Head(messages) = messages[1]
           /\ Tail(messages) \in Seq(Messages)
           /\ \A i \in DOMAIN Tail(messages) :
                 /\ i + 1 \in DOMAIN messages /\ Tail(messages)[i] = messages[i + 1]
                 /\ messages[1].acknowledge <= Tail(messages)[i].acknowledge
           /\ InOrder(Tail(messages))
  <1> DEFINE shorter == Tail(messages)
             k == Len(messages)
  <1>1. /\ shorter \in Seq(Messages) /\ DOMAIN messages = 1..k /\ k \in Nat \ {0}
        /\ DOMAIN shorter = 1..(k - 1)
        /\ \A i \in 1..(k - 1) : shorter[i] = messages[i + 1]
        /\ Head(messages) \in Messages /\ Head(messages) = messages[1]
    OBVIOUS
  <1> HIDE DEF shorter, k
  <1>2. ASSUME NEW i \in DOMAIN shorter
        PROVE  /\ i + 1 \in DOMAIN messages /\ shorter[i] = messages[i + 1]
               /\ messages[1].acknowledge <= shorter[i].acknowledge
    <2>1. i \in 1..(k - 1) /\ i + 1 \in 1..k /\ 1 \in 1..k /\ 1 < i + 1
      BY <1>1
    <2> QED
      BY <1>1, <2>1 DEF InOrder
  <1>3. ASSUME NEW i \in DOMAIN shorter, NEW j \in DOMAIN shorter, i < j
        PROVE  shorter[i].acknowledge <= shorter[j].acknowledge
    <2>1. i + 1 \in 1..k /\ j + 1 \in 1..k /\ i + 1 < j + 1
      BY <1>1, <1>3
    <2> QED
      BY <1>1, <1>2, <2>1 DEF InOrder
  <1>4. InOrder(shorter)
    BY <1>3 DEF InOrder
  <1> QED
    BY <1>1, <1>2, <1>4 DEF shorter, k

\* A message as the other end will read it.
LEMMA MessageIs ==
    ASSUME NEW acknowledge \in Nat, NEW key \in Int, NEW a \in Nat, NEW s \in Nat, NEW e \in Int,
           NEW m, m = [acknowledge |-> acknowledge, key |-> key,
                       commands |-> Texted(a, s, e), stamp |-> s]
    PROVE  m \in Messages
  BY DEF Messages

LEMMA ServerSendsMessage ==
    ASSUME WindowsFit, Inv, SV_SendClientSnapshot
    PROVE  Inv'
  <1>1. /\ Typed /\ ServerInv /\ ClientInv /\ MessageInv /\ ExecutedInv
        /\ sv.reliableSequence \in Nat /\ sv.reliableAcknowledge \in Nat
        /\ sv.lastClientCommand \in Nat /\ sv.lastClientCommandString \in Int
        /\ cl.reliableAcknowledge \in Nat
        /\ Ending \in Int /\ toClient \in Seq(Messages) /\ sv \in SvRecords
    BY Types DEF Inv, Typed
  <1> DEFINE m == [acknowledge |-> sv.lastClientCommand,
                   key         |-> sv.lastClientCommandString,
                   commands    |-> Unacknowledged(sv),
                   stamp       |-> sv.reliableSequence]
  <1>2. /\ UNCHANGED <<sv, cl, toServer, svExecuted, clExecuted, thought, shown>>
        /\ toClient' = Append(toClient, m)
    BY DEF SV_SendClientSnapshot
  <1>3. m.commands = Texted(sv.reliableAcknowledge, m.stamp, Ending)
    <2>1. sv.reliableSequence - sv.reliableAcknowledge <= MAX_RELIABLE_COMMANDS
      BY <1>1, ServerTypes, WindowAssumption, RingAssumption
        DEF WindowsFit, ServerInv, Outstanding
    <2>2. Unacknowledged(sv) =
              Texted(sv.reliableAcknowledge, sv.reliableSequence, Ending)
      BY <1>1, <2>1, UnacknowledgedTexts DEF ServerInv
    <2> QED
      BY <2>2
  <1>4. m \in Messages
    BY <1>1, <1>3, MessageIs
  <1>5. ServersMessage(m)
    BY <1>1, <1>3 DEF ServersMessage, ServerInv, ClientInv
  <1> HIDE DEF m
  <1>6. \A i \in DOMAIN toClient : toClient[i].acknowledge <= m.acknowledge
    BY <1>1 DEF MessageInv, ServersMessage, m
  <1>7. /\ toClient' \in Seq(Messages) /\ InOrder(toClient')
        /\ \A i \in DOMAIN toClient' :
              \/ toClient'[i] = m
              \/ i \in DOMAIN toClient /\ toClient'[i] = toClient[i]
    BY <1>1, <1>2, <1>4, <1>6, Appended DEF MessageInv
  <1>8. Typed'
    BY <1>1, <1>2, <1>7 DEF Typed
  <1>9. Ending' = Ending /\ ServerInv' /\ ClientInv' /\ ExecutedInv'
    BY <1>1, <1>2 DEF Ending, ServerInv, ClientInv, ExecutedInv
  <1>10. MessageInv'
    <2>1. ASSUME NEW x, ServersMessage(x) PROVE ServersMessage(x)'
      BY <1>2, <1>9, <2>1 DEF ServersMessage
    <2>2. (\A i \in DOMAIN toClient : ServersMessage(toClient[i]))'
      BY <1>1, <1>5, <1>7, <2>1 DEF MessageInv
    <2>3. (\A i \in DOMAIN toServer : ClientsMessage(toServer[i]))'
      BY <1>1, <1>2, <1>9 DEF MessageInv, ClientsMessage
    <2> QED
      BY <1>1, <1>2, <1>7, <2>2, <2>3 DEF MessageInv
  <1> QED
    BY <1>8, <1>9, <1>10 DEF Inv

LEMMA ClientSendsPacket ==
    ASSUME WindowsFit, Inv, CL_WritePacket
    PROVE  Inv'
  <1>1. /\ Typed /\ ServerInv /\ ClientInv /\ MessageInv /\ ExecutedInv
        /\ cl.reliableSequence \in Nat /\ cl.reliableAcknowledge \in Nat
        /\ cl.serverCommandSequence \in Nat /\ sv.reliableAcknowledge \in Nat
        /\ Ending \in Int /\ toServer \in Seq(Messages)
    BY Types DEF Inv, Typed
  <1> DEFINE m == [acknowledge |-> cl.serverCommandSequence,
                   key         |-> ClientKey,
                   commands    |-> Unacknowledged(cl),
                   stamp       |-> cl.reliableSequence]
  <1>2. /\ UNCHANGED <<sv, cl, toClient, svExecuted, clExecuted, thought, shown>>
        /\ toServer' = Append(toServer, m)
    BY DEF CL_WritePacket
  <1>3. m.commands = Texted(cl.reliableAcknowledge, m.stamp, Never)
    <2>1. cl.reliableSequence - cl.reliableAcknowledge <= MAX_RELIABLE_COMMANDS
      BY <1>1, WindowAssumption, RingAssumption DEF WindowsFit, ClientInv, Outstanding
    <2>2. Never \in Int
      BY DEF Never
    <2>3. Unacknowledged(cl) =
              Texted(cl.reliableAcknowledge, cl.reliableSequence, Never)
      BY <1>1, <2>1, <2>2, UnacknowledgedTexts DEF ClientInv
    <2> QED
      BY <2>3
  <1>4. ClientKey = Text(cl.serverCommandSequence, Ending)
    BY <1>1, RingAssumption DEF ClientKey, ClientInv, Holds
  <1>5. m \in Messages
    <2>1. Never \in Int /\ ClientKey \in Int
      BY <1>1, <1>4 DEF Never, Text, Disconnect
    <2> QED
      BY <1>1, <1>3, <2>1, MessageIs
  <1>6. ClientsMessage(m)
    BY <1>1, <1>3, <1>4 DEF ClientsMessage, ServerInv, ClientInv
  <1> HIDE DEF m
  <1>7. \A i \in DOMAIN toServer : toServer[i].acknowledge <= m.acknowledge
    BY <1>1 DEF MessageInv, ClientsMessage, m
  <1>8. /\ toServer' \in Seq(Messages) /\ InOrder(toServer')
        /\ \A i \in DOMAIN toServer' :
              \/ toServer'[i] = m
              \/ i \in DOMAIN toServer /\ toServer'[i] = toServer[i]
    BY <1>1, <1>2, <1>5, <1>7, Appended DEF MessageInv
  <1>9. Typed'
    BY <1>1, <1>2, <1>8 DEF Typed
  <1>10. Ending' = Ending /\ ServerInv' /\ ClientInv' /\ ExecutedInv'
    BY <1>1, <1>2 DEF Ending, ServerInv, ClientInv, ExecutedInv
  <1>11. MessageInv'
    <2>1. ASSUME NEW x, ClientsMessage(x) PROVE ClientsMessage(x)'
      BY <1>2, <1>10, <2>1 DEF ClientsMessage
    <2>2. (\A i \in DOMAIN toServer : ClientsMessage(toServer[i]))'
      BY <1>1, <1>6, <1>8, <2>1 DEF MessageInv
    <2>3. (\A i \in DOMAIN toClient : ServersMessage(toClient[i]))'
      BY <1>1, <1>2, <1>10 DEF MessageInv, ServersMessage
    <2> QED
      BY <1>1, <1>2, <1>8, <2>2, <2>3 DEF MessageInv
  <1> QED
    BY <1>9, <1>10, <1>11 DEF Inv

\* Nothing else changes when a message is lost, or received by an end that is not
\* connected any more.
LEMMA Lost ==
    ASSUME Inv, UNCHANGED <<sv, cl, svExecuted, clExecuted, thought, shown>>,
           toClient' \in Seq(Messages), toServer' \in Seq(Messages),
           \A i \in DOMAIN toClient' : \E j \in DOMAIN toClient : toClient'[i] = toClient[j],
           \A i \in DOMAIN toServer' : \E j \in DOMAIN toServer : toServer'[i] = toServer[j],
           InOrder(toClient'), InOrder(toServer')
    PROVE  Inv'
  <1>1. Typed /\ ServerInv /\ ClientInv /\ MessageInv /\ ExecutedInv
    BY DEF Inv
  <1>2. Typed'
    BY <1>1 DEF Typed
  <1>3. Ending' = Ending /\ ServerInv' /\ ClientInv' /\ ExecutedInv'
    BY <1>1 DEF Ending, ServerInv, ClientInv, ExecutedInv
  <1>4. MessageInv'
    <2>1. ASSUME NEW x, ServersMessage(x) PROVE ServersMessage(x)'
      BY <1>3, <2>1 DEF ServersMessage
    <2>2. ASSUME NEW x, ClientsMessage(x) PROVE ClientsMessage(x)'
      BY <1>3, <2>2 DEF ClientsMessage
    <2> QED
      BY <1>1, <2>1, <2>2 DEF MessageInv
  <1> QED
    BY <1>2, <1>3, <1>4 DEF Inv

LEMMA Loses ==
    ASSUME Inv, UNCHANGED <<sv, cl, svExecuted, clExecuted, thought, shown>>,
           \/ toClient # <<>> /\ toClient' = Tail(toClient) /\ toServer' = toServer
           \/ toServer # <<>> /\ toServer' = Tail(toServer) /\ toClient' = toClient
    PROVE  Inv'
  <1>1. /\ toClient \in Seq(Messages) /\ toServer \in Seq(Messages)
        /\ InOrder(toClient) /\ InOrder(toServer)
    BY DEF Inv, Typed, MessageInv
  <1>2. CASE toClient # <<>> /\ toClient' = Tail(toClient) /\ toServer' = toServer
    <2>1. /\ toClient' \in Seq(Messages) /\ InOrder(toClient')
          /\ \A i \in DOMAIN toClient' : \E j \in DOMAIN toClient : toClient'[i] = toClient[j]
      BY <1>1, <1>2, Tailed
    <2> QED
      BY <1>1, <1>2, <2>1, Lost
  <1>3. CASE toServer # <<>> /\ toServer' = Tail(toServer) /\ toClient' = toClient
    <2>1. /\ toServer' \in Seq(Messages) /\ InOrder(toServer')
          /\ \A i \in DOMAIN toServer' : \E j \in DOMAIN toServer : toServer'[i] = toServer[j]
      BY <1>1, <1>3, Tailed
    <2> QED
      BY <1>1, <1>3, <2>1, Lost
  <1> QED
    BY <1>2, <1>3

-----------------------------------------------------------------------------
(* The server receives a packet                                            *)

LEMMA NewestOfInterval ==
    ASSUME NEW a \in Nat, NEW b \in Nat, a <= b
    PROVE  Newest(a..b) = b
  BY DEF Newest

LEMMA Joined ==
    ASSUME NEW s \in Seq(Int), NEW t \in Seq(Int)
    PROVE  /\ s \o t \in Seq(Int) /\ Len(s \o t) = Len(s) + Len(t)
           /\ \A i \in 1..(Len(s) + Len(t)) :
                (s \o t)[i] = IF i <= Len(s) THEN s[i] ELSE t[i - Len(s)]
  OBVIOUS

LEMMA Continued ==
    ASSUME NEW k \in Nat, NEW d \in Nat
    PROVE  [i \in 1..k |-> i] \o [i \in 1..d |-> k + i] = [i \in 1..(k + d) |-> i]
  <1> DEFINE s == [i \in 1..k |-> i]
             t == [i \in 1..d |-> k + i]
  <1>1. s \in Seq(Int) /\ t \in Seq(Int) /\ Len(s) = k /\ Len(t) = d
    OBVIOUS
  <1>2. /\ s \o t \in Seq(Int) /\ Len(s \o t) = k + d
        /\ \A i \in 1..(k + d) : (s \o t)[i] = IF i <= k THEN s[i] ELSE t[i - k]
    <2> HIDE DEF s, t
    <2> QED
      BY <1>1, Joined, Zenon
  <1>3. \A i \in 1..(k + d) : (s \o t)[i] = i
    BY <1>2
  <1>4. s \o t \in [1..(k + d) -> Int]
    <2> DEFINE q == s \o t
    <2>1. q \in Seq(Int) /\ Len(q) = k + d
      BY <1>2
    <2> HIDE DEF q
    <2>2. q \in [1..Len(q) -> Int]
      BY <2>1
    <2>3. q \in [1..(k + d) -> Int]
      BY <2>1, <2>2, Zenon
    <2> QED
      BY <2>3 DEF q
  <1> HIDE DEF s, t
  <1>5. s \o t = [i \in 1..(k + d) |-> i]
    BY <1>3, <1>4
  <1> QED
    BY <1>5 DEF s, t

LEMMA IntervalSize ==
    ASSUME NEW a \in Nat, NEW b \in Nat, a <= b
    PROVE  Cardinality((a + 1)..b) = b - a
  <1> DEFINE c == a + 1
  <1>1. c \in Int /\ b \in Int
    OBVIOUS
  <1> HIDE DEF c
  <1>2. Cardinality(c..b) = IF c > b THEN 0 ELSE b - c + 1
    BY <1>1, FS_Interval
  <1> QED
    BY <1>2 DEF c

\* The server can read every packet that reaches it, whatever is lost, and finds every
\* command it has not executed in it.
LEMMA ServerUnderstands ==
    ASSUME WindowsFit, Inv, sv.state = "active",
           NEW m \in Messages, ClientsMessage(m)
    PROVE  /\ ServerCanDecode(m) /\ ~OutOfRange(sv, m.acknowledge) /\ ~LostCommands(m)
           /\ NewToServer(m) = (sv.lastClientCommand + 1)..m.stamp
           /\ \A n \in NewToServer(m) : m.commands[n] = n
  <1>1. /\ Typed /\ ServerInv /\ ClientInv
        /\ sv.reliableSequence \in Nat /\ sv.reliableAcknowledge \in Nat
        /\ sv.lastClientCommand \in Nat /\ cl.reliableAcknowledge \in Nat
        /\ cl.serverCommandSequence \in Nat
        /\ m.acknowledge \in Nat /\ m.stamp \in Nat
    BY Types, MessageTypes DEF Inv, Typed
  <1>2. Ending = Never
    BY DEF Ending
  <1>3. /\ m.acknowledge \in 0..sv.reliableSequence
        /\ m.acknowledge > sv.reliableSequence - MAX_RELIABLE_COMMANDS
    BY <1>1, WindowAssumption, RingAssumption
      DEF ServerInv, ClientInv, ClientsMessage, Outstanding, WindowsFit
  <1>4. ServerCanDecode(m)
    BY <1>1, <1>2, <1>3 DEF ServerCanDecode, ServerInv, ClientsMessage, Holds
  <1>5. ~OutOfRange(sv, m.acknowledge)
    BY <1>1, <1>3, RingAssumption DEF OutOfRange
  <1>6. PICK a \in 0..cl.reliableAcknowledge : m.commands = Texted(a, m.stamp, Never)
    BY DEF ClientsMessage
  <1>7. a \in Nat /\ a <= sv.lastClientCommand
    BY <1>1 DEF ClientInv
  <1>8. /\ DOMAIN m.commands = (a + 1)..m.stamp
        /\ \A n \in DOMAIN m.commands : m.commands[n] = n
    BY <1>1, <1>6, <1>7 DEF Texted, Text, Never
  <1>9. NewToServer(m) = (sv.lastClientCommand + 1)..m.stamp
    BY <1>1, <1>7, <1>8 DEF NewToServer
  <1>10. \A n \in NewToServer(m) : m.commands[n] = n
    BY <1>8 DEF NewToServer
  <1>11. ~LostCommands(m)
    BY <1>1, <1>9 DEF LostCommands
  <1> QED
    BY <1>4, <1>5, <1>9, <1>10, <1>11

\* The record of a server that has got an acknowledgement.
LEMMA HeardNothing ==
    ASSUME NEW s \in SvRecords, NEW a \in Nat, ~OutOfRange(s, a)
    PROVE  /\ Acknowledge(s, a) \in SvRecords
           /\ Acknowledge(s, a).state = s.state /\ Acknowledge(s, a).reason = s.reason
           /\ Acknowledge(s, a).disconnects = s.disconnects
           /\ Acknowledge(s, a).reliableSequence = s.reliableSequence
           /\ Acknowledge(s, a).reliableAcknowledge = a
           /\ Acknowledge(s, a).reliableCommands = s.reliableCommands
           /\ Acknowledge(s, a).lastClientCommand = s.lastClientCommand
           /\ Acknowledge(s, a).lastClientCommandString = s.lastClientCommandString
  <1>1. Acknowledge(s, a) = [s EXCEPT !.reliableAcknowledge = a]
    BY DEF Acknowledge
  <1> QED
    BY <1>1 DEF SvRecords

LEMMA ServerExecutes ==
    ASSUME WindowsFit, Inv, sv.state = "active",
           NEW m \in Messages, ClientsMessage(m), ExecuteClientMessage(m)
    PROVE  LET k == IF m.stamp > sv.lastClientCommand THEN m.stamp ELSE sv.lastClientCommand
           IN  /\ sv' \in SvRecords
               /\ sv'.state = sv.state /\ sv'.reason = sv.reason
               /\ sv'.disconnects = sv.disconnects
               /\ sv'.reliableSequence = sv.reliableSequence
               /\ sv'.reliableAcknowledge = m.acknowledge
               /\ sv'.reliableCommands = sv.reliableCommands
               /\ sv'.lastClientCommand = k /\ sv'.lastClientCommandString = k
               /\ svExecuted' = [i \in 1..k |-> i]
               /\ thought' = m.stamp
  <1>1. /\ sv \in SvRecords /\ ServerInv /\ sv.lastClientCommand \in Nat
        /\ m.acknowledge \in Nat /\ m.stamp \in Nat
        /\ svExecuted = [i \in 1..sv.lastClientCommand |-> i]
    BY Types, MessageTypes DEF Inv, Typed, ExecutedInv
  <1> DEFINE l == sv.lastClientCommand
             new == NewToServer(m)
  <1>2. /\ ~OutOfRange(sv, m.acknowledge)
        /\ new = (l + 1)..m.stamp
        /\ \A n \in new : m.commands[n] = n
    BY ServerUnderstands
  <1>3. thought' = m.stamp
    BY DEF ExecuteClientMessage
  <1>4. CASE m.stamp <= l
    <2>1. new = {}
      BY <1>1, <1>2, <1>4
    <2>2. sv' = Acknowledge(sv, m.acknowledge)
      BY <2>1 DEF ExecuteClientMessage
    <2>3. svExecuted' = svExecuted
      <3>1. svExecuted' = svExecuted \o [i \in 1..Cardinality(new) |-> m.commands[l + i]]
        BY DEF ExecuteClientMessage
      <3>2. Cardinality(new) = 0
        BY <2>1, FS_EmptySet
      <3>3. svExecuted \in Seq(Int)
        BY DEF Inv, Typed
      <3>4. [i \in 1..Cardinality(new) |-> m.commands[l + i]] = <<>>
        BY <3>2
      <3>5. svExecuted \o <<>> = svExecuted
        BY <3>3
      <3> QED
        BY <3>1, <3>4, <3>5
    <2>4. sv.lastClientCommandString = l
      BY <1>1 DEF ServerInv
    <2> QED
      BY <1>1, <1>2, <1>3, <1>4, <2>2, <2>3, <2>4, HeardNothing
  <1>5. CASE m.stamp > l
    <2>1. new # {} /\ Newest(new) = m.stamp /\ m.commands[m.stamp] = m.stamp
      <3>1. l + 1 \in Nat /\ l + 1 <= m.stamp
        BY <1>1, <1>5
      <3> QED
        BY <1>1, <1>2, <3>1, NewestOfInterval
    <2>2. sv' = [Acknowledge(sv, m.acknowledge) EXCEPT !.lastClientCommand = m.stamp,
                                                       !.lastClientCommandString = m.stamp]
      BY <2>1 DEF ExecuteClientMessage
    <2>3. svExecuted' = [i \in 1..m.stamp |-> i]
      <3> DEFINE d == m.stamp - l
      <3>1. Cardinality(new) = d /\ d \in Nat
        <4>1. Cardinality((l + 1)..m.stamp) = m.stamp - l
          BY <1>1, <1>5, IntervalSize
        <4> QED
          BY <1>1, <1>2, <1>5, <4>1
      <3>2. svExecuted' = svExecuted \o [i \in 1..d |-> m.commands[l + i]]
        BY <3>1 DEF ExecuteClientMessage
      <3>3. \A i \in 1..d : m.commands[l + i] = l + i
        <4> TAKE i \in 1..d
        <4>1. l + i \in (l + 1)..m.stamp
          BY <1>1, <3>1
        <4> HIDE DEF l, new
        <4> QED
          BY <1>2, <4>1, Zenon
      <3>4. [i \in 1..d |-> m.commands[l + i]] = [i \in 1..d |-> l + i]
        BY <3>3
      <3>5. svExecuted' = [i \in 1..(l + d) |-> i]
        BY <1>1, <3>1, <3>2, <3>4, Continued
      <3>6. l + d = m.stamp
        BY <1>1
      <3> QED
        BY <3>5, <3>6
    <2>4. (IF m.stamp > l THEN m.stamp ELSE l) = m.stamp
      BY <1>5
    <2>5. /\ sv' \in SvRecords
          /\ sv'.state = sv.state /\ sv'.reason = sv.reason
          /\ sv'.disconnects = sv.disconnects
          /\ sv'.reliableSequence = sv.reliableSequence
          /\ sv'.reliableAcknowledge = m.acknowledge
          /\ sv'.reliableCommands = sv.reliableCommands
          /\ sv'.lastClientCommand = m.stamp /\ sv'.lastClientCommandString = m.stamp
      <3> DEFINE q == Acknowledge(sv, m.acknowledge)
                 n == m.stamp
      <3>1. /\ q \in SvRecords
            /\ q.state = sv.state /\ q.reason = sv.reason /\ q.disconnects = sv.disconnects
            /\ q.reliableSequence = sv.reliableSequence
            /\ q.reliableAcknowledge = m.acknowledge
            /\ q.reliableCommands = sv.reliableCommands
        BY <1>1, <1>2, HeardNothing
      <3>2. /\ n \in Nat /\ n \in Int
            /\ sv' = [q EXCEPT !.lastClientCommand = n, !.lastClientCommandString = n]
        BY <1>1, <2>2
      <3> HIDE DEF q, n
      <3>3. sv' \in SvRecords
        BY <3>1, <3>2 DEF SvRecords
      <3>4. /\ sv'.state = q.state /\ sv'.reason = q.reason
            /\ sv'.disconnects = q.disconnects
            /\ sv'.reliableSequence = q.reliableSequence
            /\ sv'.reliableAcknowledge = q.reliableAcknowledge
            /\ sv'.reliableCommands = q.reliableCommands
            /\ sv'.lastClientCommand = n /\ sv'.lastClientCommandString = n
        BY <3>1, <3>2 DEF SvRecords
      <3> QED
        BY <3>1, <3>3, <3>4 DEF n
    <2> QED
      BY <1>3, <2>3, <2>4, <2>5
  <1> QED
    BY <1>1, <1>4, <1>5

LEMMA ServerReceives ==
    ASSUME WindowsFit, Inv, SV_PacketEvent
    PROVE  Inv'
  <1> DEFINE m == Head(toServer)
  <1>1. /\ Typed /\ ServerInv /\ ClientInv /\ MessageInv /\ ExecutedInv
        /\ toServer \in Seq(Messages) /\ InOrder(toServer)
        /\ toClient \in Seq(Messages)
    BY DEF Inv, Typed, MessageInv
  <1>2. toServer # <<>> /\ toServer' = Tail(toServer)
        /\ UNCHANGED <<cl, toClient, clExecuted, shown>>
    BY DEF SV_PacketEvent
  <1>3. CASE sv.state = "zombie" /\ UNCHANGED <<sv, svExecuted, thought>>
    BY <1>2, <1>3, Loses
  <1>4. CASE sv.state = "active" /\ UNCHANGED <<sv, svExecuted, thought>>
    BY <1>2, <1>4, Loses
  <1>5. CASE sv.state = "active" /\ ~UNCHANGED <<sv, svExecuted, thought>>
    <2>1. /\ m \in Messages /\ 1 \in DOMAIN toServer /\ m = toServer[1]
          /\ Tail(toServer) \in Seq(Messages)
          /\ \A i \in DOMAIN Tail(toServer) :
                /\ i + 1 \in DOMAIN toServer /\ Tail(toServer)[i] = toServer[i + 1]
                /\ m.acknowledge <= Tail(toServer)[i].acknowledge
          /\ InOrder(Tail(toServer))
      BY <1>1, <1>2, Tailed
    <2>2. ClientsMessage(m)
      BY <1>1, <2>1 DEF MessageInv
    <2> DEFINE k == IF m.stamp > sv.lastClientCommand THEN m.stamp ELSE sv.lastClientCommand
               a == m.acknowledge
    <2>3. ExecuteClientMessage(m)
      <3>1. ServerCanDecode(m) /\ ~OutOfRange(sv, m.acknowledge) /\ ~LostCommands(m)
        BY <1>5, <2>1, <2>2, ServerUnderstands
      <3>2. \/ ExecuteClientMessage(m)
            \/ RefuseClientMessage(m)
            \/ ExecuteGarbledClientMessage(m)
        BY <1>5 DEF SV_PacketEvent
      <3> QED
        BY <3>1, <3>2 DEF RefuseClientMessage, ExecuteGarbledClientMessage
    <2>4. /\ sv' \in SvRecords
          /\ sv'.state = sv.state /\ sv'.reason = sv.reason
          /\ sv'.disconnects = sv.disconnects
          /\ sv'.reliableSequence = sv.reliableSequence
          /\ sv'.reliableAcknowledge = a
          /\ sv'.reliableCommands = sv.reliableCommands
          /\ sv'.lastClientCommand = k /\ sv'.lastClientCommandString = k
          /\ svExecuted' = [i \in 1..k |-> i]
          /\ thought' = m.stamp
      BY <1>5, <2>1, <2>2, <2>3, ServerExecutes
    <2>5. /\ sv.reliableSequence \in Nat /\ sv.reliableAcknowledge \in Nat
          /\ sv.lastClientCommand \in Nat
          /\ cl.serverCommandSequence \in Nat /\ cl.reliableSequence \in Nat
          /\ cl.reliableAcknowledge \in Nat
          /\ m.stamp \in Nat /\ a \in Nat
      BY <1>1, <2>1, Types, MessageTypes
    <2>6. /\ sv.reliableAcknowledge <= a /\ a <= cl.serverCommandSequence
          /\ a <= sv.reliableSequence
          /\ m.stamp <= cl.reliableSequence
      BY <1>1, <2>2, <2>5 DEF ClientsMessage, ClientInv
    <2>7. k \in Nat /\ sv.lastClientCommand <= k /\ m.stamp <= k /\ k <= cl.reliableSequence
      BY <1>1, <2>5, <2>6 DEF ClientInv
    <2> HIDE DEF k, a, m
    <2>8. Typed'
      <3>1. svExecuted' \in Seq(Int)
        BY <2>4, <2>7
      <3>2. m.stamp \in Nat /\ cl \in ClRecords /\ clExecuted \in Seq(Int) /\ shown \in Nat
        BY <1>1, <2>5 DEF Typed
      <3> QED
        BY <1>1, <1>2, <2>1, <2>4, <3>1, <3>2 DEF Typed
    <2>9. Ending = Never /\ Ending' = Ending
      BY <1>5, <2>4 DEF Ending
    <2>10. ServerInv'
      <3>1. Outstanding(sv') <= ServerWindow
        BY <1>1, <1>5, <2>4, <2>5, <2>6, WindowAssumption DEF ServerInv, Outstanding
      <3>2. Holds(sv'.reliableCommands, sv'.reliableSequence, Ending')
        BY <1>1, <2>4, <2>9 DEF ServerInv
      <3> QED
        BY <1>1, <1>5, <2>4, <2>6, <3>1, <3>2 DEF ServerInv
    <2>11. ClientInv'
      <3>1. cl.reliableAcknowledge <= k
        BY <1>1, <2>5, <2>7 DEF ClientInv
      <3> QED
        BY <1>1, <1>2, <2>4, <2>6, <2>7, <2>9, <3>1 DEF ClientInv
    <2>12. MessageInv'
      <3>1. ASSUME NEW i \in DOMAIN toClient
            PROVE  ServersMessage(toClient[i])'
        <4> DEFINE x == toClient[i]
        <4>1. ServersMessage(x) /\ x.acknowledge \in Nat
          BY <1>1, MessageTypes DEF MessageInv, Typed
        <4>2. x.acknowledge <= k
          BY <2>5, <2>7, <4>1 DEF ServersMessage
        <4>3. \E b \in 0..a : x.commands = Texted(b, x.stamp, Ending)
          BY <2>5, <2>6, <4>1 DEF ServersMessage
        <4>4. toClient' = toClient /\ cl' = cl
          BY <1>2
        <4> QED
          BY <2>4, <2>9, <4>1, <4>2, <4>3, <4>4 DEF ServersMessage
      <3>2. ASSUME NEW i \in DOMAIN toServer'
            PROVE  ClientsMessage(toServer[i])'
        <4> DEFINE x == toServer'[i]
        <4>1. ClientsMessage(x) /\ a <= x.acknowledge
          BY <1>1, <1>2, <2>1 DEF MessageInv, a
        <4> QED
          BY <1>2, <2>4, <2>9, <4>1 DEF ClientsMessage
      <3> QED
        BY <1>1, <1>2, <2>1, <3>1, <3>2 DEF MessageInv
    <2>13. ExecutedInv'
      BY <1>1, <1>2, <2>4, <2>7 DEF ExecutedInv
    <2> QED
      BY <2>8, <2>10, <2>11, <2>12, <2>13 DEF Inv
  <1>6. sv.state \in {"active", "zombie"}
    BY <1>1, ServerTypes DEF Typed
  <1> QED
    BY <1>3, <1>4, <1>5, <1>6 DEF SV_PacketEvent

-----------------------------------------------------------------------------
(* The client receives a message                                           *)

\* The client can read every message that reaches it, whatever is lost, and finds every
\* command it has not seen in it.
LEMMA ClientUnderstands ==
    ASSUME WindowsFit, Inv, NEW m \in Messages, ServersMessage(m)
    PROVE  /\ ClientCanDecode(m) /\ ~OutOfRange(cl, m.acknowledge)
           /\ NewToClient(m) = (cl.serverCommandSequence + 1)..m.stamp
           /\ \A n \in NewToClient(m) : m.commands[n] = Text(n, Ending)
  <1>1. /\ Typed /\ ServerInv /\ ClientInv
        /\ cl.reliableSequence \in Nat /\ cl.reliableAcknowledge \in Nat
        /\ sv.lastClientCommand \in Nat /\ sv.reliableAcknowledge \in Nat
        /\ cl.serverCommandSequence \in Nat /\ Ending \in Int
        /\ m.acknowledge \in Nat /\ m.stamp \in Nat
    BY Types, MessageTypes DEF Inv, Typed
  <1>2. /\ m.acknowledge \in 0..cl.reliableSequence
        /\ m.acknowledge > cl.reliableSequence - MAX_RELIABLE_COMMANDS
    BY <1>1, WindowAssumption, RingAssumption, SMTT(30)
      DEF ClientInv, ServersMessage, Outstanding, WindowsFit
  <1>3. ClientCanDecode(m)
    <2>1. Text(m.acknowledge, Never) = m.acknowledge
      BY <1>1 DEF Text, Never
    <2>2. cl.reliableCommands[Slot(m.acknowledge)] = Text(m.acknowledge, Never)
      BY <1>1, <1>2 DEF ClientInv, Holds
    <2> QED
      BY <2>1, <2>2 DEF ClientCanDecode, ServersMessage
  <1>4. ~OutOfRange(cl, m.acknowledge)
    BY <1>1, <1>2, RingAssumption DEF OutOfRange
  <1>5. PICK a \in 0..sv.reliableAcknowledge : m.commands = Texted(a, m.stamp, Ending)
    BY DEF ServersMessage
  <1>6. a \in Nat /\ a <= cl.serverCommandSequence
    BY <1>1 DEF ClientInv
  <1>7. /\ DOMAIN m.commands = (a + 1)..m.stamp
        /\ \A n \in DOMAIN m.commands : m.commands[n] = Text(n, Ending)
    BY <1>5 DEF Texted
  <1>8. NewToClient(m) = (cl.serverCommandSequence + 1)..m.stamp
    BY <1>1, <1>6, <1>7 DEF NewToClient
  <1>9. \A n \in NewToClient(m) : m.commands[n] = Text(n, Ending)
    BY <1>7 DEF NewToClient
  <1> QED
    BY <1>3, <1>4, <1>8, <1>9

\* A set of natural numbers with something in it has a least one.
LEMMA NatMinimum ==
    ASSUME NEW T, T \subseteq Nat, T # {}
    PROVE  \E x \in T : \A y \in T : x <= y
  <1>1. IsWellFoundedOn(OpToRel(<, Nat), Nat)
    BY NatLessThanWellFounded
  <1>2. PICK x \in T : \A y \in T : ~(<<y, x>> \in OpToRel(<, Nat))
    BY <1>1, WFMin
  <1>3. \A y \in T : ~(y < x)
    BY <1>2 DEF OpToRel
  <1> QED
    BY <1>3

\* A set of command numbers that are bounded has a newest one.
LEMMA NewestIn ==
    ASSUME NEW b \in Nat, NEW ns, ns \subseteq 0..b, ns # {}
    PROVE  Newest(ns) \in ns /\ \A k \in ns : k <= Newest(ns)
  <1> DEFINE below == {d \in Nat : b - d \in ns}
  <1>1. \A k \in ns : b - k \in below
    BY DEF below
  <1>2. below \subseteq Nat /\ below # {}
    BY <1>1
  <1>3. PICK d \in below : \A x \in below : d <= x
    BY <1>2, NatMinimum
  <1>4. b - d \in ns /\ \A k \in ns : k <= b - d
    BY <1>1, <1>3
  <1> QED
    BY <1>4 DEF Newest

\* The ring a client is left with that held commands up to number last, and is told those
\* up to number stamp.
ToldRing(ring, last, stamp, e) ==
    [i \in 0..(MAX_RELIABLE_COMMANDS - 1) |->
        LET ns == {n \in (last + 1)..stamp : Slot(n) = i}
        IN  IF ns = {} THEN ring[i] ELSE Text(Newest(ns), e)]

LEMMA RingTold ==
    ASSUME NEW ring \in Ring, NEW last \in Nat, NEW stamp \in Nat, last < stamp,
           NEW e \in Int, Holds(ring, last, e)
    PROVE  /\ ToldRing(ring, last, stamp, e) \in Ring
           /\ Holds(ToldRing(ring, last, stamp, e), stamp, e)
  <1> DEFINE Ns(i) == {n \in (last + 1)..stamp : Slot(n) = i}
             r == ToldRing(ring, last, stamp, e)
             Slots == 0..(MAX_RELIABLE_COMMANDS - 1)
  <1>1. r = [i \in Slots |-> IF Ns(i) = {} THEN ring[i] ELSE Text(Newest(Ns(i)), e)]
    BY DEF ToldRing
  <1>2. ASSUME NEW i \in Slots, Ns(i) # {}
        PROVE  Newest(Ns(i)) \in Ns(i) /\ \A k \in Ns(i) : k <= Newest(Ns(i))
    <2>1. Ns(i) \subseteq 0..stamp
      OBVIOUS
    <2> HIDE DEF Ns
    <2> QED
      BY <1>2, <2>1, NewestIn
  <1>3. r \in Ring
    <2>1. \A i \in Slots : Ns(i) # {} => Newest(Ns(i)) \in Int
      BY <1>2
    <2> HIDE DEF Ns
    <2>2. \A i \in Slots : (IF Ns(i) = {} THEN ring[i] ELSE Text(Newest(Ns(i)), e)) \in Int
      BY <2>1 DEF Ring, Texts, Text, Disconnect
    <2> QED
      BY <1>1, <2>2 DEF Ring, Texts
  <1>4. ASSUME NEW n \in 0..stamp, n > stamp - MAX_RELIABLE_COMMANDS
        PROVE  r[Slot(n)] = Text(n, e)
    <2> DEFINE i == Slot(n)
    <2>1. i \in Slots /\ n \in Nat
      BY SlotType
    <2>2. CASE n > last
      <3>1. n \in Ns(i)
        BY <2>1, <2>2
      <3>2. Newest(Ns(i)) \in Ns(i) /\ n <= Newest(Ns(i))
        BY <1>2, <2>1, <3>1
      <3> DEFINE top == Newest(Ns(i))
      <3>3. top \in Nat /\ top <= stamp /\ Slot(top) = Slot(n)
        BY <3>2
      <3>4. top = n
        <4> HIDE DEF top
        <4> SUFFICES ASSUME n < top PROVE FALSE
          BY <3>2, <3>3, <2>1 DEF top
        <4> QED
          BY <1>4, <2>1, <3>3, SlotsApart, RingAssumption
      <3> QED
        BY <1>1, <2>1, <3>1, <3>4
    <2>3. CASE n <= last
      <3>1. Ns(i) = {}
        <4> SUFFICES ASSUME NEW k \in Ns(i) PROVE FALSE
          OBVIOUS
        <4>1. k \in Nat /\ n < k /\ k <= stamp /\ Slot(k) = Slot(n)
          BY <2>1, <2>3
        <4> QED
          BY <1>4, <2>1, <4>1, SlotsApart, RingAssumption
      <3>2. n > last - MAX_RELIABLE_COMMANDS
        BY <1>4, <2>1, RingAssumption
      <3>3. ring[i] = Text(n, e)
        BY <2>1, <2>3, <3>2 DEF Holds
      <3> QED
        BY <1>1, <2>1, <3>1, <3>3
    <2> QED
      BY <2>1, <2>2, <2>3
  <1> HIDE DEF r
  <1>5. Holds(r, stamp, e)
    BY <1>4 DEF Holds
  <1> QED
    BY <1>3, <1>5 DEF r

LEMMA ClientParses ==
    ASSUME WindowsFit, Inv, NEW m \in Messages, ServersMessage(m), ParseServerMessage(m)
    PROVE  LET k == IF m.stamp > cl.serverCommandSequence THEN m.stamp
                    ELSE cl.serverCommandSequence
           IN  /\ cl' \in ClRecords
               /\ cl'.state = cl.state
               /\ cl'.reliableSequence = cl.reliableSequence
               /\ cl'.reliableAcknowledge = m.acknowledge
               /\ cl'.reliableCommands = cl.reliableCommands
               /\ cl'.serverCommandSequence = k
               /\ Holds(cl'.serverCommands, k, Ending)
               /\ cl'.lastExecuted = cl.lastExecuted
               /\ cl'.snap = [serverCommandNum |-> k, stamp |-> m.stamp]
  <1>1. /\ cl \in ClRecords /\ ClientInv /\ cl.serverCommandSequence \in Nat
        /\ cl.serverCommands \in Ring /\ Ending \in Int
        /\ m.acknowledge \in Nat /\ m.stamp \in Nat
        /\ Holds(cl.serverCommands, cl.serverCommandSequence, Ending)
    BY Types, MessageTypes DEF Inv, Typed, ClientInv
  <1> DEFINE l == cl.serverCommandSequence
             new == NewToClient(m)
             k == IF m.stamp > l THEN m.stamp ELSE l
             p == ParseCommandStrings(m)
  <1>2. /\ ~OutOfRange(cl, m.acknowledge)
        /\ new = (l + 1)..m.stamp
        /\ \A n \in new : m.commands[n] = Text(n, Ending)
    BY ClientUnderstands
  <1>3. DOMAIN cl.serverCommands = 0..(MAX_RELIABLE_COMMANDS - 1)
    BY <1>1 DEF Ring
  <1>4. PICK ring \in Ring : /\ Holds(ring, k, Ending)
                             /\ p = [cl EXCEPT !.serverCommandSequence = k,
                                               !.serverCommands = ring]
    <2> DEFINE Ns(i) == {n \in new : Slot(n) = i}
               parsed == [i \in DOMAIN cl.serverCommands |->
                            IF Ns(i) = {} THEN cl.serverCommands[i]
                            ELSE m.commands[Newest(Ns(i))]]
               seq == IF new = {} THEN l ELSE Newest(new)
    <2>1. p = [cl EXCEPT !.serverCommandSequence = seq, !.serverCommands = parsed]
      BY DEF ParseCommandStrings
    <2>2. CASE m.stamp <= l
      <3>1. new = {}
        BY <1>1, <1>2, <2>2
      <3>2. seq = l /\ k = l
        BY <1>1, <2>2, <3>1
      <3>3. parsed = cl.serverCommands
        <4>1. \A i : Ns(i) = {}
          BY <3>1
        <4> HIDE DEF Ns
        <4>2. parsed = [i \in DOMAIN cl.serverCommands |-> cl.serverCommands[i]]
          BY <4>1
        <4> QED
          BY <1>1, <4>2 DEF Ring
      <3> HIDE DEF parsed, seq, k
      <3> QED
        BY <1>1, <2>1, <3>2, <3>3
    <2>3. CASE m.stamp > l
      <3>1. l + 1 \in Nat /\ l + 1 <= m.stamp
        BY <1>1, <2>3
      <3>2. new # {} /\ Newest(new) = m.stamp
        BY <1>1, <1>2, <3>1, NewestOfInterval
      <3>3. seq = m.stamp /\ k = m.stamp
        BY <2>3, <3>2
      <3> DEFINE told == ToldRing(cl.serverCommands, l, m.stamp, Ending)
      <3>4. told \in Ring /\ Holds(told, m.stamp, Ending)
        BY <1>1, <2>3, RingTold
      <3>5. parsed = told
        <4>1. ASSUME NEW i, Ns(i) # {}
              PROVE  m.commands[Newest(Ns(i))] = Text(Newest(Ns(i)), Ending)
          <5>1. Ns(i) \subseteq 0..m.stamp /\ Ns(i) \subseteq new
            BY <1>1, <1>2
          <5> HIDE DEF Ns
          <5>2. Newest(Ns(i)) \in new
            BY <1>1, <4>1, <5>1, NewestIn
          <5> QED
            BY <1>2, <5>2
        <4>2. \A i : Ns(i) = {n \in (l + 1)..m.stamp : Slot(n) = i}
          BY <1>2
        <4> HIDE DEF Ns
        <4>3. parsed = [i \in 0..(MAX_RELIABLE_COMMANDS - 1) |->
                          IF Ns(i) = {} THEN cl.serverCommands[i]
                          ELSE Text(Newest(Ns(i)), Ending)]
          BY <1>3, <4>1
        <4>4. told = [i \in 0..(MAX_RELIABLE_COMMANDS - 1) |->
                          IF Ns(i) = {} THEN cl.serverCommands[i]
                          ELSE Text(Newest(Ns(i)), Ending)]
          BY <4>2 DEF ToldRing
        <4> QED
          BY <4>3, <4>4
      <3> HIDE DEF parsed, seq, k, told
      <3> QED
        BY <2>1, <3>3, <3>4, <3>5
    <2>4. m.stamp <= l \/ m.stamp > l
      BY <1>1
    <2> HIDE DEF p, k
    <2> QED
      BY <2>2, <2>3, <2>4, Zenon
  <1>5. k \in Nat
    BY <1>1
  <1> DEFINE shot == [serverCommandNum |-> k, stamp |-> m.stamp]
  <1>6. cl' = Acknowledge([p EXCEPT !.snap = [serverCommandNum |-> p.serverCommandSequence,
                                              stamp |-> m.stamp]], m.acknowledge)
    BY DEF ParseServerMessage, ParseSnapshot
  <1> HIDE DEF k, p
  <1>7. /\ p \in ClRecords /\ p.serverCommandSequence = k /\ p.serverCommands = ring
        /\ p.state = cl.state /\ p.reliableSequence = cl.reliableSequence
        /\ p.reliableAcknowledge = cl.reliableAcknowledge
        /\ p.reliableCommands = cl.reliableCommands /\ p.lastExecuted = cl.lastExecuted
    BY <1>1, <1>4, <1>5 DEF ClRecords
  <1> DEFINE q == [p EXCEPT !.snap = shot]
  <1>8. /\ q \in ClRecords /\ q.serverCommandSequence = k /\ q.serverCommands = ring
        /\ q.state = cl.state /\ q.reliableSequence = cl.reliableSequence
        /\ q.reliableAcknowledge = cl.reliableAcknowledge
        /\ q.reliableCommands = cl.reliableCommands /\ q.lastExecuted = cl.lastExecuted
        /\ q.snap = shot
    <2>1. shot \in [serverCommandNum : Nat, stamp : Nat]
      BY <1>1, <1>5
    <2> HIDE DEF shot
    <2> QED
      BY <1>7, <2>1 DEF ClRecords
  <1>9. cl' = [q EXCEPT !.reliableAcknowledge = m.acknowledge]
    <2>1. cl' = Acknowledge(q, m.acknowledge)
      BY <1>6, <1>7
    <2> HIDE DEF q
    <2>2. ~OutOfRange(q, m.acknowledge)
      BY <1>2, <1>8 DEF OutOfRange
    <2> QED
      BY <2>1, <2>2 DEF Acknowledge
  <1> HIDE DEF q, shot
  <1>10. /\ cl' \in ClRecords /\ cl'.serverCommandSequence = k /\ cl'.serverCommands = ring
         /\ cl'.state = cl.state /\ cl'.reliableSequence = cl.reliableSequence
         /\ cl'.reliableAcknowledge = m.acknowledge
         /\ cl'.reliableCommands = cl.reliableCommands
         /\ cl'.lastExecuted = cl.lastExecuted
         /\ cl'.snap = shot
    BY <1>1, <1>8, <1>9 DEF ClRecords
  <1> QED
    BY <1>4, <1>10 DEF k, shot

LEMMA ClientReceives ==
    ASSUME WindowsFit, Inv, CL_PacketEvent
    PROVE  Inv'
  <1> DEFINE m == Head(toClient)
  <1>1. /\ Typed /\ ServerInv /\ ClientInv /\ MessageInv /\ ExecutedInv
        /\ toClient \in Seq(Messages) /\ InOrder(toClient)
        /\ toServer \in Seq(Messages)
    BY DEF Inv, Typed, MessageInv
  <1>2. toClient # <<>> /\ toClient' = Tail(toClient)
        /\ UNCHANGED <<sv, toServer, svExecuted, clExecuted, thought, shown>>
    BY DEF CL_PacketEvent
  <1>3. CASE UNCHANGED cl
    BY <1>2, <1>3, Loses
  <1>4. CASE cl.state = "active" /\ ~UNCHANGED cl
    <2>1. /\ m \in Messages /\ 1 \in DOMAIN toClient /\ m = toClient[1]
          /\ Tail(toClient) \in Seq(Messages)
          /\ \A i \in DOMAIN Tail(toClient) :
                /\ i + 1 \in DOMAIN toClient /\ Tail(toClient)[i] = toClient[i + 1]
                /\ m.acknowledge <= Tail(toClient)[i].acknowledge
          /\ InOrder(Tail(toClient))
      BY <1>1, <1>2, Tailed
    <2>2. ServersMessage(m)
      BY <1>1, <2>1 DEF MessageInv
    <2> DEFINE k == IF m.stamp > cl.serverCommandSequence THEN m.stamp
                    ELSE cl.serverCommandSequence
               a == m.acknowledge
    <2>3. ParseServerMessage(m)
      <3>1. ClientCanDecode(m)
        BY <2>1, <2>2, ClientUnderstands
      <3>2. ParseServerMessage(m) \/ ParseGarbledServerMessage(m)
        BY <1>4 DEF CL_PacketEvent
      <3> QED
        BY <3>1, <3>2 DEF ParseGarbledServerMessage
    <2>4. /\ cl' \in ClRecords
          /\ cl'.state = cl.state
          /\ cl'.reliableSequence = cl.reliableSequence
          /\ cl'.reliableAcknowledge = a
          /\ cl'.reliableCommands = cl.reliableCommands
          /\ cl'.serverCommandSequence = k
          /\ Holds(cl'.serverCommands, k, Ending)
          /\ cl'.lastExecuted = cl.lastExecuted
          /\ cl'.snap = [serverCommandNum |-> k, stamp |-> m.stamp]
      BY <2>1, <2>2, <2>3, ClientParses
    <2>5. /\ sv.reliableSequence \in Nat /\ sv.reliableAcknowledge \in Nat
          /\ sv.lastClientCommand \in Nat
          /\ cl.serverCommandSequence \in Nat /\ cl.reliableSequence \in Nat
          /\ cl.reliableAcknowledge \in Nat /\ cl.lastExecuted \in Nat
          /\ m.stamp \in Nat /\ a \in Nat
      BY <1>1, <2>1, Types, MessageTypes
    <2>6. /\ cl.reliableAcknowledge <= a /\ a <= sv.lastClientCommand
          /\ a <= cl.reliableSequence
          /\ m.stamp <= sv.reliableSequence
      BY <1>1, <2>2, <2>5 DEF ServersMessage, ClientInv
    <2>7. /\ k \in Nat /\ cl.serverCommandSequence <= k /\ m.stamp <= k
          /\ k <= sv.reliableSequence
      BY <1>1, <2>5, <2>6 DEF ClientInv
    <2>8. /\ cl'.snap # <<>>
          /\ cl'.snap.serverCommandNum = k /\ cl'.snap.stamp = m.stamp
      <3> HIDE DEF k
      <3> QED
        BY <2>4
    <2> HIDE DEF k, a, m
    <2>9. Typed'
      BY <1>1, <1>2, <2>1, <2>4 DEF Typed
    <2>10. Ending' = Ending /\ ServerInv'
      BY <1>1, <1>2 DEF Ending, ServerInv
    <2>11. ClientInv'
      <3>1. Outstanding(cl') <= ClientWindow
        BY <1>1, <2>4, <2>5, <2>6, WindowAssumption DEF ClientInv, Outstanding
      <3>2. sv.reliableAcknowledge <= k /\ cl.lastExecuted <= k
        BY <1>1, <2>5, <2>7 DEF ClientInv
      <3> QED
        BY <1>1, <1>2, <2>4, <2>6, <2>7, <2>8, <2>10, <3>1, <3>2 DEF ClientInv
    <2>12. MessageInv'
      <3>1. ASSUME NEW i \in DOMAIN toServer
            PROVE  ClientsMessage(toServer[i])'
        <4> DEFINE x == toServer[i]
        <4>1. ClientsMessage(x) /\ x.acknowledge \in Nat
          BY <1>1, MessageTypes DEF MessageInv, Typed
        <4>2. x.acknowledge <= k
          BY <2>5, <2>7, <4>1 DEF ClientsMessage
        <4>3. \E b \in 0..a : x.commands = Texted(b, x.stamp, Never)
          BY <2>5, <2>6, <4>1 DEF ClientsMessage
        <4>4. toServer' = toServer /\ sv' = sv
          BY <1>2
        <4> QED
          BY <2>4, <2>10, <4>1, <4>2, <4>3, <4>4 DEF ClientsMessage
      <3>2. ASSUME NEW i \in DOMAIN toClient'
            PROVE  ServersMessage(toClient[i])'
        <4> DEFINE x == toClient'[i]
        <4>1. ServersMessage(x) /\ a <= x.acknowledge
          BY <1>1, <1>2, <2>1 DEF MessageInv, a
        <4> QED
          BY <1>2, <2>4, <2>10, <4>1 DEF ServersMessage
      <3> QED
        BY <1>1, <1>2, <2>1, <3>1, <3>2 DEF MessageInv
    <2>13. ExecutedInv'
      BY <1>1, <1>2, <2>4 DEF ExecutedInv
    <2> QED
      BY <2>9, <2>10, <2>11, <2>12, <2>13 DEF Inv
  <1>5. cl.state \in {"active", "dropped"}
    BY <1>1, ClientTypes DEF Typed
  <1> QED
    BY <1>3, <1>4, <1>5 DEF CL_PacketEvent

-----------------------------------------------------------------------------
(* The client game executes what came with a snapshot                      *)

\* The client gives up: nothing of it but its state and the reason changes.
LEMMA GivesUp ==
    ASSUME NEW c \in ClRecords, NEW error \in {"none", "disconnect", "cycled out"}
    PROVE  /\ ClientError(c, error) \in ClRecords
           /\ ClientError(c, error).state = "dropped"
           /\ ClientError(c, error).reliableSequence = c.reliableSequence
           /\ ClientError(c, error).reliableAcknowledge = c.reliableAcknowledge
           /\ ClientError(c, error).reliableCommands = c.reliableCommands
           /\ ClientError(c, error).serverCommandSequence = c.serverCommandSequence
           /\ ClientError(c, error).serverCommands = c.serverCommands
           /\ ClientError(c, error).lastExecuted = c.lastExecuted
           /\ ClientError(c, error).snap = c.snap
  BY DEF ClientError, ClRecords

\* What is executed is the next commands in order; when not all of them are, it is all but
\* the last, a disconnect.
LEMMA HeededCommands ==
    ASSUME Inv, cl.snap # <<>>, \A n \in Due : ~CycledOut(n)
    PROVE  LET last == IF Heeded = Due THEN cl.snap.serverCommandNum
                       ELSE cl.snap.serverCommandNum - 1
           IN  /\ last \in Nat /\ cl.lastExecuted <= last
               /\ Cardinality(Heeded) = last - cl.lastExecuted
               /\ \A i \in 1..Cardinality(Heeded) :
                     TextDue(cl.lastExecuted + i) = cl.lastExecuted + i
  <1> DEFINE l == cl.lastExecuted
             top == cl.snap.serverCommandNum
             s == cl.serverCommandSequence
             N == MAX_RELIABLE_COMMANDS
  <1>1. /\ l \in Nat /\ top \in Nat /\ s \in Nat /\ l <= top /\ top <= s
        /\ s <= sv.reliableSequence /\ sv.reliableSequence \in Nat
        /\ Holds(cl.serverCommands, s, Ending)
    <2>1. Typed /\ ClientInv
      BY DEF Inv
    <2>2. top \in Nat
      BY <2>1, ClientTypes DEF Typed
    <2> QED
      BY <2>1, <2>2, Types DEF ClientInv
  <1>2. Ending = Never \/ Ending = sv.reliableSequence
    BY DEF Ending
  <1> HIDE DEF l, top, s
  <1>3. Due = (l + 1)..top
    BY DEF Due, l, top
  <1>4. ASSUME NEW n \in Due
        PROVE  TextDue(n) = IF n = Ending THEN Disconnect ELSE n
    <2>1. n \in 0..s /\ n > s - N
      BY <1>1, <1>3, RingAssumption DEF CycledOut, s
    <2> QED
      BY <1>1, <2>1 DEF TextDue, Holds, Text
  <1>5. \A n \in Due : TextDue(n) = Disconnect => n = top /\ n = Ending
    BY <1>1, <1>2, <1>3, <1>4 DEF Disconnect, Never
  <1>6. CASE \A n \in Due : TextDue(n) # Disconnect
    <2>1. Heeded = Due
      BY <1>6 DEF Heeded
    <2>2. Cardinality(Heeded) = top - l
      BY <1>1, <1>3, <2>1, IntervalSize
    <2>3. \A i \in 1..(top - l) : l + i \in Due
      BY <1>1, <1>3
    <2>4. \A n \in Due : TextDue(n) = n
      BY <1>4, <1>6
    <2> QED
      BY <1>1, <2>1, <2>2, <2>3, <2>4 DEF l, top
  <1>7. CASE \E n \in Due : TextDue(n) = Disconnect
    <2>1. top \in Due /\ TextDue(top) = Disconnect
      BY <1>5, <1>7
    <2>2. Heeded = (l + 1)..(top - 1)
      BY <1>1, <1>3, <1>5, <2>1 DEF Heeded
    <2>3. Heeded # Due /\ top - 1 \in Nat /\ l <= top - 1
      BY <1>1, <1>3, <2>1, <2>2
    <2>4. Cardinality(Heeded) = top - 1 - l
      BY <1>1, <2>2, <2>3, IntervalSize
    <2>5. \A i \in 1..(top - 1 - l) : TextDue(l + i) = l + i
      <3> SUFFICES ASSUME NEW i \in 1..(top - 1 - l) PROVE TextDue(l + i) = l + i
        OBVIOUS
      <3>1. l + i \in Due /\ l + i # top
        BY <1>1, <1>3
      <3>2. TextDue(l + i) # Disconnect
        BY <1>5, <3>1
      <3> QED
        BY <1>4, <3>1, <3>2
    <2> QED
      BY <2>3, <2>4, <2>5 DEF l, top
  <1> QED
    BY <1>6, <1>7

LEMMA GameExecutes ==
    ASSUME WindowsFit, Inv, CG_TransitionSnapshot
    PROVE  Inv'
  <1>1. /\ Typed /\ ServerInv /\ ClientInv /\ MessageInv /\ ExecutedInv
        /\ cl \in ClRecords /\ cl.lastExecuted \in Nat /\ cl.serverCommandSequence \in Nat
        /\ sv.reliableSequence \in Nat /\ shown \in Nat
    BY Types DEF Inv, Typed
  <1>2. /\ UNCHANGED <<sv, toClient, toServer, svExecuted, thought>>
        /\ cl.state = "active" /\ cl.snap # <<>>
    BY DEF CG_TransitionSnapshot
  <1>3. Ending' = Ending /\ ServerInv'
    BY <1>1, <1>2 DEF Ending, ServerInv
  \* Nothing the other invariants are about changes but what was executed.
  <1>4. ASSUME cl' \in ClRecords,
               cl'.reliableSequence = cl.reliableSequence,
               cl'.reliableAcknowledge = cl.reliableAcknowledge,
               cl'.reliableCommands = cl.reliableCommands,
               cl'.serverCommandSequence = cl.serverCommandSequence,
               cl'.serverCommands = cl.serverCommands,
               cl'.lastExecuted <= cl.serverCommandSequence,
               cl'.snap = <<>> \/ (cl'.snap = cl.snap /\ cl'.lastExecuted = cl.lastExecuted),
               clExecuted' \in Seq(Int), shown' \in Nat,
               ExecutedInv'
        PROVE  Inv'
    <2>1. Typed'
      BY <1>1, <1>2, <1>4 DEF Typed
    <2>2. ClientInv'
      <3>1. Outstanding(cl') <= ClientWindow
        BY <1>1, <1>4 DEF ClientInv, Outstanding
      <3> QED
        BY <1>1, <1>2, <1>3, <1>4, <3>1 DEF ClientInv
    <2>3. MessageInv'
      <3>1. ASSUME NEW x, ServersMessage(x) PROVE ServersMessage(x)'
        BY <1>2, <1>3, <1>4, <3>1 DEF ServersMessage
      <3>2. ASSUME NEW x, ClientsMessage(x) PROVE ClientsMessage(x)'
        BY <1>2, <1>3, <1>4, <3>2 DEF ClientsMessage
      <3> QED
        BY <1>1, <1>2, <3>1, <3>2 DEF MessageInv
    <2> QED
      BY <1>3, <1>4, <2>1, <2>2, <2>3 DEF Inv
  <1>5. CASE \E n \in Due : CycledOut(n)
    <2>1. /\ cl' = ClientError(cl, "cycled out")
          /\ clExecuted' = clExecuted /\ shown' = shown
      BY <1>5 DEF CG_TransitionSnapshot
    <2>2. /\ cl' \in ClRecords
          /\ cl'.state = "dropped"
          /\ cl'.reliableSequence = cl.reliableSequence
          /\ cl'.reliableAcknowledge = cl.reliableAcknowledge
          /\ cl'.reliableCommands = cl.reliableCommands
          /\ cl'.serverCommandSequence = cl.serverCommandSequence
          /\ cl'.serverCommands = cl.serverCommands
          /\ cl'.lastExecuted = cl.lastExecuted /\ cl'.snap = cl.snap
      BY <1>1, <2>1, GivesUp
    <2>3. ExecutedInv'
      BY <1>1, <1>2, <2>1, <2>2 DEF ExecutedInv
    <2>4. clExecuted' \in Seq(Int) /\ shown' \in Nat
          /\ cl'.lastExecuted <= cl.serverCommandSequence
      BY <1>1, <2>1, <2>2 DEF Typed, ClientInv
    <2> QED
      BY <1>4, <2>2, <2>3, <2>4
  <1>6. CASE \A n \in Due : ~CycledOut(n)
    <2> DEFINE l == cl.lastExecuted
               top == cl.snap.serverCommandNum
               last == IF Heeded = Due THEN top ELSE top - 1
               d == Cardinality(Heeded)
    <2>1. /\ last \in Nat /\ l <= last /\ d = last - l
          /\ \A i \in 1..d : TextDue(l + i) = l + i
      BY <1>2, <1>6, HeededCommands
    <2>2. /\ top \in Nat /\ top <= cl.serverCommandSequence
          /\ top <= sv.reliableSequence /\ cl.snap.stamp <= top /\ cl.snap.stamp \in Nat
      BY <1>1, <1>2, ClientTypes DEF ClientInv
    <2>3. clExecuted' = [i \in 1..last |-> i]
      <3>1. clExecuted' = clExecuted \o [i \in 1..d |-> TextDue(l + i)]
        BY <1>6 DEF CG_TransitionSnapshot
      <3>2. [i \in 1..d |-> TextDue(l + i)] = [i \in 1..d |-> l + i]
        BY <2>1
      <3>3. clExecuted = [i \in 1..l |-> i]
        BY <1>1, <1>2 DEF ExecutedInv
      <3>4. d \in Nat /\ l + d = last
        BY <1>1, <2>1
      <3> HIDE DEF d, l, last
      <3>5. clExecuted' = [i \in 1..l |-> i] \o [i \in 1..d |-> l + i]
        BY <3>1, <3>2, <3>3
      <3>6. l \in Nat
        BY <1>1 DEF l
      <3>7. clExecuted' = [i \in 1..(l + d) |-> i]
        BY <3>4, <3>5, <3>6, Continued
      <3> QED
        BY <3>4, <3>7
    <2>4. last <= top
      BY <2>2
    <2> HIDE DEF last
    <2>5. clExecuted' \in Seq(Int) /\ Len(clExecuted') = last
      BY <2>1, <2>3
    <2>6. clExecuted' = [i \in 1..Len(clExecuted') |-> i]
      BY <2>3, <2>5
    <2>7. shown <= l
      BY <1>1, <1>2 DEF ExecutedInv
    <2>8. CASE Heeded = Due
      <3>1. /\ shown' = cl.snap.stamp
            /\ cl' = [cl EXCEPT !.lastExecuted = top, !.snap = <<>>]
        BY <1>6, <2>8 DEF CG_TransitionSnapshot
      <3>2. /\ cl' \in ClRecords
            /\ cl'.state = cl.state
            /\ cl'.reliableSequence = cl.reliableSequence
            /\ cl'.reliableAcknowledge = cl.reliableAcknowledge
            /\ cl'.reliableCommands = cl.reliableCommands
            /\ cl'.serverCommandSequence = cl.serverCommandSequence
            /\ cl'.serverCommands = cl.serverCommands
            /\ cl'.lastExecuted = top /\ cl'.snap = <<>>
        <4> HIDE DEF top
        <4> QED
          BY <1>1, <2>2, <3>1 DEF ClRecords
      <3>3. last = top
        BY <2>8 DEF last
      <3> HIDE DEF top
      <3>4. ExecutedInv'
        BY <1>1, <1>2, <2>1, <2>2, <2>4, <2>5, <2>6, <3>1, <3>2, <3>3
          DEF ExecutedInv, top
      <3>5. cl'.lastExecuted <= cl.serverCommandSequence /\ shown' \in Nat
        BY <2>2, <3>1, <3>2
      <3> QED
        BY <1>4, <2>5, <3>2, <3>4, <3>5
    <2>9. CASE Heeded # Due
      <3>1. /\ shown' = shown
            /\ cl' = ClientError(cl, "disconnect")
        BY <1>6, <2>9 DEF CG_TransitionSnapshot
      <3>2. /\ cl' \in ClRecords
            /\ cl'.state = "dropped"
            /\ cl'.reliableSequence = cl.reliableSequence
            /\ cl'.reliableAcknowledge = cl.reliableAcknowledge
            /\ cl'.reliableCommands = cl.reliableCommands
            /\ cl'.serverCommandSequence = cl.serverCommandSequence
            /\ cl'.serverCommands = cl.serverCommands
            /\ cl'.lastExecuted = cl.lastExecuted /\ cl'.snap = cl.snap
        BY <1>1, <3>1, GivesUp
      <3>3. shown <= last /\ last <= sv.reliableSequence
        BY <1>1, <2>1, <2>2, <2>4, <2>7
      <3>4. ExecutedInv'
        BY <1>1, <1>2, <2>5, <2>6, <3>1, <3>2, <3>3 DEF ExecutedInv
      <3>5. cl'.lastExecuted <= cl.serverCommandSequence /\ shown' \in Nat
        BY <1>1, <3>1, <3>2 DEF ClientInv
      <3> QED
        BY <1>4, <2>5, <3>2, <3>4, <3>5
    <2> QED
      BY <2>8, <2>9
  <1> QED
    BY <1>5, <1>6

-----------------------------------------------------------------------------
(* The invariant                                                           *)

LEMMA InvInductive ==
    ASSUME WindowsFit, Inv, [Next]_vars
    PROVE  Inv'
  <1>1. CASE SV_SendServerCommand
    BY <1>1, ServerSends
  <1>2. CASE SV_GameDropClient
    BY <1>2, ServerDrops
  <1>3. CASE SV_SendClientSnapshot
    BY <1>3, ServerSendsMessage
  <1>4. CASE CL_AddReliableCommand
    BY <1>4, ClientAdds
  <1>5. CASE CL_WritePacket
    BY <1>5, ClientSendsPacket
  <1>6. CASE SV_PacketEvent
    BY <1>6, ServerReceives
  <1>7. CASE CL_PacketEvent
    BY <1>7, ClientReceives
  <1>8. CASE CG_TransitionSnapshot
    BY <1>8, GameExecutes
  <1>9. CASE LoseToClient
    BY <1>9, Loses DEF LoseToClient
  <1>10. CASE LoseToServer
    BY <1>10, Loses DEF LoseToServer
  <1>11. CASE UNCHANGED vars
    <2>1. UNCHANGED <<sv, cl, toClient, toServer, svExecuted, clExecuted, thought, shown>>
      BY <1>11 DEF vars
    <2>2. /\ toClient \in Seq(Messages) /\ toServer \in Seq(Messages)
          /\ InOrder(toClient) /\ InOrder(toServer)
      BY DEF Inv, Typed, MessageInv
    <2> QED
      BY <2>1, <2>2, Lost
  <1> QED
    BY <1>1, <1>2, <1>3, <1>4, <1>5, <1>6, <1>7, <1>8, <1>9, <1>10, <1>11 DEF Next

\* While no ring is filled, the invariant that orders what is under way holds: what each
\* end has been told of the other lies between what the other knows and what it issued.
THEOREM Invariance == WindowsFit => (Spec => []Inv)
  <1> SUFFICES ASSUME WindowsFit PROVE Spec => []Inv
    OBVIOUS
  <1>1. Inv /\ [Next]_vars => Inv'
    BY InvInductive
  <1> QED
    BY <1>1, InitInv, PTL DEF Spec

-----------------------------------------------------------------------------
(* The properties                                                          *)

\* The counters of both ends of the reliable commands stay ordered: an end acknowledges
\* only what was issued and executes only what it received (client_t, clientConnection_t).
THEOREM TypeCorrect == WindowsFit => (Spec => []TypeOK)
  <1> SUFFICES ASSUME WindowsFit PROVE Spec => []TypeOK
    OBVIOUS
  <1>1. Inv => TypeOK
    <2> SUFFICES ASSUME Inv PROVE TypeOK
      OBVIOUS
    <2>1. Typed /\ ServerInv /\ ClientInv
      BY DEF Inv
    <2>2. /\ sv.state \in {"active", "zombie"} /\ cl.state \in {"active", "dropped"}
      BY <2>1, ServerTypes, ClientTypes DEF Typed
    <2> QED
      BY <2>1, <2>2, Types DEF TypeOK, ServerInv, ClientInv
  <1> QED
    BY <1>1, Invariance, PTL

\* CG_TransitionSnapshot shows the client no snapshot before the commands the server
\* issued ahead of it are executed, whatever messages are lost.
THEOREM SnapshotsWait == WindowsFit => (Spec => []CommandBeforeSnapshot)
  <1> SUFFICES ASSUME WindowsFit PROVE Spec => []CommandBeforeSnapshot
    OBVIOUS
  <1>1. Inv => CommandBeforeSnapshot
    BY DEF Inv, ExecutedInv, CommandBeforeSnapshot
  <1> QED
    BY <1>1, Invariance, PTL

\* SV_ExecuteClientMessage runs no usercmd before the commands the client issued ahead of
\* it, whatever packets are lost.
THEOREM UsercmdsWait == WindowsFit => (Spec => []CommandBeforeUsercmd)
  <1> SUFFICES ASSUME WindowsFit PROVE Spec => []CommandBeforeUsercmd
    OBVIOUS
  <1>1. Inv => CommandBeforeUsercmd
    <2> SUFFICES ASSUME Inv PROVE CommandBeforeUsercmd
      OBVIOUS
    <2>1. sv.lastClientCommand \in Nat
      BY Types DEF Inv
    <2>2. Len(svExecuted) = sv.lastClientCommand
      BY <2>1 DEF Inv, ExecutedInv
    <2> QED
      BY <2>2 DEF Inv, ExecutedInv, CommandBeforeUsercmd
  <1> QED
    BY <1>1, Invariance, PTL

\* SV_Netchan_Decode finds, in the slot a packet acknowledges, the very text the client
\* scrambled the packet with, for every packet under way to a client not dropped.
THEOREM ServerCanRead == WindowsFit => (Spec => []ServerDecodes)
  <1> SUFFICES ASSUME WindowsFit PROVE Spec => []ServerDecodes
    OBVIOUS
  <1>1. Inv => ServerDecodes
    <2> SUFFICES ASSUME Inv, sv.state = "active", NEW i \in DOMAIN toServer
                 PROVE  ServerCanDecode(toServer[i])
      BY DEF ServerDecodes
    <2>1. toServer[i] \in Messages /\ ClientsMessage(toServer[i])
      BY DEF Inv, Typed, MessageInv
    <2> QED
      BY <2>1, ServerUnderstands
  <1> QED
    BY <1>1, Invariance, PTL

\* CL_Netchan_Decode finds, in the slot a message acknowledges, the very text the server
\* scrambled the message with.
THEOREM ClientCanRead == WindowsFit => (Spec => []ClientDecodes)
  <1> SUFFICES ASSUME WindowsFit PROVE Spec => []ClientDecodes
    OBVIOUS
  <1>1. Inv => ClientDecodes
    <2> SUFFICES ASSUME Inv, NEW i \in DOMAIN toClient
                 PROVE  ClientCanDecode(toClient[i])
      BY DEF ClientDecodes
    <2>1. toClient[i] \in Messages /\ ServersMessage(toClient[i])
      BY DEF Inv, Typed, MessageInv
    <2> QED
      BY <2>1, ClientUnderstands
  <1> QED
    BY <1>1, Invariance, PTL

\* A client is dropped by SV_DropClient for no other reason than that the game wished it,
\* and gives up only for a disconnect or for commands that cycled out of its ring.
THEOREM NobodyIsDropped == WindowsFit => (Spec => []NoHonestDrop)
  <1> SUFFICES ASSUME WindowsFit PROVE Spec => []NoHonestDrop
    OBVIOUS
  <1>1. Inv => NoHonestDrop
    <2> SUFFICES ASSUME Inv PROVE NoHonestDrop
      OBVIOUS
    <2>1. sv \in SvRecords /\ cl \in ClRecords
      BY DEF Inv, Typed
    <2> QED
      BY <2>1 DEF SvRecords, ClRecords, NoHonestDrop
  <1> QED
    BY <1>1, Invariance, PTL

\* After SV_DropClient, every message to the client carries the disconnect command until
\* the client has acknowledged it; and it cannot, for its packets are not read any more.
THEOREM DisconnectIsSent == WindowsFit => (Spec => []DisconnectPending)
  <1> SUFFICES ASSUME WindowsFit PROVE Spec => []DisconnectPending
    OBVIOUS
  <1>1. Inv => DisconnectPending
    <2> SUFFICES ASSUME Inv, sv.state = "zombie"
                 PROVE  \E n \in DOMAIN Unacknowledged(sv) : Unacknowledged(sv)[n] = Disconnect
      BY DEF DisconnectPending
    <2> DEFINE n == sv.reliableSequence
    <2>1. /\ ServerInv /\ n \in Nat /\ sv.reliableAcknowledge \in Nat
          /\ sv.reliableAcknowledge < n
      BY Types DEF Inv, ServerInv
    <2>2. Ending = n
      BY DEF Ending
    <2>3. sv.reliableCommands[Slot(n)] = Text(n, n)
      BY <2>1, <2>2, RingAssumption DEF ServerInv, Holds
    <2>4. n \in (sv.reliableAcknowledge + 1)..n
      BY <2>1
    <2> QED
      BY <2>3, <2>4 DEF Unacknowledged, Text
  <1> QED
    BY <1>1, Invariance, PTL

-----------------------------------------------------------------------------
(* The streams                                                             *)

\* What one packet does to the two counters the streams are about.
LEMMA PacketCounts ==
    ASSUME WindowsFit, Inv, SV_PacketEvent
    PROVE  /\ sv'.reliableSequence = sv.reliableSequence
           /\ UNCHANGED <<cl, clExecuted>>
           /\ Len(svExecuted') >= Len(svExecuted)
  <1> DEFINE m == Head(toServer)
  <1>1. /\ toServer \in Seq(Messages) /\ InOrder(toServer) /\ MessageInv /\ toServer # <<>>
        /\ svExecuted \in Seq(Int) /\ sv.lastClientCommand \in Nat
        /\ svExecuted = [i \in 1..sv.lastClientCommand |-> i]
    BY Types DEF Inv, Typed, MessageInv, ExecutedInv, SV_PacketEvent
  <1>2. UNCHANGED <<cl, clExecuted>>
    BY DEF SV_PacketEvent
  <1>3. CASE sv.state = "zombie"
    BY <1>1, <1>2, <1>3 DEF SV_PacketEvent
  <1>4. CASE sv.state = "active"
    <2>1. m \in Messages /\ ClientsMessage(m)
      BY <1>1, Tailed DEF MessageInv
    <2>2. ExecuteClientMessage(m)
      BY <1>4, <2>1, ServerUnderstands
        DEF SV_PacketEvent, RefuseClientMessage, ExecuteGarbledClientMessage
    <2> DEFINE k == IF m.stamp > sv.lastClientCommand THEN m.stamp ELSE sv.lastClientCommand
    <2>3. sv'.reliableSequence = sv.reliableSequence /\ svExecuted' = [i \in 1..k |-> i]
      BY <1>4, <2>1, <2>2, ServerExecutes
    <2>4. k \in Nat /\ sv.lastClientCommand <= k
      BY <1>1, <2>1, MessageTypes
    <2> HIDE DEF k
    <2>5. Len(svExecuted) = sv.lastClientCommand /\ Len(svExecuted') = k
      BY <1>1, <2>3, <2>4
    <2> QED
      BY <1>2, <2>3, <2>4, <2>5
  <1> QED
    BY <1>3, <1>4 DEF SV_PacketEvent

LEMMA MessageCounts ==
    ASSUME WindowsFit, Inv, CL_PacketEvent
    PROVE  /\ cl'.reliableSequence = cl.reliableSequence
           /\ UNCHANGED <<sv, svExecuted, clExecuted>>
  <1> DEFINE m == Head(toClient)
  <1>1. /\ toClient \in Seq(Messages) /\ InOrder(toClient) /\ MessageInv /\ toClient # <<>>
    BY DEF Inv, Typed, MessageInv, CL_PacketEvent
  <1>2. UNCHANGED <<sv, svExecuted, clExecuted>>
    BY DEF CL_PacketEvent
  <1>3. CASE cl.state = "dropped"
    BY <1>2, <1>3 DEF CL_PacketEvent
  <1>4. CASE cl.state = "active"
    <2>1. m \in Messages /\ ServersMessage(m)
      BY <1>1, Tailed DEF MessageInv
    <2>2. ParseServerMessage(m)
      BY <1>4, <2>1, ClientUnderstands DEF CL_PacketEvent, ParseGarbledServerMessage
    <2> QED
      BY <1>2, <2>1, <2>2, ClientParses
  <1> QED
    BY <1>3, <1>4 DEF CL_PacketEvent

LEMMA GameCounts ==
    ASSUME WindowsFit, Inv, CG_TransitionSnapshot
    PROVE  /\ cl'.reliableSequence = cl.reliableSequence
           /\ UNCHANGED <<sv, svExecuted>>
           /\ Len(clExecuted') >= Len(clExecuted)
  <1>1. cl \in ClRecords /\ clExecuted \in Seq(Int) /\ cl.lastExecuted \in Nat
    BY Types DEF Inv, Typed
  <1>2. UNCHANGED <<sv, svExecuted>> /\ cl.snap # <<>>
    BY DEF CG_TransitionSnapshot
  <1>3. cl'.reliableSequence = cl.reliableSequence
    <2>1. \/ cl' = ClientError(cl, "cycled out")
          \/ cl' = ClientError(cl, "disconnect")
          \/ cl' = [cl EXCEPT !.lastExecuted = cl.snap.serverCommandNum, !.snap = <<>>]
      BY DEF CG_TransitionSnapshot
    <2> QED
      BY <1>1, <2>1 DEF ClRecords, ClientError
  <1>4. Len(clExecuted') >= Len(clExecuted)
    <2>1. CASE clExecuted' = clExecuted
      BY <1>1, <2>1
    <2>2. CASE \A n \in Due : ~CycledOut(n)
      <3> DEFINE d == Cardinality(Heeded)
                 t == [i \in 1..d |-> TextDue(cl.lastExecuted + i)]
      <3>1. d \in Nat /\ \A i \in 1..d : TextDue(cl.lastExecuted + i) \in Int
        BY <1>1, <1>2, <2>2, HeededCommands
      <3>2. t \in Seq(Int)
        BY <3>1
      <3>3. clExecuted' = clExecuted \o t
        BY <2>2 DEF CG_TransitionSnapshot
      <3> HIDE DEF t
      <3> QED
        BY <1>1, <3>2, <3>3
    <2> QED
      BY <2>1, <2>2 DEF CG_TransitionSnapshot
  <1> QED
    BY <1>2, <1>3, <1>4

LEMMA IssueCounts ==
    ASSUME WindowsFit, Inv, SV_SendServerCommand \/ SV_GameDropClient
    PROVE  /\ sv'.reliableSequence > sv.reliableSequence
           /\ sv'.reliableSequence \in Nat
           /\ UNCHANGED <<cl, svExecuted, clExecuted>>
  <1>1. /\ sv \in SvRecords /\ ServerInv /\ sv.state = "active"
        /\ sv.reliableSequence \in Nat /\ sv.reliableAcknowledge \in Nat
        /\ UNCHANGED <<cl, svExecuted, clExecuted>>
    BY Types DEF Inv, Typed, SV_SendServerCommand, SV_GameDropClient
  <1>2. Outstanding(sv) + 1 < MAX_RELIABLE_COMMANDS
    BY <1>1, WindowAssumption, RingAssumption DEF ServerInv, Outstanding, WindowsFit
  <1>3. CASE SV_SendServerCommand
    <2>1. Outstanding(sv) # MAX_RELIABLE_COMMANDS /\ sv.reliableSequence + 1 \in Int
      BY <1>1, <1>2, RingAssumption DEF Outstanding
    <2>2. sv' = Put(sv, sv.reliableSequence + 1)
      BY <1>3, <2>1 DEF SV_SendServerCommand, AddServerCommand
    <2>3. sv'.reliableSequence = sv.reliableSequence + 1
      BY <1>1, <2>1, <2>2, PutServer
    <2> QED
      BY <1>1, <2>3
  <1>4. CASE SV_GameDropClient
    <2>1. sv' = DropClient(sv, "kicked")
      BY <1>4 DEF SV_GameDropClient
    <2>2. sv'.reliableSequence = sv.reliableSequence + 2
      BY <1>1, <1>2, <2>1, DropServer
    <2> QED
      BY <1>1, <2>2
  <1> QED
    BY <1>3, <1>4

LEMMA AddCounts ==
    ASSUME WindowsFit, Inv, CL_AddReliableCommand
    PROVE  /\ cl'.reliableSequence > cl.reliableSequence
           /\ cl'.reliableSequence \in Nat
           /\ UNCHANGED <<sv, svExecuted, clExecuted>>
  <1>1. /\ cl \in ClRecords
        /\ cl.reliableSequence \in Nat /\ cl.reliableAcknowledge \in Nat
        /\ Outstanding(cl) < ClientWindow
        /\ UNCHANGED <<sv, svExecuted, clExecuted>>
    BY Types DEF Inv, Typed, CL_AddReliableCommand
  <1>2. ~ClientIsFull(cl)
    BY <1>1, WindowAssumption, RingAssumption DEF WindowsFit, Outstanding, ClientIsFull
  <1>3. cl' = Put(cl, cl.reliableSequence + 1) /\ cl.reliableSequence + 1 \in Int
    BY <1>1, <1>2 DEF CL_AddReliableCommand
  <1>4. cl'.reliableSequence = cl.reliableSequence + 1
    BY <1>1, <1>3, PutClient
  <1> QED
    BY <1>1, <1>4

LEMMA OtherCounts ==
    ASSUME \/ SV_SendClientSnapshot \/ CL_WritePacket
           \/ LoseToClient \/ LoseToServer \/ UNCHANGED vars
    PROVE  UNCHANGED <<sv, cl, svExecuted, clExecuted>>
  BY DEF SV_SendClientSnapshot, CL_WritePacket, LoseToClient, LoseToServer, vars

\* Every step of the program is a step of the stream of server commands, or none.
LEMMA ToClientStep ==
    ASSUME WindowsFit, Inv, Inv', [Next]_vars
    PROVE  [ToClient!StNext]_<<sv.reliableSequence, clExecuted>>
  <1>1. /\ clExecuted' = [i \in 1..Len(clExecuted') |-> i]
        /\ Len(clExecuted') <= sv'.reliableSequence
    BY DEF Inv, ExecutedInv
  <1>2. CASE SV_SendServerCommand \/ SV_GameDropClient
    BY <1>2, IssueCounts DEF ToClient!StNext, ToClient!Issue
  <1>3. CASE CG_TransitionSnapshot
    <2>1. sv' = sv /\ Len(clExecuted') >= Len(clExecuted)
      BY <1>3, GameCounts
    <2>2. clExecuted \in Seq(Int) /\ clExecuted' \in Seq(Int) /\ sv.reliableSequence \in Nat
      BY Types DEF Inv, Typed
    <2>3. Len(clExecuted') \in Len(clExecuted)..sv.reliableSequence
      BY <1>1, <2>1, <2>2
    <2> QED
      BY <1>1, <2>1, <2>3 DEF ToClient!StNext, ToClient!Execute
  <1>4. CASE CL_AddReliableCommand
    BY <1>4, AddCounts
  <1>5. CASE SV_PacketEvent
    BY <1>5, PacketCounts
  <1>6. CASE CL_PacketEvent
    BY <1>6, MessageCounts
  <1>7. CASE \/ SV_SendClientSnapshot \/ CL_WritePacket
             \/ LoseToClient \/ LoseToServer \/ UNCHANGED vars
    BY <1>7, OtherCounts
  <1> QED
    BY <1>2, <1>3, <1>4, <1>5, <1>6, <1>7 DEF Next

LEMMA ToServerStep ==
    ASSUME WindowsFit, Inv, Inv', [Next]_vars
    PROVE  [ToServer!StNext]_<<cl.reliableSequence, svExecuted>>
  <1>1. /\ svExecuted \in Seq(Int) /\ svExecuted' \in Seq(Int)
        /\ cl.reliableSequence \in Nat
        /\ svExecuted' = [i \in 1..sv'.lastClientCommand |-> i]
        /\ sv'.lastClientCommand \in Nat
        /\ sv'.lastClientCommand <= cl'.reliableSequence
    BY Types, ServerTypes DEF Inv, Typed, ExecutedInv, ClientInv
  <1>2. CASE CL_AddReliableCommand
    BY <1>2, AddCounts DEF ToServer!StNext, ToServer!Issue
  <1>3. CASE SV_PacketEvent
    <2>1. cl' = cl /\ Len(svExecuted') >= Len(svExecuted)
      BY <1>3, PacketCounts
    <2> DEFINE k == sv'.lastClientCommand
    <2>2. Len(svExecuted') = k
      BY <1>1
    <2>3. k \in Len(svExecuted)..cl.reliableSequence
      BY <1>1, <2>1, <2>2
    <2> QED
      BY <1>1, <2>1, <2>3 DEF ToServer!StNext, ToServer!Execute
  <1>4. CASE SV_SendServerCommand \/ SV_GameDropClient
    BY <1>4, IssueCounts
  <1>5. CASE CL_PacketEvent
    BY <1>5, MessageCounts
  <1>6. CASE CG_TransitionSnapshot
    BY <1>6, GameCounts
  <1>7. CASE \/ SV_SendClientSnapshot \/ CL_WritePacket
             \/ LoseToClient \/ LoseToServer \/ UNCHANGED vars
    BY <1>7, OtherCounts
  <1> QED
    BY <1>2, <1>3, <1>4, <1>5, <1>6, <1>7 DEF Next

\* The client game executes the commands of SV_AddServerCommand as a stream: each once, in
\* order, none left out, for rings and numbers of commands of any size.
THEOREM ServerStream == WindowsFit => (Spec => ServerCommandsAreAStream)
  <1> SUFFICES ASSUME WindowsFit PROVE Spec => ServerCommandsAreAStream
    OBVIOUS
  <1>1. Init => ToClient!StInit
    BY DEF Init, ToClient!StInit
  <1>2. Inv /\ Inv' /\ [Next]_vars => [ToClient!StNext]_<<sv.reliableSequence, clExecuted>>
    BY ToClientStep
  <1> QED
    BY <1>1, <1>2, Invariance, PTL DEF Spec, ServerCommandsAreAStream, ToClient!StSpec

\* The server executes the commands of CL_AddReliableCommand as a stream.
THEOREM ClientStream == WindowsFit => (Spec => ClientCommandsAreAStream)
  <1> SUFFICES ASSUME WindowsFit PROVE Spec => ClientCommandsAreAStream
    OBVIOUS
  <1>1. Init => ToServer!StInit
    BY DEF Init, ToServer!StInit
  <1>2. Inv /\ Inv' /\ [Next]_vars => [ToServer!StNext]_<<cl.reliableSequence, svExecuted>>
    BY ToServerStep
  <1> QED
    BY <1>1, <1>2, Invariance, PTL DEF Spec, ClientCommandsAreAStream, ToServer!StSpec

-----------------------------------------------------------------------------
(* A ring that is full: how often the game is told, for windows of any     *)
(* size.  Without WindowsFit the invariant above is lost, and this one     *)
(* takes its place: it only follows what of the server's side leads to a   *)
(* drop.                                                                   *)

\* The fields the code updates, whatever their values.
SvWith(state, reason, disconnects, sequence, acknowledge, commands, command, string) ==
    [state : {state}, reason : {reason}, disconnects : {disconnects},
     reliableSequence : {sequence}, reliableAcknowledge : {acknowledge},
     reliableCommands : {commands}, lastClientCommand : {command},
     lastClientCommandString : {string}]

SvShape(s) ==
    s \in SvWith(s.state, s.reason, s.disconnects, s.reliableSequence, s.reliableAcknowledge,
                 s.reliableCommands, s.lastClientCommand, s.lastClientCommandString)

ClShape(c) ==
    c \in [state : {c.state}, error : {c.error}, reliableSequence : {c.reliableSequence},
           reliableAcknowledge : {c.reliableAcknowledge},
           reliableCommands : {c.reliableCommands},
           serverCommandSequence : {c.serverCommandSequence},
           serverCommands : {c.serverCommands},
           lastExecuted : {c.lastExecuted}, snap : {c.snap}]

\* A client that plays has at most a full ring outstanding.  One that was dropped got
\* two commands more, three if the drop was for an overflow, and four if both came
\* together: SV_DropClient, called with the ring exactly full, overflows it by its own
\* broadcast, and is gone through a second time inside the first.
Told(s) ==
    /\ s.state = "active" => /\ Outstanding(s) <= MAX_RELIABLE_COMMANDS
                             /\ s.disconnects = 0 /\ s.reason = "none"
    /\ s.state = "zombie" =>
          s.disconnects = IF Outstanding(s) = MAX_RELIABLE_COMMANDS + 4 THEN 2 ELSE 1
    /\ s.reason = "overflow" => s.disconnects = 1

ServerTold(s) ==
    /\ SvShape(s) /\ s.state \in {"active", "zombie"}
    /\ s.reliableSequence \in Int /\ s.reliableAcknowledge \in Int
    /\ Told(s)

\* Messages whose acknowledgement is a number; messages that repeat the commands between
\* two numbers.
Acknowledging(q) == \E S : q \in Seq(S) /\ \A m \in S : m.acknowledge \in Int
Repeating(q) == \E S : q \in Seq(S) /\ \A m \in S : \E a, b \in Int : DOMAIN m.commands = a..b

ToldInv ==
    /\ ServerTold(sv)
    /\ ClShape(cl) /\ cl.serverCommandSequence \in Int
    /\ Acknowledging(toServer) /\ Repeating(toClient)

\* The server's side t is s with k commands more, state, reason and number of calls of
\* the game as given.
Becomes(s, t, state, reason, disconnects, k) ==
    /\ SvShape(t)
    /\ t.state = state /\ t.reason = reason /\ t.disconnects = disconnects
    /\ t.reliableSequence = s.reliableSequence + k
    /\ t.reliableAcknowledge = s.reliableAcknowledge

LEMMA PutBecomes ==
    ASSUME NEW s, SvShape(s), NEW text
    PROVE  Becomes(s, Put(s, text), s.state, s.reason, s.disconnects, 1)
  <1> DEFINE t == Put(s, text)
             n == s.reliableSequence + 1
             ring == [s.reliableCommands EXCEPT ![Slot(n)] = text]
  <1>1. t = [s EXCEPT !.reliableSequence = n, !.reliableCommands = ring]
    BY DEF Put, SvShape, SvWith
  <1> HIDE DEF t, n, ring
  <1>2. t \in SvWith(s.state, s.reason, s.disconnects, n, s.reliableAcknowledge,
                     ring, s.lastClientCommand, s.lastClientCommandString)
    BY <1>1 DEF SvShape, SvWith
  <1>3. SvShape(t)
    BY <1>2 DEF SvShape, SvWith
  <1>4. Becomes(s, t, s.state, s.reason, s.disconnects, 1)
    BY <1>2, <1>3 DEF SvWith, Becomes, n
  <1> QED
    BY <1>4 DEF t

\* Whether the disconnect is stored or not, it is numbered.
LEMMA BuryBecomes ==
    ASSUME NEW s, SvShape(s), NEW reason
    PROVE  Becomes(s, Bury(s, reason), "zombie", reason, s.disconnects + 1, 1)
  <1> DEFINE z == [s EXCEPT !.state = "zombie", !.reason = reason, !.disconnects = @ + 1]
             numbered == [z EXCEPT !.reliableSequence = @ + 1]
  <1>1. /\ SvShape(z) /\ z.state = "zombie" /\ z.reason = reason
        /\ z.disconnects = s.disconnects + 1
        /\ z.reliableSequence = s.reliableSequence
        /\ z.reliableAcknowledge = s.reliableAcknowledge
    <2> DEFINE d == s.disconnects + 1
    <2>1. z \in SvWith("zombie", reason, d, s.reliableSequence, s.reliableAcknowledge,
                       s.reliableCommands, s.lastClientCommand, s.lastClientCommandString)
      BY DEF SvShape, SvWith
    <2> HIDE DEF z, d
    <2>2. SvShape(z)
      BY <2>1 DEF SvShape, SvWith
    <2> QED
      BY <2>1, <2>2 DEF SvWith, d
  <1>2. Bury(s, reason) \in {numbered, Put(z, Disconnect)}
    BY DEF Bury
  <1> HIDE DEF z
  <1>3. Becomes(z, numbered, z.state, z.reason, z.disconnects, 1)
    BY <1>1 DEF SvShape, SvWith, Becomes
  <1>4. Becomes(z, Put(z, Disconnect), z.state, z.reason, z.disconnects, 1)
    BY <1>1, PutBecomes
  <1> QED
    BY <1>1, <1>2, <1>3, <1>4 DEF Becomes

\* A ring with room, and one that is full, which gets three commands.
LEMMA AddBecomes ==
    ASSUME NEW s, SvShape(s), s.state = "active", s.disconnects = 0,
           s.reliableSequence \in Int, s.reliableAcknowledge \in Int
    PROVE  /\ Outstanding(s) # MAX_RELIABLE_COMMANDS =>
                Becomes(s, AddServerCommand(s), "active", s.reason, 0, 1)
           /\ Outstanding(s) = MAX_RELIABLE_COMMANDS =>
                Becomes(s, AddServerCommand(s), "zombie", "overflow", 1, 3)
  <1> DEFINE o == [s EXCEPT !.reliableSequence = @ + 1]
             p == Put(o, o.reliableSequence + 1)
             q == Bury(p, "overflow")
  <1>1. Becomes(s, Put(s, s.reliableSequence + 1), "active", s.reason, 0, 1)
    BY PutBecomes
  <1>2. Becomes(s, o, "active", s.reason, 0, 1)
    BY DEF SvShape, SvWith, Becomes
  <1>3. AddServerCommand(s) = IF Outstanding(s) = MAX_RELIABLE_COMMANDS
                              THEN q ELSE Put(s, s.reliableSequence + 1)
    BY <1>2 DEF AddServerCommand, DropForOverflow, Becomes
  <1> HIDE DEF o
  <1>4. Becomes(o, p, "active", s.reason, 0, 1)
    BY <1>2, PutBecomes DEF Becomes
  <1> HIDE DEF p
  <1>5. Becomes(p, q, "zombie", "overflow", p.disconnects + 1, 1)
    BY <1>4, BuryBecomes DEF Becomes
  <1>6. Becomes(s, q, "zombie", "overflow", 1, 3)
    <2>1. /\ q.reliableSequence = p.reliableSequence + 1
          /\ p.reliableSequence = o.reliableSequence + 1
          /\ o.reliableSequence = s.reliableSequence + 1
          /\ q.disconnects = p.disconnects + 1 /\ p.disconnects = 0
          /\ q.reliableAcknowledge = s.reliableAcknowledge
      BY <1>2, <1>4, <1>5 DEF Becomes
    <2> HIDE DEF q
    <2>2. q.reliableSequence = s.reliableSequence + 3 /\ q.disconnects = 1
      BY <2>1
    <2> QED
      BY <1>5, <2>1, <2>2 DEF Becomes
  <1> QED
    BY <1>1, <1>3, <1>6

LEMMA AddTold ==
    ASSUME NEW s, ServerTold(s), s.state = "active"
    PROVE  ServerTold(AddServerCommand(s))
  <1> DEFINE t == AddServerCommand(s)
  <1>1. /\ SvShape(s) /\ s.disconnects = 0 /\ s.reason = "none"
        /\ s.reliableSequence \in Int /\ s.reliableAcknowledge \in Int
        /\ Outstanding(s) <= MAX_RELIABLE_COMMANDS
    BY DEF ServerTold, Told
  <1>2. /\ Outstanding(s) # MAX_RELIABLE_COMMANDS => Becomes(s, t, "active", "none", 0, 1)
        /\ Outstanding(s) = MAX_RELIABLE_COMMANDS => Becomes(s, t, "zombie", "overflow", 1, 3)
    BY <1>1, AddBecomes
  <1> HIDE DEF t
  <1>3. ASSUME Outstanding(s) # MAX_RELIABLE_COMMANDS PROVE ServerTold(t)
    <2>1. /\ t.reliableSequence \in Int /\ t.reliableAcknowledge \in Int
          /\ Outstanding(t) <= MAX_RELIABLE_COMMANDS
      BY <1>1, <1>2, <1>3, RingAssumption DEF Becomes, Outstanding
    <2> QED
      BY <1>1, <1>2, <1>3, <2>1 DEF Becomes, ServerTold, Told
  <1>4. ASSUME Outstanding(s) = MAX_RELIABLE_COMMANDS PROVE ServerTold(t)
    <2>1. /\ t.reliableSequence \in Int /\ t.reliableAcknowledge \in Int
          /\ Outstanding(t) # MAX_RELIABLE_COMMANDS + 4
      BY <1>1, <1>2, <1>4, RingAssumption DEF Becomes, Outstanding
    <2> QED
      BY <1>1, <1>2, <1>4, <2>1 DEF Becomes, ServerTold, Told
  <1> QED
    BY <1>3, <1>4 DEF t

\* The broadcast, then the rest.
LEMMA DropTold ==
    ASSUME NEW s, ServerTold(s), s.state = "active", NEW reason, reason # "overflow"
    PROVE  ServerTold(DropClient(s, reason))
  <1> DEFINE t == AddServerCommand(s)
             u == Bury(t, reason)
             d == IF Outstanding(s) = MAX_RELIABLE_COMMANDS THEN 1 ELSE 0
             k == IF Outstanding(s) = MAX_RELIABLE_COMMANDS THEN 3 ELSE 1
  <1>1. /\ SvShape(s) /\ s.disconnects = 0
        /\ s.reliableSequence \in Int /\ s.reliableAcknowledge \in Int
        /\ Outstanding(s) <= MAX_RELIABLE_COMMANDS
    BY DEF ServerTold, Told
  <1>2. /\ SvShape(t) /\ t.disconnects = d
        /\ t.reliableSequence = s.reliableSequence + k
        /\ t.reliableAcknowledge = s.reliableAcknowledge
    BY <1>1, AddBecomes DEF Becomes
  <1>3. DropClient(s, reason) = u
    BY DEF DropClient
  <1> HIDE DEF t
  <1>4. Becomes(t, u, "zombie", reason, t.disconnects + 1, 1)
    BY <1>2, BuryBecomes
  <1> HIDE DEF u
  <1>5. /\ u.reliableSequence \in Int /\ u.reliableAcknowledge \in Int
        /\ u.disconnects = d + 1
        /\ Outstanding(u) = Outstanding(s) + k + 1
    BY <1>1, <1>2, <1>4 DEF Becomes, Outstanding
  <1>6. u.disconnects = IF Outstanding(u) = MAX_RELIABLE_COMMANDS + 4 THEN 2 ELSE 1
    <2>1. Outstanding(s) \in Int
      BY <1>1 DEF Outstanding
    <2> QED
      BY <1>1, <1>5, <2>1, RingAssumption
  <1> QED
    BY <1>3, <1>4, <1>5, <1>6 DEF Becomes, ServerTold, Told

\* An acknowledgement leaves no more than a full ring outstanding.
LEMMA AcknowledgeTold ==
    ASSUME NEW s, ServerTold(s), s.state = "active", NEW ack \in Int
    PROVE  ServerTold(Acknowledge(s, ack)) /\ Acknowledge(s, ack).state = "active"
  <1> DEFINE t == Acknowledge(s, ack)
             a == IF OutOfRange(s, ack) THEN s.reliableSequence ELSE ack
  <1>1. /\ SvShape(s) /\ s.disconnects = 0 /\ s.reason = "none"
        /\ s.reliableSequence \in Int
    BY DEF ServerTold, Told
  <1>2. /\ SvShape(t) /\ t.state = "active" /\ t.disconnects = 0 /\ t.reason = "none"
        /\ t.reliableSequence = s.reliableSequence /\ t.reliableAcknowledge = a
    BY <1>1 DEF SvShape, SvWith, Acknowledge
  <1>3. a \in Int /\ s.reliableSequence - a <= MAX_RELIABLE_COMMANDS
    BY <1>1, RingAssumption DEF OutOfRange
  <1> HIDE DEF t, a
  <1>4. Outstanding(t) <= MAX_RELIABLE_COMMANDS
    BY <1>2, <1>3 DEF Outstanding
  <1>5. ServerTold(t) /\ t.state = "active"
    BY <1>1, <1>2, <1>3, <1>4 DEF ServerTold, Told
  <1> QED
    BY <1>5 DEF t

LEMMA ServerReceivesTold ==
    ASSUME ToldInv, SV_PacketEvent
    PROVE  ServerTold(sv')
  <1>1. CASE sv.state = "zombie"
    BY <1>1 DEF SV_PacketEvent, ToldInv
  <1>2. CASE sv.state = "active"
    <2> DEFINE m == Head(toServer)
               t == Acknowledge(sv, m.acknowledge)
    <2>1. PICK S : toServer \in Seq(S) /\ \A p \in S : p.acknowledge \in Int
      BY DEF ToldInv, Acknowledging
    <2>2. toServer # <<>> /\ m \in S
      BY <2>1 DEF SV_PacketEvent
    <2>3. m.acknowledge \in Int
      BY <2>1, <2>2
    <2>4. \/ ExecuteClientMessage(m) \/ RefuseClientMessage(m)
          \/ ExecuteGarbledClientMessage(m)
      BY <1>2 DEF SV_PacketEvent
    <2> HIDE DEF m
    <2>5. ServerTold(t) /\ t.state = "active"
      BY <1>2, <2>3, AcknowledgeTold DEF ToldInv
    <2>6. /\ ServerTold(DropClient(t, "illegible"))
          /\ ServerTold(DropClient(t, "lost commands"))
      BY <2>5, DropTold
    <2>7. \A a, b : ServerTold([t EXCEPT !.lastClientCommand = a,
                                         !.lastClientCommandString = b])
      <3> TAKE a, b
      <3> DEFINE u == [t EXCEPT !.lastClientCommand = a, !.lastClientCommandString = b]
      <3>1. SvShape(t)
        BY <2>5 DEF ServerTold
      <3> HIDE DEF t
      <3>2. /\ SvShape(u) /\ u.state = t.state /\ u.reason = t.reason
            /\ u.disconnects = t.disconnects
            /\ u.reliableSequence = t.reliableSequence
            /\ u.reliableAcknowledge = t.reliableAcknowledge
        <4>1. u \in SvWith(t.state, t.reason, t.disconnects, t.reliableSequence,
                           t.reliableAcknowledge, t.reliableCommands, a, b)
          BY <3>1 DEF SvShape, SvWith
        <4> HIDE DEF u
        <4>2. SvShape(u)
          BY <4>1 DEF SvShape, SvWith
        <4> QED
          BY <4>1, <4>2 DEF SvWith
      <3> HIDE DEF u
      <3>3. ServerTold(u)
        BY <2>5, <3>2 DEF ServerTold, Told, Outstanding
      <3> QED
        BY <3>3 DEF u
    <2>8. CASE ExecuteClientMessage(m)
      BY <2>5, <2>7, <2>8 DEF ExecuteClientMessage
    <2>9. CASE RefuseClientMessage(m)
      BY <2>5, <2>6, <2>9 DEF RefuseClientMessage
    <2>10. CASE ExecuteGarbledClientMessage(m)
      BY <2>5, <2>6, <2>10 DEF ExecuteGarbledClientMessage
    <2> QED
      BY <2>4, <2>8, <2>9, <2>10
  <1> QED
    BY <1>1, <1>2 DEF ToldInv, ServerTold

LEMMA ServerActsTold ==
    /\ ToldInv /\ SV_SendServerCommand => ServerTold(sv')
    /\ ToldInv /\ SV_GameDropClient => ServerTold(sv')
  <1>1. ASSUME ToldInv, SV_SendServerCommand PROVE ServerTold(sv')
    <2>1. ServerTold(sv) /\ sv.state = "active" /\ sv' = AddServerCommand(sv)
      BY <1>1 DEF ToldInv, SV_SendServerCommand
    <2> QED
      BY <2>1, AddTold
  <1>2. ASSUME ToldInv, SV_GameDropClient PROVE ServerTold(sv')
    <2>1. ServerTold(sv) /\ sv.state = "active" /\ sv' = DropClient(sv, "kicked")
      BY <1>2 DEF ToldInv, SV_GameDropClient
    <2> QED
      BY <2>1, DropTold
  <1> QED
    BY <1>1, <1>2

\* Messages are added to those under way and taken from them.
LEMMA QueueTold ==
    ASSUME NEW q
    PROVE  /\ Acknowledging(q) =>
                /\ \A m : m.acknowledge \in Int => Acknowledging(Append(q, m))
                /\ q # <<>> => Acknowledging(Tail(q))
           /\ Repeating(q) =>
                /\ \A m : (\E a, b \in Int : DOMAIN m.commands = a..b) =>
                             Repeating(Append(q, m))
                /\ q # <<>> => Repeating(Tail(q))
  <1>1. ASSUME Acknowledging(q), NEW m, m.acknowledge \in Int
        PROVE  Acknowledging(Append(q, m))
    <2>1. PICK S : q \in Seq(S) /\ \A p \in S : p.acknowledge \in Int
      BY <1>1 DEF Acknowledging
    <2> DEFINE T == S \cup {m}
    <2>2. Append(q, m) \in Seq(T)
      BY <2>1
    <2>3. \A p \in T : p.acknowledge \in Int
      BY <1>1, <2>1
    <2> QED
      BY <2>2, <2>3 DEF Acknowledging
  <1>2. ASSUME Acknowledging(q), q # <<>> PROVE Acknowledging(Tail(q))
    <2>1. PICK S : q \in Seq(S) /\ \A p \in S : p.acknowledge \in Int
      BY <1>2 DEF Acknowledging
    <2>2. Tail(q) \in Seq(S)
      BY <1>2, <2>1
    <2> QED
      BY <2>1, <2>2 DEF Acknowledging
  <1>3. ASSUME Repeating(q), NEW m, \E a, b \in Int : DOMAIN m.commands = a..b
        PROVE  Repeating(Append(q, m))
    <2>1. PICK S : q \in Seq(S) /\ \A p \in S : \E a, b \in Int : DOMAIN p.commands = a..b
      BY <1>3 DEF Repeating
    <2> DEFINE T == S \cup {m}
    <2>2. Append(q, m) \in Seq(T)
      BY <2>1
    <2>3. \A p \in T : \E a, b \in Int : DOMAIN p.commands = a..b
      BY <1>3, <2>1
    <2> QED
      BY <2>2, <2>3 DEF Repeating
  <1>4. ASSUME Repeating(q), q # <<>> PROVE Repeating(Tail(q))
    <2>1. PICK S : q \in Seq(S) /\ \A p \in S : \E a, b \in Int : DOMAIN p.commands = a..b
      BY <1>4 DEF Repeating
    <2>2. Tail(q) \in Seq(S)
      BY <1>4, <2>1
    <2> QED
      BY <2>1, <2>2 DEF Repeating
  <1> QED
    BY <1>1, <1>2, <1>3, <1>4

\* The client's side as far as an acknowledgement of its depends on it.
ClientTold(c) == ClShape(c) /\ c.serverCommandSequence \in Int

LEMMA ClientErrs ==
    ASSUME NEW c, ClientTold(c)
    PROVE  /\ \A e : ClientTold(ClientError(c, e))
           /\ \A a : ClientTold(Acknowledge(c, a))
           /\ \A m : ClientTold(ParseSnapshot(c, m))
           /\ \A t : ClientTold(Put(c, t))
           /\ \A n, s : ClientTold([c EXCEPT !.lastExecuted = n, !.snap = s])
  <1>1. \A e : ClientTold(ClientError(c, e))
    BY DEF ClientTold, ClShape, ClientError
  <1>2. \A a : ClientTold(Acknowledge(c, a))
    BY DEF ClientTold, ClShape, Acknowledge
  <1>3. \A m : ClientTold(ParseSnapshot(c, m))
    BY DEF ClientTold, ClShape, ParseSnapshot
  <1>4. \A t : ClientTold(Put(c, t))
    BY DEF ClientTold, ClShape, Put
  <1>5. \A n, s : ClientTold([c EXCEPT !.lastExecuted = n, !.snap = s])
    BY DEF ClientTold, ClShape
  <1> QED
    BY <1>1, <1>2, <1>3, <1>4, <1>5

LEMMA ClientReceivesTold ==
    ASSUME ToldInv, CL_PacketEvent
    PROVE  ClientTold(cl')
  <1> DEFINE m == Head(toClient)
  <1>1. ClientTold(cl)
    BY DEF ToldInv, ClientTold
  <1>2. PICK a \in Int, b \in Int : DOMAIN m.commands = a..b
    <2>1. PICK S : toClient \in Seq(S) /\ \A p \in S : \E a, b \in Int : DOMAIN p.commands = a..b
      BY DEF ToldInv, Repeating
    <2>2. toClient # <<>> /\ m \in S
      BY <2>1 DEF CL_PacketEvent
    <2> QED
      BY <2>1, <2>2
  <1>3. \/ UNCHANGED cl \/ ParseServerMessage(m) \/ ParseGarbledServerMessage(m)
    BY DEF CL_PacketEvent
  <1> HIDE DEF m
  <1>4. ClientTold(ParseCommandStrings(m))
    <2> DEFINE new == NewToClient(m)
               k == cl.serverCommandSequence
               n == IF new = {} THEN k ELSE Newest(new)
               ring == ParseCommandStrings(m).serverCommands
    <2>1. n \in Int
      <3>1. k \in Int /\ new = {i \in a..b : i > k}
        BY <1>1, <1>2 DEF ClientTold, NewToClient
      <3>2. CASE new # {}
        <4> HIDE DEF k
        <4>1. b \in new /\ \A i \in new : i \in Int /\ i <= b
          BY <3>1, <3>2
        <4> QED
          BY <3>2, <4>1 DEF Newest
      <3> QED
        BY <3>1, <3>2
    <2>2. ParseCommandStrings(m) \in
             [state : {cl.state}, error : {cl.error}, reliableSequence : {cl.reliableSequence},
              reliableAcknowledge : {cl.reliableAcknowledge},
              reliableCommands : {cl.reliableCommands},
              serverCommandSequence : {n}, serverCommands : {ring},
              lastExecuted : {cl.lastExecuted}, snap : {cl.snap}]
      BY <1>1 DEF ClientTold, ClShape, ParseCommandStrings
    <2> HIDE DEF n, ring
    <2> QED
      BY <2>1, <2>2 DEF ClientTold, ClShape
  <1>5. CASE ParseServerMessage(m)
    <2>1. cl' = Acknowledge(ParseSnapshot(ParseCommandStrings(m), m), m.acknowledge)
      BY <1>5 DEF ParseServerMessage
    <2> QED
      BY <1>4, <2>1, ClientErrs
  <1>6. CASE ParseGarbledServerMessage(m)
    <2>1. \/ cl' = Acknowledge(cl, m.acknowledge)
          \/ cl' = ClientError(Acknowledge(cl, m.acknowledge), "illegible")
      BY <1>6 DEF ParseGarbledServerMessage
    <2> QED
      BY <1>1, <2>1, ClientErrs
  <1> QED
    BY <1>1, <1>3, <1>5, <1>6

LEMMA GameExecutesTold ==
    ASSUME ToldInv, CG_TransitionSnapshot
    PROVE  ClientTold(cl')
  <1> DEFINE n == cl.snap.serverCommandNum
             none == <<>>
  <1>1. ClientTold(cl)
    BY DEF ToldInv, ClientTold
  <1>2. \/ cl' = ClientError(cl, "cycled out")
        \/ cl' = [cl EXCEPT !.lastExecuted = n, !.snap = none]
        \/ cl' = ClientError(cl, "disconnect")
    BY DEF CG_TransitionSnapshot
  <1> HIDE DEF n, none
  <1>3. ClientTold([cl EXCEPT !.lastExecuted = n, !.snap = none])
    BY <1>1, ClientErrs
  <1>4. ClientTold(ClientError(cl, "cycled out")) /\ ClientTold(ClientError(cl, "disconnect"))
    BY <1>1, ClientErrs
  <1> QED
    BY <1>2, <1>3, <1>4, Zenon

LEMMA InitTold == Init => ToldInv
  <1> SUFFICES ASSUME Init PROVE ToldInv
    OBVIOUS
  <1>1. /\ SvShape(sv) /\ sv.state = "active" /\ sv.reason = "none" /\ sv.disconnects = 0
        /\ sv.reliableSequence = 0 /\ sv.reliableAcknowledge = 0
    BY DEF Init, SvShape, SvWith
  <1>2. ServerTold(sv)
    BY <1>1, RingAssumption DEF ServerTold, Told, Outstanding
  <1>3. ClShape(cl) /\ cl.serverCommandSequence = 0
    BY DEF Init, ClShape
  <1>4. Acknowledging(toServer) /\ Repeating(toClient)
    <2>1. toServer \in Seq({}) /\ toClient \in Seq({})
      BY DEF Init
    <2> QED
      BY <2>1 DEF Acknowledging, Repeating
  <1> QED
    BY <1>2, <1>3, <1>4 DEF ToldInv

LEMMA ToldInductive == ToldInv /\ [Next]_vars => ToldInv'
  <1> SUFFICES ASSUME ToldInv, [Next]_vars
               PROVE  /\ ServerTold(sv') /\ ClientTold(cl')
                      /\ Acknowledging(toServer') /\ Repeating(toClient')
    BY DEF ToldInv, ServerTold, Told, SvShape, SvWith, ClientTold, ClShape, Outstanding,
           Acknowledging, Repeating
  <1>1. /\ ServerTold(sv) /\ ClientTold(cl)
        /\ Acknowledging(toServer) /\ Repeating(toClient)
    BY DEF ToldInv, ClientTold
  <1>2. CASE SV_SendServerCommand \/ SV_GameDropClient
    BY <1>1, <1>2, ServerActsTold DEF SV_SendServerCommand, SV_GameDropClient
  <1>3. CASE SV_SendClientSnapshot
    <2> DEFINE m == [acknowledge |-> sv.lastClientCommand,
                     key |-> sv.lastClientCommandString,
                     commands |-> Unacknowledged(sv), stamp |-> sv.reliableSequence]
    <2>1. DOMAIN m.commands = (sv.reliableAcknowledge + 1)..sv.reliableSequence
      BY DEF Unacknowledged
    <2>2. /\ sv.reliableAcknowledge + 1 \in Int /\ sv.reliableSequence \in Int
      BY <1>1 DEF ServerTold
    <2>3. toClient' = Append(toClient, m) /\ UNCHANGED <<sv, cl, toServer>>
      BY <1>3 DEF SV_SendClientSnapshot
    <2> HIDE DEF m
    <2>4. Repeating(Append(toClient, m))
      BY <1>1, <2>1, <2>2, QueueTold
    <2> QED
      BY <1>1, <2>3, <2>4
  <1>4. CASE CL_AddReliableCommand
    <2>1. /\ \/ cl' = ClientError(cl, "overflow")
             \/ cl' = Put(cl, cl.reliableSequence + 1)
          /\ UNCHANGED <<sv, toClient, toServer>>
      BY <1>4 DEF CL_AddReliableCommand
    <2> QED
      BY <1>1, <2>1, ClientErrs
  <1>5. CASE CL_WritePacket
    <2> DEFINE m == [acknowledge |-> cl.serverCommandSequence, key |-> ClientKey,
                     commands |-> Unacknowledged(cl), stamp |-> cl.reliableSequence]
    <2>1. m.acknowledge \in Int
      BY <1>1 DEF ClientTold
    <2>2. toServer' = Append(toServer, m) /\ UNCHANGED <<sv, cl, toClient>>
      BY <1>5 DEF CL_WritePacket
    <2> HIDE DEF m
    <2>3. Acknowledging(Append(toServer, m))
      BY <1>1, <2>1, QueueTold
    <2> QED
      BY <1>1, <2>2, <2>3
  <1>6. CASE SV_PacketEvent
    <2>1. toServer # <<>> /\ toServer' = Tail(toServer) /\ UNCHANGED <<cl, toClient>>
      BY <1>6 DEF SV_PacketEvent
    <2> QED
      BY <1>1, <1>6, <2>1, QueueTold, ServerReceivesTold
  <1>7. CASE CL_PacketEvent
    <2>1. toClient # <<>> /\ toClient' = Tail(toClient) /\ UNCHANGED <<sv, toServer>>
      BY <1>7 DEF CL_PacketEvent
    <2> QED
      BY <1>1, <1>7, <2>1, QueueTold, ClientReceivesTold
  <1>8. CASE CG_TransitionSnapshot
    <2>1. UNCHANGED <<sv, toClient, toServer>>
      BY <1>8 DEF CG_TransitionSnapshot
    <2> QED
      BY <1>1, <1>8, <2>1, GameExecutesTold
  <1>9. CASE LoseToClient
    BY <1>1, <1>9, QueueTold DEF LoseToClient
  <1>10. CASE LoseToServer
    BY <1>1, <1>10, QueueTold DEF LoseToServer
  <1>11. CASE UNCHANGED vars
    BY <1>1, <1>11 DEF vars
  <1> QED
    BY <1>2, <1>3, <1>4, <1>5, <1>6, <1>7, <1>8, <1>9, <1>10, <1>11 DEF Next

\* How often the game was told of the client's going, whatever was outstanding: once,
\* unless four commands were numbered past a full ring.
ToldOnceUnlessFull ==
    /\ sv.state = "active" => sv.disconnects = 0
    /\ sv.state = "zombie" =>
          sv.disconnects = IF Outstanding(sv) = MAX_RELIABLE_COMMANDS + 4 THEN 2 ELSE 1
    /\ sv.reason = "overflow" => sv.disconnects = 1

\* For windows of any size, past the ring's too: a client dropped for an overflow is
\* dropped once, its own broadcast overflowing nothing, as the comment in
\* SV_AddServerCommand has it; one dropped for another cause is too, unless the ring was
\* exactly full, when the broadcast is the overflow and SV_DropClient tells the game twice.
THEOREM GameIsToldOnce == Spec => []ToldOnceUnlessFull
  <1>1. ToldInv => ToldOnceUnlessFull
    BY DEF ToldInv, ServerTold, Told, ToldOnceUnlessFull
  <1> QED
    BY <1>1, InitTold, ToldInductive, PTL DEF Spec

=============================================================================
