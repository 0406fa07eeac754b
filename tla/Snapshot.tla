------------------------------ MODULE Snapshot ------------------------------
(***************************************************************************)
(* Snapshots from the server to one client, each sent as its difference    *)
(* from an earlier one that the client says it has: the server's ring of   *)
(* frames and its ring of entities, which all clients share                *)
(* (server/sv_snapshot.c, SV_UserMove), and the client's two rings         *)
(* (client/cl_parse.c, client/cl_cgame.c).                                 *)
(*                                                                         *)
(* Messages travel as LossyChannel promises: in order, any may be lost.    *)
(*                                                                         *)
(* An entity has a number and a value that stands for all its fields.  A   *)
(* difference says which value it starts from: read against another value  *)
(* it gives Garbled.                                                       *)
(***************************************************************************)
EXTENDS Integers, Sequences, FiniteSets

CONSTANTS
    PACKET_BACKUP,         \* frames kept at either end
    MAX_PARSE_ENTITIES,    \* entities kept at the client
    PARSE_MARGIN,          \* 128 in the source
    NumSnapshotEntities,   \* entities the server keeps, for all clients
    Scenes,                \* what the client may see in its n-th message
    OtherSizes,            \* how many entities a frame of another client has
    MAX_ENTITIES_IN_SNAPSHOT, \* entities of a snapshot the client game takes
    FRAGMENT_SIZE,         \* entities in a message that takes several packets
    MaxMessages,           \* bound: messages to the client
    MaxEntities,           \* bound: entities the server puts in its ring
    MaxInFlight            \* bound: messages under way in each direction

ASSUME RingAssumption ==
    /\ PACKET_BACKUP \in Nat /\ PACKET_BACKUP > 3
    /\ MAX_PARSE_ENTITIES \in Nat \ {0} /\ PARSE_MARGIN \in 1..MAX_PARSE_ENTITIES
    /\ NumSnapshotEntities \in Nat \ {0} /\ FRAGMENT_SIZE \in Nat \ {0}

ASSUME CutAssumption == MAX_ENTITIES_IN_SNAPSHOT \in Nat

ASSUME BoundAssumption ==
    /\ MaxMessages \in Nat /\ MaxEntities \in Nat /\ MaxInFlight \in Nat
    /\ OtherSizes \subseteq Nat

\* Larger than the number of any entity: MAX_GENTITIES.
End == 1000

\* A scene gives some numbers a value.  The server's ring has room for it: it has
\* 2048 slots a client on a dedicated server, 256 on another.
ASSUME SceneAssumption ==
    \A i \in 1..MaxMessages : \A s \in Scenes[i] :
        /\ DOMAIN s \subseteq 1..(End - 1)
        /\ \A n \in DOMAIN s : s[n] \in Nat \ {0}
        /\ Cardinality(DOMAIN s) <= NumSnapshotEntities

VARIABLES
    sv,                    \* the server's side: client_t
    ring,                  \* svs.snapshotEntities
    nextSnapshotEntities,
    cl,                    \* the client's side: clientActive_t
    parseEntities,         \* cl.parseEntities
    toClient, toServer     \* messages under way, oldest first

vars == <<sv, ring, nextSnapshotEntities, cl, parseEntities, toClient, toServer>>

-----------------------------------------------------------------------------
Baseline == 0              \* the value an entity has in the gamestate
Garbled  == -1
Foreign  == -2             \* the value of an entity in another client's frame
Gone     == -3             \* in a difference: no longer seen

\* What a field with this value becomes when the difference d is applied.
Apply(d, value) == IF d.to = Gone \/ d.from = value THEN d.to ELSE Garbled

NoEntity == [number |-> 0, value |-> Baseline]

EntitySlot(i) == i % NumSnapshotEntities
ParseSlot(i)  == i % MAX_PARSE_ENTITIES
FrameSlot(n)  == n % PACKET_BACKUP

EmptyFrame == [ps |-> Baseline, first |-> 0, num |-> 0, parseEntities |-> FALSE]

NoSnap == [valid |-> FALSE, messageNum |-> 0, parseEntitiesNum |-> 0,
           numEntities |-> 0, ps |-> Baseline, crowded |-> FALSE,
           truth |-> [ps |-> Baseline, entities |-> {}]]

Init ==
    /\ sv = [state |-> "primed", outgoingSequence |-> 1, deltaMessage |-> -1,
             parseEntitiesNum |-> 0, unsent |-> <<>>,
             frames |-> [i \in 0..(PACKET_BACKUP - 1) |-> EmptyFrame]]
    /\ ring = [i \in 0..(NumSnapshotEntities - 1) |-> NoEntity]
    /\ nextSnapshotEntities = 0
    /\ cl = [serverMessageSequence |-> 0, parseEntitiesNum |-> 0, snap |-> NoSnap,
             snapshots |-> [i \in 0..(PACKET_BACKUP - 1) |-> NoSnap],
             refused |-> "no"]
    /\ parseEntities = [i \in 0..(MAX_PARSE_ENTITIES - 1) |-> NoEntity]
    /\ toClient = <<>> /\ toServer = <<>>

-----------------------------------------------------------------------------
(* The server builds a frame: SV_BuildClientSnapshot.                      *)

\* Where the entity with number n of a scene goes: they are sorted by number.
Place(scene, n) == nextSnapshotEntities + Cardinality({k \in DOMAIN scene : k < n})

\* The shared ring once a scene has been copied out to it.
CopyOut(scene) ==
    [i \in DOMAIN ring |->
        LET ns == {n \in DOMAIN scene : EntitySlot(Place(scene, n)) = i}
        IN  IF ns = {} THEN ring[i]
            ELSE LET n == CHOOSE n \in ns : \A k \in ns : k <= n
                 IN  [number |-> n, value |-> scene[n]]]

\* A zombie's frame has no entities and whatever playerstate was there last.
BuildFrame(old, scene) ==
    IF sv.state = "zombie" THEN [old EXCEPT !.num = 0]
    ELSE [old EXCEPT !.ps = sv.outgoingSequence,
                     !.first = nextSnapshotEntities,
                     !.num = Cardinality(DOMAIN scene)]

-----------------------------------------------------------------------------
(* The server writes it: SV_WriteSnapshotToClient.                         *)

\* The client is about to run out of entities.
OverrunsClient == sv.parseEntitiesNum > MAX_PARSE_ENTITIES - PARSE_MARGIN

TooOld(n) == sv.outgoingSequence - n >= PACKET_BACKUP - 3

\* Defect: entities are taken for kept that have been written over.
RolledOffLate(frame, next) == frame.first <= next - 2 * NumSnapshotEntities

\* The frame's entities have been written over, next being one past the last.
RolledOff(frame, next) == frame.first <= next - NumSnapshotEntities

\* The frame to send the difference from is usable.
HasBase(next) ==
    /\ ~OverrunsClient
    /\ sv.deltaMessage > 0
    /\ sv.state = "active"
    /\ ~TooOld(sv.deltaMessage)
    /\ ~RolledOff(sv.frames[FrameSlot(sv.deltaMessage)], next)

\* The entities of a frame, as the ring r now holds them.
EntitiesOf(frame, r) ==
    {r[EntitySlot(i)] : i \in frame.first .. (frame.first + frame.num - 1)}

\* The value that a set of entities has for number n.
ValueIn(entities, n) ==
    IF \E o \in entities : o.number = n
    THEN (CHOOSE o \in entities : o.number = n).value ELSE Baseline

\* SV_EmitPacketEntities: what differs between two sets of entities.  The message
\* lists it by number.  An entity that is new is sent as its difference from the
\* baseline.
EmitPacketEntities(from, to) ==
    {[number |-> e.number, from |-> ValueIn(from, e.number), to |-> e.value] :
        e \in to \ from}
    \cup {[number |-> o.number, from |-> o.value, to |-> Gone] :
            o \in {e \in from : \A n \in to : n.number # e.number}}

EntitiesIn(scene) == {[number |-> n, value |-> scene[n]] : n \in DOMAIN scene}

\* The message that carries the frame of a scene, next being one past its last
\* entity in the ring.  Its truth is only there for the properties.
SnapshotMessage(frame, scene, next) ==
    LET based == HasBase(next)
        base  == sv.frames[FrameSlot(sv.deltaMessage)]
        r     == CopyOut(scene)
    IN  [snapshot  |-> TRUE,
         sequence  |-> sv.outgoingSequence,
         lastframe |-> IF based THEN sv.outgoingSequence - sv.deltaMessage ELSE 0,
         ps        |-> [from |-> IF based THEN base.ps ELSE Baseline, to |-> frame.ps],
         entities  |-> EmitPacketEntities(IF based THEN EntitiesOf(base, r) ELSE {},
                                          EntitiesOf(frame, r)),
         truth     |-> [ps |-> frame.ps, entities |-> EntitiesIn(scene)]]

IdleMessage == [snapshot |-> FALSE, sequence |-> sv.outgoingSequence]

\* A message that takes one packet leaves at once under the current sequence,
\* one that is fragmented keeps it until its last fragment has left.
Transmit(s, m, length) ==
    IF length >= FRAGMENT_SIZE
    THEN /\ sv' = [s EXCEPT !.unsent = <<m>>]
         /\ UNCHANGED toClient
    ELSE /\ sv' = [s EXCEPT !.outgoingSequence = @ + 1]
         /\ toClient' = Append(toClient, m)

CanTransmit ==
    /\ sv.unsent = <<>>
    /\ sv.outgoingSequence <= MaxMessages
    /\ Len(toClient) < MaxInFlight

\* For a client that plays, or one that was dropped and must still learn why.
SV_SendClientSnapshot ==
    /\ CanTransmit
    /\ sv.state # "primed"
    /\ \E scene \in (IF sv.state = "zombie" THEN {<<>>} ELSE Scenes[sv.outgoingSequence]) :
         LET slot  == FrameSlot(sv.outgoingSequence)
             next  == nextSnapshotEntities + Cardinality(DOMAIN scene)
             frame == [BuildFrame(sv.frames[slot], scene) EXCEPT !.parseEntities = TRUE]
             s     == [sv EXCEPT
                         !.frames[slot] = frame,
                         !.deltaMessage = IF OverrunsClient THEN -1 ELSE @,
                         !.parseEntitiesNum = frame.num + IF OverrunsClient THEN 0 ELSE @]
             m     == SnapshotMessage(frame, scene, next)
         IN  /\ next <= MaxEntities
             /\ ring' = CopyOut(scene)
             /\ nextSnapshotEntities' = next
             /\ Transmit(s, m, Cardinality(m.entities))
    /\ UNCHANGED <<cl, parseEntities, toServer>>

\* For a client that loads the map.
SV_SendClientIdle ==
    /\ CanTransmit
    /\ sv.state = "primed"
    /\ Transmit([sv EXCEPT !.frames[FrameSlot(sv.outgoingSequence)].parseEntities = FALSE],
                IdleMessage, 0)
    /\ UNCHANGED <<ring, nextSnapshotEntities, cl, parseEntities, toServer>>

\* The last fragment has left.  Until then no other snapshot is built.
SV_Netchan_TransmitNextFragment ==
    /\ sv.unsent # <<>>
    /\ sv' = [sv EXCEPT !.unsent = <<>>, !.outgoingSequence = @ + 1]
    /\ toClient' = toClient \o sv.unsent
    /\ UNCHANGED <<ring, nextSnapshotEntities, cl, parseEntities, toServer>>

\* The frame of another client takes n slots of the shared ring.
SV_SendOtherSnapshot(n) ==
    /\ nextSnapshotEntities + n <= MaxEntities
    /\ nextSnapshotEntities' = nextSnapshotEntities + n
    /\ ring' = [i \in DOMAIN ring |->
                  IF \E k \in 0..(n - 1) : EntitySlot(nextSnapshotEntities + k) = i
                  THEN [number |-> 1, value |-> Foreign] ELSE ring[i]]
    /\ UNCHANGED <<sv, cl, parseEntities, toClient, toServer>>

SV_DropClient ==
    /\ sv.state = "active"
    /\ sv' = [sv EXCEPT !.state = "zombie"]
    /\ UNCHANGED <<ring, nextSnapshotEntities, cl, parseEntities, toClient, toServer>>

-----------------------------------------------------------------------------
(* The server hears what the client has: SV_UserMove.                      *)

\* Entities sent with message n and since, as the frames count them.
EntitiesSince(n) ==
    LET since[i \in (n - 1)..(sv.outgoingSequence - 1)] ==
            IF i < n THEN 0 ELSE since[i - 1] + sv.frames[FrameSlot(i)].num
    IN  since[sv.outgoingSequence - 1]

\* The client wants differences, and from a message that was a snapshot.  The
\* first usercmds put it into the world, with a full snapshot first.
TakesDelta(p) ==
    /\ p.delta
    /\ sv.frames[FrameSlot(p.acknowledge)].parseEntities
    /\ sv.state = "active"

\* Defect: what the client has counts as what it asks for.
UserMoveAnyway(p) ==
    [sv EXCEPT !.state = "active",
               !.deltaMessage = p.acknowledge,
               !.parseEntitiesNum = EntitiesSince(p.acknowledge)]

UserMove(p) ==
    [sv EXCEPT !.state = "active",
               !.deltaMessage = IF TakesDelta(p) THEN p.acknowledge ELSE -1,
               !.parseEntitiesNum = IF TakesDelta(p) THEN EntitiesSince(p.acknowledge) ELSE 0]

SV_PacketEvent ==
    /\ toServer # <<>>
    /\ toServer' = Tail(toServer)
    /\ sv' = IF sv.state = "zombie" THEN sv ELSE UserMove(Head(toServer))
    /\ UNCHANGED <<ring, nextSnapshotEntities, cl, parseEntities, toClient>>

-----------------------------------------------------------------------------
(* The client reads a snapshot: CL_ParseSnapshot.                          *)

\* CL_WritePacket.  It asks for differences only from the last message it got;
\* for reasons of its own it may not ask (cl_nodelta, a demo about to start).
CL_WritePacket ==
    /\ Len(toServer) < MaxInFlight
    /\ \E delta \in BOOLEAN :
         /\ delta => cl.snap.valid /\ cl.serverMessageSequence = cl.snap.messageNum
         /\ toServer' = Append(toServer,
              [acknowledge |-> cl.serverMessageSequence, delta |-> delta])
    /\ UNCHANGED <<sv, ring, nextSnapshotEntities, cl, parseEntities, toClient>>

Store(w, e) ==
    [w EXCEPT !.ring[ParseSlot(w.next)] = e,
              !.next = IF e.value = Gone THEN @ ELSE @ + 1]

\* On to the next entity of old, whose number is looked at now.
NextOld(w, old) ==
    LET i == w.oldindex + 1 IN
    [w EXCEPT !.oldindex = i,
              !.oldnum = IF i >= old.numEntities THEN End
                         ELSE w.ring[ParseSlot(old.parseEntitiesNum + i)].number]

\* What the message has next, End when it has no more.
NextChange(changes) ==
    IF changes = {} THEN [number |-> End, from |-> Baseline, to |-> Gone]
    ELSE CHOOSE c \in changes : \A d \in changes : c.number <= d.number

\* One round of CL_ParsePacketEntities.  The ring is read and written at once.
ParseEntity(w, old) ==
    LET new   == NextChange(w.changes)
        state == w.ring[ParseSlot(old.parseEntitiesNum + w.oldindex)]
        rest  == [w EXCEPT !.changes = @ \ {new}]
        From(value) == [number |-> new.number, value |-> Apply(new, value)]
    IN  CASE w.oldnum < new.number -> NextOld(Store(w, state), old)
          [] w.oldnum > new.number -> Store(rest, From(Baseline))
          [] w.oldnum = new.number /\ new.number # End
                                   -> NextOld(Store(rest, From(state.value)), old)
          [] OTHER -> w

\* The client's ring and the index past its last entity, once the message has
\* been read as its difference from old.
ParsePacketEntities(m, old) ==
    LET start == NextOld([ring |-> parseEntities, next |-> cl.parseEntitiesNum,
                          changes |-> m.entities, oldindex |-> -1, oldnum |-> End], old)
        rounds == old.numEntities + Cardinality(m.entities)
        walk[k \in 0..rounds] == IF k = 0 THEN start ELSE ParseEntity(walk[k - 1], old)
    IN  walk[rounds]

EntitiesGone(old) ==
    cl.parseEntitiesNum - old.parseEntitiesNum > MAX_PARSE_ENTITIES - PARSE_MARGIN

\* Entities up to next and those of old are more than the ring holds: reading has
\* written over what was still to be read.  Only for the properties.
GoesOver(old, next) == next - old.parseEntitiesNum > MAX_PARSE_ENTITIES

\* Why a difference from message n cannot be used, "no" if it can.
Refusal(old, n) ==
    CASE ~old.valid           -> "invalid frame"
      [] old.messageNum # n   -> "frame too old"
      [] EntitiesGone(old)    -> "entities too old"
      [] OTHER                -> "no"

\* Defect: the last snapshot counts as missed.
MissedAndLast(n) ==
    (IF n - cl.snap.messageNum >= PACKET_BACKUP THEN n - (PACKET_BACKUP - 1)
     ELSE cl.snap.messageNum) .. (n - 1)

\* The messages between the last snapshot and this one, n, that still have a slot.
Missed(n) ==
    (IF n - (cl.snap.messageNum + 1) >= PACKET_BACKUP THEN n - (PACKET_BACKUP - 1)
     ELSE cl.snap.messageNum + 1) .. (n - 1)

Save(c, snap) ==
    [c EXCEPT !.snap = snap,
              !.snapshots = [i \in DOMAIN @ |->
                  IF i = FrameSlot(snap.messageNum) THEN snap
                  ELSE IF \E k \in Missed(snap.messageNum) : FrameSlot(k) = i
                       THEN [@[i] EXCEPT !.valid = FALSE] ELSE @[i]]]

\* A snapshot that cannot be used is read all the same, and then left.
ParseSnapshot(m) ==
    LET full   == m.lastframe = 0
        n      == m.sequence - m.lastframe
        old    == IF full THEN NoSnap ELSE cl.snapshots[FrameSlot(n)]
        w      == ParsePacketEntities(m, old)
        refusal == IF full THEN "no" ELSE Refusal(old, n)
        c      == [cl EXCEPT !.serverMessageSequence = m.sequence,
                             !.parseEntitiesNum = w.next,
                             !.refused = IF refusal = "no" THEN @ ELSE refusal]
        snap   == [valid |-> TRUE, messageNum |-> m.sequence,
                   parseEntitiesNum |-> cl.parseEntitiesNum,
                   numEntities |-> w.next - cl.parseEntitiesNum,
                   ps |-> Apply(m.ps, old.ps),
                   crowded |-> ~full /\ (old.crowded \/ GoesOver(old, w.next)),
                   truth |-> m.truth]
    IN  /\ parseEntities' = w.ring
        /\ cl' = IF refusal = "no" THEN Save(c, snap) ELSE c

CL_PacketEvent ==
    /\ toClient # <<>>
    /\ toClient' = Tail(toClient)
    /\ LET m == Head(toClient) IN
       \/ /\ m.snapshot
          /\ ParseSnapshot(m)
       \/ /\ ~m.snapshot
          /\ cl' = [cl EXCEPT !.serverMessageSequence = m.sequence]
          /\ UNCHANGED parseEntities
    /\ UNCHANGED <<sv, ring, nextSnapshotEntities, toServer>>

-----------------------------------------------------------------------------
(* The client game asks for snapshot n: CL_GetSnapshot.  It has room for   *)
(* MAX_ENTITIES_IN_SNAPSHOT entities, the rest are left out.               *)

RolledOut(snap) == cl.parseEntitiesNum - snap.parseEntitiesNum >= MAX_PARSE_ENTITIES

CanGetSnapshot(n) ==
    /\ n <= cl.snap.messageNum
    /\ cl.snap.messageNum - n < PACKET_BACKUP
    /\ cl.snapshots[FrameSlot(n)].valid
    /\ ~RolledOut(cl.snapshots[FrameSlot(n)])

GetSnapshot(n) ==
    LET snap  == cl.snapshots[FrameSlot(n)]
        from  == snap.parseEntitiesNum
        count == IF snap.numEntities > MAX_ENTITIES_IN_SNAPSHOT
                 THEN MAX_ENTITIES_IN_SNAPSHOT ELSE snap.numEntities
    IN  [ps |-> snap.ps,
         entities |-> {parseEntities[ParseSlot(i)] : i \in from..(from + count - 1)}]

-----------------------------------------------------------------------------
(* The network loses a message.                                            *)

LoseToClient ==
    /\ toClient # <<>>
    /\ toClient' = Tail(toClient)
    /\ UNCHANGED <<sv, ring, nextSnapshotEntities, cl, parseEntities, toServer>>

LoseToServer ==
    /\ toServer # <<>>
    /\ toServer' = Tail(toServer)
    /\ UNCHANGED <<sv, ring, nextSnapshotEntities, cl, parseEntities, toClient>>

Next ==
    \/ SV_SendClientSnapshot
    \/ SV_SendClientIdle
    \/ SV_Netchan_TransmitNextFragment
    \/ \E n \in OtherSizes : SV_SendOtherSnapshot(n)
    \/ SV_DropClient
    \/ SV_PacketEvent
    \/ CL_WritePacket
    \/ CL_PacketEvent
    \/ LoseToClient
    \/ LoseToServer

Spec == Init /\ [][Next]_vars

-----------------------------------------------------------------------------
(* Properties.                                                             *)

Entity == [number : Nat, value : Int]
Frame  == [ps : Nat, first : Nat, num : Nat, parseEntities : BOOLEAN]

TypeOK ==
    /\ sv.state \in {"primed", "active", "zombie"}
    /\ sv.outgoingSequence \in 1..(MaxMessages + 1)
    /\ sv.deltaMessage \in {-1} \cup 1..MaxMessages
    /\ sv.parseEntitiesNum \in Nat
    /\ Len(sv.unsent) <= 1
    /\ sv.frames \in [0..(PACKET_BACKUP - 1) -> Frame]
    /\ ring \in [0..(NumSnapshotEntities - 1) -> Entity]
    /\ nextSnapshotEntities \in 0..MaxEntities
    /\ cl.serverMessageSequence \in 0..MaxMessages
    /\ DOMAIN cl.snapshots = 0..(PACKET_BACKUP - 1)
    /\ parseEntities \in [0..(MAX_PARSE_ENTITIES - 1) -> Entity]

\* The entities of a frame that the client game has room for: those with the
\* lowest numbers.
Handed(entities) ==
    {e \in entities :
        Cardinality({f \in entities : f.number < e.number}) < MAX_ENTITIES_IN_SNAPSHOT}

\* Whatever snapshot the client game is given is the one the server built under
\* that number, its playerstate and, entity for entity, the lowest-numbered
\* MAX_ENTITIES_IN_SNAPSHOT of its entities (all of them when there are no more),
\* though it came as a chain of differences and the rings at both ends have been
\* written to since: unless a snapshot in the chain went over the client's ring,
\* which PARSE_MARGIN does not exclude.
SnapshotsAreTrueUnlessCrowded ==
    \A n \in 1..cl.snap.messageNum :
        CanGetSnapshot(n) =>
            LET snap == cl.snapshots[FrameSlot(n)]
            IN  /\ snap.messageNum = n
                /\ ~snap.crowded => GetSnapshot(n) = [snap.truth EXCEPT !.entities = Handed(@)]

\* The client is never sent a difference from a snapshot it does not have
\* ("not supposed to happen!").
BaseIsHeld == cl.refused \notin {"invalid frame", "frame too old"}
=============================================================================
