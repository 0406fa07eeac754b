--------------------------- MODULE Snapshot_proofs ---------------------------
(***************************************************************************)
(* Theorems about Snapshot, for rings of every size: the client has what   *)
(* the server takes as a base, and a slot of its ring of snapshots never   *)
(* passes for another number.                                              *)
(***************************************************************************)
EXTENDS Snapshot, TLAPS

-----------------------------------------------------------------------------
(* The inductive invariant                                                 *)

\* The client c has snapshot n, or has had it until the ring came round again.
Holds(c, n) ==
    /\ n \in Nat
    /\ n <= c.snap.messageNum
    /\ c.snap.messageNum - n < PACKET_BACKUP =>
         /\ c.snapshots[FrameSlot(n)].valid = TRUE
         /\ c.snapshots[FrameSlot(n)].messageNum = n

\* A slot of c that looks like snapshot n is.
Numbered(c, n) ==
    /\ n <= c.snap.messageNum
    /\ c.snap.messageNum - n < PACKET_BACKUP
    /\ c.snapshots[FrameSlot(n)].valid
    => c.snapshots[FrameSlot(n)].messageNum = n

\* The fields of the records the code updates.
ServerShape(s) ==
    s = [state |-> s.state, outgoingSequence |-> s.outgoingSequence,
         deltaMessage |-> s.deltaMessage, parseEntitiesNum |-> s.parseEntitiesNum,
         unsent |-> s.unsent, frames |-> s.frames]

SnapShape(s) ==
    s = [valid |-> s.valid, messageNum |-> s.messageNum,
         parseEntitiesNum |-> s.parseEntitiesNum, numEntities |-> s.numEntities,
         ps |-> s.ps, crowded |-> s.crowded, truth |-> s.truth]

ClientShape(c) ==
    /\ c = [serverMessageSequence |-> c.serverMessageSequence,
            parseEntitiesNum |-> c.parseEntitiesNum, snap |-> c.snap,
            snapshots |-> c.snapshots, refused |-> c.refused]
    /\ c.snapshots = [i \in 0..(PACKET_BACKUP - 1) |-> c.snapshots[i]]
    /\ \A i \in 0..(PACKET_BACKUP - 1) : SnapShape(c.snapshots[i])

\* A sequence of anything.
Listed(s) == s \in Seq({s[i] : i \in DOMAIN s})

Typed ==
    /\ ServerShape(sv) /\ ClientShape(cl)
    /\ sv.outgoingSequence \in Nat /\ sv.deltaMessage \in Int
    /\ cl.serverMessageSequence \in Nat /\ cl.snap.messageNum \in Nat
    /\ Listed(toClient) /\ Listed(toServer)
    /\ \A i \in DOMAIN toClient : toClient[i].sequence \in Nat

\* The base of a message is one that the client c has, and recent.
HasItsBase(c, m) ==
    m.snapshot => /\ m.lastframe \in Nat
                  /\ m.lastframe # 0 => /\ m.lastframe < PACKET_BACKUP
                                        /\ Holds(c, m.sequence - m.lastframe)

\* Messages come in the order of their numbers, which are those not yet read.
OrderInv ==
    /\ cl.snap.messageNum <= cl.serverMessageSequence
    /\ cl.serverMessageSequence < sv.outgoingSequence
    /\ \A i \in DOMAIN toClient :
         /\ cl.serverMessageSequence < toClient[i].sequence
         /\ toClient[i].sequence < sv.outgoingSequence
    /\ \A i, j \in DOMAIN toClient : i < j => toClient[i].sequence < toClient[j].sequence

\* The message that is being sent in fragments.
UnsentInv(c) ==
    sv.unsent # <<>> => /\ sv.unsent = <<sv.unsent[1]>>
                        /\ sv.unsent[1].sequence = sv.outgoingSequence
                        /\ HasItsBase(c, sv.unsent[1])

\* Whatever the server bases a difference on now or later, the client c has it.
BaseInv(c) ==
    /\ \A i \in DOMAIN toServer : toServer[i].delta => Holds(c, toServer[i].acknowledge)
    /\ sv.deltaMessage > 0 => Holds(c, sv.deltaMessage)
    /\ \A i \in DOMAIN toClient : HasItsBase(c, toClient[i])
    /\ UnsentInv(c)

\* The client's own ring.
RingInv(c) ==
    /\ c.snap.valid => Holds(c, c.snap.messageNum)
    /\ \A n \in 0..c.snap.messageNum : Numbered(c, n)

Inv == Typed /\ OrderInv /\ BaseInv(cl) /\ RingInv(cl) /\ BaseIsHeld

-----------------------------------------------------------------------------
(* Slots and sequences                                                     *)

\* Multiples of a positive number.
LEMMA Multiples ==
    ASSUME NEW k \in Nat \ {0}, NEW d \in Int
    PROVE  k * d <= 0 \/ k * d >= k
  <1>1. CASE d <= 0
    BY <1>1
  <1>2. CASE d >= 1
    <2>1. PICK j \in Nat : d = j + 1
      BY <1>2
    <2>2. k * d = k * j + k /\ k * j \in Nat
      BY <2>1
    <2> QED
      BY <2>2
  <1> QED
    BY <1>1, <1>2

\* Numbers less than a ring apart have slots apart.
LEMMA SlotsApart ==
    ASSUME NEW a \in Nat, NEW b \in Nat, a < b, b - a < PACKET_BACKUP
    PROVE  FrameSlot(a) # FrameSlot(b)
  <1> DEFINE k == PACKET_BACKUP
             p == a \div k
             q == b \div k
  <1>1. k \in Nat \ {0}
    BY RingAssumption
  <1>2. /\ a = k * p + (a % k) /\ b = k * q + (b % k)
        /\ p \in Int /\ q \in Int
    BY <1>1
  <1>3. SUFFICES ASSUME a % k = b % k PROVE FALSE
    BY DEF FrameSlot
  <1>4. b - a = k * (q - p)
    BY <1>1, <1>2, <1>3
  <1>5. k * (q - p) <= 0 \/ k * (q - p) >= k
    BY <1>1, <1>2, Multiples
  <1> QED
    BY <1>1, <1>4, <1>5

\* A slot is one of the ring.
LEMMA SlotType ==
    ASSUME NEW n \in Nat
    PROVE  FrameSlot(n) \in 0..(PACKET_BACKUP - 1)
  BY RingAssumption DEF FrameSlot

\* A sequence over any set is a sequence.
LEMMA ListedIn ==
    ASSUME NEW S, NEW s \in Seq(S)
    PROVE  Listed(s)
  <1> DEFINE T == {s[i] : i \in DOMAIN s}
  <1>1. /\ Len(s) \in Nat /\ DOMAIN s = 1..Len(s)
        /\ s = [i \in 1..Len(s) |-> s[i]]
    OBVIOUS
  <1>2. \A i \in 1..Len(s) : s[i] \in T
    BY <1>1
  <1> HIDE DEF T
  <1>3. [i \in 1..Len(s) |-> s[i]] \in Seq(T)
    BY <1>1, <1>2
  <1> QED
    BY <1>1, <1>3 DEF Listed, T

\* One message more under way.
LEMMA Appended ==
    ASSUME NEW s, NEW m, Listed(s)
    PROVE  /\ Listed(Append(s, m))
           /\ Len(s) \in Nat /\ DOMAIN s = 1..Len(s)
           /\ DOMAIN Append(s, m) = 1..(Len(s) + 1)
           /\ Append(s, m)[Len(s) + 1] = m
           /\ \A i \in 1..Len(s) : Append(s, m)[i] = s[i]
  <1> DEFINE S == {s[i] : i \in DOMAIN s}
             T == S \cup {m}
  <1>1. s \in Seq(S)
    BY DEF Listed
  <1> HIDE DEF S
  <1>2. s \in Seq(T) /\ m \in T
    BY <1>1
  <1> HIDE DEF T
  <1>3. Append(s, m) \in Seq(T)
    BY <1>2
  <1>4. Listed(Append(s, m))
    BY <1>3, ListedIn
  <1> QED
    BY <1>2, <1>4

\* One message less under way: the oldest has arrived or is lost.
LEMMA Tailed ==
    ASSUME NEW s, s # <<>>, Listed(s)
    PROVE  /\ Listed(Tail(s))
           /\ 1 \in DOMAIN s /\ Head(s) = s[1]
           /\ Len(s) \in Nat /\ DOMAIN s = 1..Len(s)
           /\ DOMAIN Tail(s) = 1..(Len(s) - 1)
           /\ \A i \in DOMAIN Tail(s) : i + 1 \in DOMAIN s /\ Tail(s)[i] = s[i + 1]
  <1> DEFINE S == {s[i] : i \in DOMAIN s}
  <1>1. s \in Seq(S)
    BY DEF Listed
  <1> HIDE DEF S
  <1>2. Tail(s) \in Seq(S)
    BY <1>1
  <1>3. Listed(Tail(s))
    BY <1>2, ListedIn
  <1>4. Len(s) \in Nat \ {0} /\ DOMAIN s = 1..Len(s) /\ Head(s) = s[1]
    BY <1>1
  <1>5. DOMAIN Tail(s) = 1..(Len(s) - 1) /\ \A i \in 1..(Len(s) - 1) : Tail(s)[i] = s[i + 1]
    BY <1>1
  <1> QED
    BY <1>3, <1>4, <1>5

-----------------------------------------------------------------------------
(* The client's ring of snapshots                                          *)

\* The numbers whose slots a new snapshot clears lie between it and the last.
LEMMA MissedBetween ==
    ASSUME cl.snap.messageNum \in Nat, NEW m \in Nat, cl.snap.messageNum < m,
           NEW k
    PROVE  /\ k \in Missed(m) => /\ k \in Nat /\ cl.snap.messageNum < k /\ k < m
                                 /\ m - k < PACKET_BACKUP
           /\ k \in Nat /\ cl.snap.messageNum < k /\ k < m /\ m - k < PACKET_BACKUP
                => k \in Missed(m)
  BY RingAssumption DEF Missed

\* How the ring of d differs from that of c, but for the slot of m.
KeptOrCleared(c, d, m) ==
    \A i \in 0..(PACKET_BACKUP - 1) : i # FrameSlot(m) =>
        /\ (\E k \in Missed(m) : FrameSlot(k) = i) => d.snapshots[i].valid = FALSE
        /\ ~(\E k \in Missed(m) : FrameSlot(k) = i) => d.snapshots[i] = c.snapshots[i]

\* The ring after a snapshot is saved.
LEMMA Saved ==
    ASSUME NEW c, ClientShape(c), NEW snap, SnapShape(snap), snap.messageNum \in Nat
    PROVE  /\ ClientShape(Save(c, snap))
           /\ Save(c, snap).snap = snap
           /\ Save(c, snap).serverMessageSequence = c.serverMessageSequence
           /\ Save(c, snap).refused = c.refused
           /\ Save(c, snap).snapshots[FrameSlot(snap.messageNum)] = snap
           /\ KeptOrCleared(c, Save(c, snap), snap.messageNum)
  <1> DEFINE N == 0..(PACKET_BACKUP - 1)
             slot == FrameSlot(snap.messageNum)
             Cleared(i) == \E k \in Missed(snap.messageNum) : FrameSlot(k) = i
             new == [i \in N |->
                       IF i = slot THEN snap
                       ELSE IF Cleared(i) THEN [c.snapshots[i] EXCEPT !.valid = FALSE]
                            ELSE c.snapshots[i]]
             d == Save(c, snap)
  <1>1. slot \in N
    BY SlotType
  <1> HIDE DEF slot
  <1>2. DOMAIN c.snapshots = N
    BY DEF ClientShape
  <1>3. d = [c EXCEPT !.snap = snap, !.snapshots = new]
    BY <1>2 DEF Save, slot
  <1> HIDE DEF Cleared, N
  <1>4. ASSUME NEW i \in N
        PROVE  SnapShape([c.snapshots[i] EXCEPT !.valid = FALSE])
               /\ [c.snapshots[i] EXCEPT !.valid = FALSE].valid = FALSE
    <2>1. SnapShape(c.snapshots[i])
      BY DEF ClientShape, N
    <2> DEFINE x == c.snapshots[i]
    <2> HIDE DEF x
    <2>2. SnapShape(x)
      BY <2>1 DEF x
    <2> DEFINE no == FALSE
    <2> HIDE DEF no
    <2>3. SnapShape([x EXCEPT !.valid = no]) /\ [x EXCEPT !.valid = no].valid = no
      BY <2>2 DEF SnapShape
    <2> QED
      BY <2>3 DEF x, no
  <1>5. \A i \in N : /\ SnapShape(new[i])
                     /\ i = slot => new[i] = snap
                     /\ i # slot /\ Cleared(i) => new[i].valid = FALSE
                     /\ i # slot /\ ~Cleared(i) => new[i] = c.snapshots[i]
    <2> TAKE i \in N
    <2>1. CASE i = slot
      BY <2>1
    <2>2. CASE i # slot /\ Cleared(i)
      BY <2>2, <1>4
    <2>3. CASE i # slot /\ ~Cleared(i)
      <3>1. SnapShape(c.snapshots[i])
        BY DEF ClientShape, N
      <3> QED
        BY <2>3, <3>1
    <2> QED
      BY <2>1, <2>2, <2>3
  <1>6. new = [i \in N |-> new[i]]
    OBVIOUS
  <1> HIDE DEF new, d
  <1>7. /\ d = [serverMessageSequence |-> c.serverMessageSequence,
                parseEntitiesNum |-> c.parseEntitiesNum, snap |-> snap,
                snapshots |-> new, refused |-> c.refused]
    BY <1>3 DEF ClientShape
  <1>8. /\ d.snap = snap /\ d.snapshots = new /\ d.refused = c.refused
        /\ d.serverMessageSequence = c.serverMessageSequence
    BY <1>7
  <1>9. ClientShape(d)
    BY <1>5, <1>6, <1>7 DEF ClientShape, N
  <1> QED
    <2>1. d.snapshots[slot] = snap
      BY <1>1, <1>5, <1>8
    <2>2. KeptOrCleared(c, d, snap.messageNum)
      BY <1>5, <1>8 DEF KeptOrCleared, Cleared, N, slot
    <2> QED
      BY <1>8, <1>9, <2>1, <2>2 DEF d, slot

\* What the client has it goes on having, the new snapshot too.
LEMMA SavedHolds ==
    ASSUME NEW c, ClientShape(c), c.snap = cl.snap, c.snap.messageNum \in Nat,
           RingInv(c), NEW snap, SnapShape(snap), snap.valid = TRUE,
           snap.messageNum \in Nat, c.snap.messageNum < snap.messageNum
    PROVE  /\ \A n : Holds(c, n) => Holds(Save(c, snap), n)
           /\ RingInv(Save(c, snap))
  <1> DEFINE d == Save(c, snap)
             m == snap.messageNum
             l == c.snap.messageNum
  <1>1. /\ d.snap = snap
        /\ d.snapshots[FrameSlot(m)] = snap
        /\ \A i \in 0..(PACKET_BACKUP - 1) : i # FrameSlot(m) =>
             /\ (\E k \in Missed(m) : FrameSlot(k) = i) => d.snapshots[i].valid = FALSE
             /\ ~(\E k \in Missed(m) : FrameSlot(k) = i) => d.snapshots[i] = c.snapshots[i]
    <2>1. d.snap = snap /\ d.snapshots[FrameSlot(m)] = snap /\ KeptOrCleared(c, d, m)
      BY Saved
    <2> QED
      BY <2>1 DEF KeptOrCleared
  <1>2. m \in Nat /\ l \in Nat /\ l < m /\ l = cl.snap.messageNum
    OBVIOUS
  <1> HIDE DEF d, m, l
  <1>3. \A k : k \in Missed(m) <=> k \in Nat /\ l < k /\ k < m /\ m - k < PACKET_BACKUP
    BY <1>2, MissedBetween
  <1>4. ASSUME NEW n, Holds(c, n)
        PROVE  Holds(d, n)
    <2>1. n \in Nat /\ n <= l
      BY <1>4 DEF Holds, l
    <2> n <= m /\ d.snap.messageNum = m
      BY <1>1, <1>2, <2>1 DEF m
    <2>2. SUFFICES ASSUME m - n < PACKET_BACKUP
                   PROVE  d.snapshots[FrameSlot(n)].valid = TRUE
                          /\ d.snapshots[FrameSlot(n)].messageNum = n
      BY <2>1, Zenon DEF Holds
    <2>3. FrameSlot(n) \in 0..(PACKET_BACKUP - 1) /\ FrameSlot(n) # FrameSlot(m)
      BY <1>2, <2>1, <2>2, SlotType, SlotsApart
    <2>4. ASSUME NEW k \in Missed(m)
          PROVE  FrameSlot(k) # FrameSlot(n)
      <3>1. k \in Nat /\ l < k /\ k < m
        BY <1>3
      <3>2. n < k /\ k - n < PACKET_BACKUP
        BY <1>2, <2>1, <2>2, <3>1, RingAssumption
      <3> QED
        BY <2>1, <3>1, <3>2, SlotsApart
    <2>5. d.snapshots[FrameSlot(n)] = c.snapshots[FrameSlot(n)]
      BY <1>1, <2>3, <2>4
    <2>6. l - n < PACKET_BACKUP
      BY <1>2, <2>1, <2>2, RingAssumption
    <2> QED
      BY <1>4, <2>5, <2>6 DEF Holds, l
  <1>5. Holds(d, m)
    BY <1>1, <1>2 DEF Holds, m
  <1>6. ASSUME NEW n \in 0..m
        PROVE  Numbered(d, n)
    <2>1. SUFFICES ASSUME m - n < PACKET_BACKUP, d.snapshots[FrameSlot(n)].valid
                   PROVE  d.snapshots[FrameSlot(n)].messageNum = n
      BY <1>1 DEF Numbered, m
    <2>2. CASE n = m
      BY <1>1, <2>2 DEF m
    <2>3. CASE n < m
      <3>1. /\ n \in Nat /\ FrameSlot(n) \in 0..(PACKET_BACKUP - 1)
            /\ FrameSlot(n) # FrameSlot(m)
        BY <1>2, <2>1, <2>3, SlotType, SlotsApart
      <3>2. ~ \E k \in Missed(m) : FrameSlot(k) = FrameSlot(n)
        BY <1>1, <2>1, <3>1
      <3>3. d.snapshots[FrameSlot(n)] = c.snapshots[FrameSlot(n)]
        BY <1>1, <3>1, <3>2
      <3>4. n <= l
        BY <1>2, <1>3, <2>1, <2>3, <3>1, <3>2
      <3>5. Numbered(c, n) /\ l - n < PACKET_BACKUP
        BY <1>2, <2>1, <3>1, <3>4, RingAssumption DEF RingInv, l
      <3> QED
        BY <2>1, <3>3, <3>4, <3>5 DEF Numbered, l
    <2> QED
      BY <1>2, <2>2, <2>3
  <1> QED
    BY <1>1, <1>4, <1>5, <1>6 DEF RingInv, d, m

-----------------------------------------------------------------------------
(* The server's steps                                                      *)

\* What every step leaves as it is.
LEMMA Quiet ==
    ASSUME Inv, UNCHANGED <<sv, cl, toClient, toServer>>
    PROVE  Inv'
  <1>1. Typed'
    BY DEF Inv, Typed, ServerShape, ClientShape, SnapShape, Listed
  <1>2. OrderInv' /\ BaseIsHeld'
    BY DEF Inv, OrderInv, BaseIsHeld
  <1>3. BaseInv(cl)'
    BY DEF Inv, BaseInv, UnsentInv, HasItsBase, Holds, FrameSlot
  <1>4. RingInv(cl)'
    BY DEF Inv, RingInv, Holds, Numbered, FrameSlot
  <1> QED
    BY <1>1, <1>2, <1>3, <1>4 DEF Inv

\* The numbers in Inv are integers.
LEMMA Types ==
    ASSUME Inv
    PROVE  /\ sv.outgoingSequence \in Nat /\ sv.deltaMessage \in Int
           /\ cl.serverMessageSequence \in Nat /\ cl.snap.messageNum \in Nat
           /\ cl.snap.messageNum <= cl.serverMessageSequence
           /\ cl.serverMessageSequence < sv.outgoingSequence
           /\ PACKET_BACKUP \in Nat /\ PACKET_BACKUP > 3
  BY RingAssumption DEF Inv, Typed, OrderInv

\* One message more under way to the client, under the current number.
LEMMA Sent ==
    ASSUME Inv, NEW m, m.sequence = sv.outgoingSequence, HasItsBase(cl, m)
    PROVE  /\ Listed(Append(toClient, m))
           /\ \A i \in DOMAIN Append(toClient, m) :
                /\ Append(toClient, m)[i].sequence \in Nat
                /\ cl.serverMessageSequence < Append(toClient, m)[i].sequence
                /\ Append(toClient, m)[i].sequence < sv.outgoingSequence + 1
                /\ HasItsBase(cl, Append(toClient, m)[i])
           /\ \A i, j \in DOMAIN Append(toClient, m) :
                i < j => Append(toClient, m)[i].sequence < Append(toClient, m)[j].sequence
  <1> DEFINE longer == Append(toClient, m)
             k == Len(toClient)
             o == sv.outgoingSequence
  <1>1. Listed(toClient)
    BY DEF Inv, Typed
  <1>2. /\ Listed(longer) /\ k \in Nat /\ DOMAIN toClient = 1..k
        /\ DOMAIN longer = 1..(k + 1) /\ longer[k + 1] = m
        /\ \A i \in 1..k : longer[i] = toClient[i]
    BY <1>1, Appended
  <1>3. o \in Nat /\ cl.serverMessageSequence \in Nat /\ cl.serverMessageSequence < o
    BY Types
  <1>4. \A i \in 1..k : /\ toClient[i].sequence \in Nat
                        /\ cl.serverMessageSequence < toClient[i].sequence
                        /\ toClient[i].sequence < o
                        /\ HasItsBase(cl, toClient[i])
    BY <1>2 DEF Inv, Typed, OrderInv, BaseInv
  <1>5. \A i, j \in 1..k : i < j => toClient[i].sequence < toClient[j].sequence
    BY <1>2 DEF Inv, OrderInv
  <1> HIDE DEF longer, k, o
  <1>6. ASSUME NEW i \in 1..(k + 1)
        PROVE  /\ longer[i].sequence \in Nat
               /\ cl.serverMessageSequence < longer[i].sequence
               /\ longer[i].sequence < o + 1
               /\ HasItsBase(cl, longer[i])
               /\ i \in 1..k \/ i = k + 1
    <2>1. i \in 1..k \/ i = k + 1
      BY <1>2
    <2>2. CASE i \in 1..k
      BY <1>2, <1>3, <1>4, <2>2
    <2>3. CASE i = k + 1
      BY <1>2, <1>3, <2>3 DEF o
    <2> QED
      BY <2>1, <2>2, <2>3
  <1>7. ASSUME NEW i \in 1..(k + 1), NEW j \in 1..(k + 1), i < j
        PROVE  longer[i].sequence < longer[j].sequence
    <2>1. i \in 1..k
      BY <1>2, <1>7
    <2>2. CASE j \in 1..k
      BY <1>2, <1>5, <1>7, <2>1, <2>2
    <2>3. CASE j = k + 1
      BY <1>2, <1>4, <2>1, <2>3 DEF o
    <2> QED
      BY <1>2, <2>2, <2>3
  <1> QED
    BY <1>2, <1>6, <1>7 DEF longer, o

\* A message is handed over, and leaves at once or in fragments.
LEMMA Transmitted ==
    ASSUME Inv, NEW s, NEW m, NEW length, sv.unsent = <<>>, ServerShape(s),
           s.unsent = <<>>, s.outgoingSequence = sv.outgoingSequence,
           s.deltaMessage = -1 \/ s.deltaMessage = sv.deltaMessage,
           m.sequence = sv.outgoingSequence, HasItsBase(cl, m),
           Transmit(s, m, length), cl' = cl, toServer' = toServer
    PROVE  Inv'
  <1>1. CASE length >= FRAGMENT_SIZE
    <2>1. sv' = [s EXCEPT !.unsent = <<m>>] /\ toClient' = toClient
      BY <1>1 DEF Transmit
    <2>2. /\ ServerShape(sv') /\ sv'.unsent = <<m>>
          /\ sv'.outgoingSequence = sv.outgoingSequence /\ sv'.deltaMessage = s.deltaMessage
      BY <2>1 DEF ServerShape
    <2>3. Typed'
      BY <2>1, <2>2 DEF Inv, Typed, ServerShape, ClientShape, SnapShape, Listed
    <2>4. OrderInv'
      BY <2>1, <2>2 DEF Inv, OrderInv
    <2>5. UnsentInv(cl)'
      <3>1. sv'.unsent[1] = m /\ sv'.unsent = <<m>>
        BY <2>2
      <3> QED
        BY <2>2, <3>1 DEF UnsentInv, HasItsBase, Holds, FrameSlot
    <2>6. BaseInv(cl)'
      <3>1. (\A i \in DOMAIN toServer : toServer[i].delta => Holds(cl, toServer[i].acknowledge))'
        BY Zenon DEF Inv, BaseInv, Holds, FrameSlot
      <3>2. s.deltaMessage > 0 => Holds(cl, s.deltaMessage)
        BY DEF Inv, BaseInv
      <3>3. (sv.deltaMessage > 0 => Holds(cl, sv.deltaMessage))'
        BY <2>2, <3>2, Zenon DEF Holds, FrameSlot
      <3>4. (\A i \in DOMAIN toClient : HasItsBase(cl, toClient[i]))'
        BY <2>1, Zenon DEF Inv, BaseInv, HasItsBase, Holds, FrameSlot
      <3> QED
        BY <2>5, <3>1, <3>3, <3>4, Zenon DEF BaseInv
    <2>7. RingInv(cl)' /\ BaseIsHeld'
      BY DEF Inv, RingInv, BaseIsHeld, Holds, Numbered, FrameSlot
    <2> QED
      BY <2>3, <2>4, <2>6, <2>7 DEF Inv
  <1>2. CASE ~(length >= FRAGMENT_SIZE)
    <2>1. sv' = [s EXCEPT !.outgoingSequence = @ + 1] /\ toClient' = Append(toClient, m)
      BY <1>2 DEF Transmit
    <2>2. /\ ServerShape(sv') /\ sv'.unsent = <<>>
          /\ sv'.outgoingSequence = sv.outgoingSequence + 1
          /\ sv'.deltaMessage = s.deltaMessage
      <3> DEFINE next == s.outgoingSequence + 1
      <3> HIDE DEF next
      <3>1. sv' = [s EXCEPT !.outgoingSequence = next]
        BY <2>1 DEF next
      <3>2. /\ ServerShape(sv') /\ sv'.unsent = s.unsent
            /\ sv'.outgoingSequence = next /\ sv'.deltaMessage = s.deltaMessage
        BY <3>1 DEF ServerShape
      <3> QED
        BY <3>2 DEF next
    <2>3. /\ Listed(toClient')
          /\ (\A i \in DOMAIN toClient :
                /\ toClient[i].sequence \in Nat
                /\ cl.serverMessageSequence < toClient[i].sequence
                /\ toClient[i].sequence < sv.outgoingSequence
                /\ HasItsBase(cl, toClient[i]))'
          /\ (\A i, j \in DOMAIN toClient :
                i < j => toClient[i].sequence < toClient[j].sequence)'
      BY <2>1, <2>2, Sent, ZenonT(60) DEF HasItsBase, Holds, FrameSlot
    <2>4. Typed'
      <3>1. ServerShape(sv)' /\ Listed(toClient)'
        BY <2>2, <2>3 DEF ServerShape, Listed
      <3> QED
        BY <2>2, <2>3, <3>1, Types, SMTT(30) DEF Inv, Typed, ClientShape, SnapShape, Listed
    <2>5. OrderInv'
      <3>1. cl.serverMessageSequence < sv.outgoingSequence + 1
        BY Types
      <3> QED
        BY <2>2, <2>3, <3>1 DEF Inv, OrderInv
    <2>6. BaseInv(cl)'
      <3>1. (\A i \in DOMAIN toServer : toServer[i].delta => Holds(cl, toServer[i].acknowledge))'
        BY Zenon DEF Inv, BaseInv, Holds, FrameSlot
      <3>2. s.deltaMessage > 0 => Holds(cl, s.deltaMessage)
        BY DEF Inv, BaseInv
      <3>3. (sv.deltaMessage > 0 => Holds(cl, sv.deltaMessage))'
        BY <2>2, <3>2, Zenon DEF Holds, FrameSlot
      <3>4. UnsentInv(cl)'
        BY <2>2, Zenon DEF UnsentInv
      <3> QED
        BY <2>3, <3>1, <3>3, <3>4, Zenon DEF BaseInv
    <2>7. RingInv(cl)' /\ BaseIsHeld'
      BY DEF Inv, RingInv, BaseIsHeld, Holds, Numbered, FrameSlot
    <2> QED
      BY <2>4, <2>5, <2>6, <2>7 DEF Inv
  <1> QED
    BY <1>1, <1>2

LEMMA SendClientSnapshot ==
    ASSUME Inv, SV_SendClientSnapshot
    PROVE  Inv'
  <1> PICK scene :
        LET slot  == FrameSlot(sv.outgoingSequence)
            next  == nextSnapshotEntities + Cardinality(DOMAIN scene)
            frame == [BuildFrame(sv.frames[slot], scene) EXCEPT !.parseEntities = TRUE]
            s     == [sv EXCEPT
                        !.frames[slot] = frame,
                        !.deltaMessage = IF OverrunsClient THEN -1 ELSE @,
                        !.parseEntitiesNum = frame.num + IF OverrunsClient THEN 0 ELSE @]
            m     == SnapshotMessage(frame, scene, next)
        IN  Transmit(s, m, Cardinality(m.entities))
    BY Zenon DEF SV_SendClientSnapshot
  <1> DEFINE slot  == FrameSlot(sv.outgoingSequence)
             next  == nextSnapshotEntities + Cardinality(DOMAIN scene)
             frame == [BuildFrame(sv.frames[slot], scene) EXCEPT !.parseEntities = TRUE]
             frames == [sv.frames EXCEPT ![slot] = frame]
             delta == IF OverrunsClient THEN -1 ELSE sv.deltaMessage
             count == frame.num + IF OverrunsClient THEN 0 ELSE sv.parseEntitiesNum
             s     == [sv EXCEPT !.frames = frames, !.deltaMessage = delta,
                                 !.parseEntitiesNum = count]
             m     == SnapshotMessage(frame, scene, next)
  <1>1. Transmit(s, m, Cardinality(m.entities)) /\ sv.unsent = <<>> /\ cl' = cl /\ toServer' = toServer
    BY DEF SV_SendClientSnapshot, CanTransmit
  <1>2. ServerShape(sv) /\ delta \in {-1, sv.deltaMessage}
    BY DEF Inv, Typed
  <1>3. /\ ServerShape(s) /\ s.unsent = sv.unsent /\ s.deltaMessage = delta
        /\ s.outgoingSequence = sv.outgoingSequence
    <2>1. ASSUME NEW t, NEW f, NEW d, NEW n,
                 t = [sv EXCEPT !.frames = f, !.deltaMessage = d, !.parseEntitiesNum = n]
          PROVE  /\ ServerShape(t) /\ t.unsent = sv.unsent /\ t.deltaMessage = d
                 /\ t.outgoingSequence = sv.outgoingSequence
      BY <1>2, <2>1 DEF ServerShape
    <2>2. s = [sv EXCEPT !.frames = frames, !.deltaMessage = delta, !.parseEntitiesNum = count]
      OBVIOUS
    <2> HIDE DEF s, frames, delta, count
    <2> QED
      BY <2>1, <2>2, ZenonT(60)
  <1>4. /\ m.snapshot = TRUE /\ m.sequence = sv.outgoingSequence
        /\ m.lastframe = IF HasBase(next) THEN sv.outgoingSequence - sv.deltaMessage ELSE 0
    BY DEF SnapshotMessage
  <1> HIDE DEF s, m, next, frame, delta
  <1>5. HasItsBase(cl, m)
    <2>1. CASE HasBase(next)
      <3>1. sv.deltaMessage > 0 /\ sv.outgoingSequence - sv.deltaMessage < PACKET_BACKUP - 3
        BY <2>1, Types DEF HasBase, TooOld
      <3>2. Holds(cl, sv.deltaMessage)
        BY <3>1 DEF Inv, BaseInv
      <3>3. sv.deltaMessage \in Nat /\ sv.deltaMessage < sv.outgoingSequence
        BY <3>2, Types DEF Holds
      <3>4. /\ m.lastframe = sv.outgoingSequence - sv.deltaMessage
            /\ m.lastframe \in Nat /\ m.lastframe < PACKET_BACKUP
            /\ m.sequence - m.lastframe = sv.deltaMessage
        BY <1>4, <2>1, <3>1, <3>3, Types
      <3> QED
        BY <3>2, <3>4 DEF HasItsBase
    <2>2. CASE ~HasBase(next)
      BY <1>4, <2>2 DEF HasItsBase
    <2> QED
      BY <2>1, <2>2
  <1> QED
    BY <1>1, <1>2, <1>3, <1>4, <1>5, Transmitted

LEMMA SendClientIdle ==
    ASSUME Inv, SV_SendClientIdle
    PROVE  Inv'
  <1> DEFINE frames == [sv.frames EXCEPT ![FrameSlot(sv.outgoingSequence)].parseEntities = FALSE]
             s == [sv EXCEPT !.frames = frames]
  <1>1. /\ Transmit(s, IdleMessage, 0) /\ sv.unsent = <<>>
        /\ cl' = cl /\ toServer' = toServer
    BY DEF SV_SendClientIdle, CanTransmit
  <1>2. ServerShape(sv)
    BY DEF Inv, Typed
  <1> HIDE DEF frames
  <1>3. /\ ServerShape(s) /\ s.unsent = sv.unsent /\ s.deltaMessage = sv.deltaMessage
        /\ s.outgoingSequence = sv.outgoingSequence
    BY <1>2 DEF ServerShape
  <1>4. IdleMessage.sequence = sv.outgoingSequence /\ HasItsBase(cl, IdleMessage)
    BY DEF IdleMessage, HasItsBase
  <1> HIDE DEF s
  <1> QED
    BY <1>1, <1>3, <1>4, Transmitted

LEMMA TransmitNextFragment ==
    ASSUME Inv, SV_Netchan_TransmitNextFragment
    PROVE  Inv'
  <1> DEFINE m == sv.unsent[1]
             next == sv.outgoingSequence + 1
  <1>1. /\ sv.unsent = <<m>> /\ m.sequence = sv.outgoingSequence /\ HasItsBase(cl, m)
    BY DEF SV_Netchan_TransmitNextFragment, Inv, BaseInv, UnsentInv
  <1>2. Listed(toClient) /\ ServerShape(sv)
    BY DEF Inv, Typed
  <1>3. /\ sv' = [sv EXCEPT !.unsent = <<>>, !.outgoingSequence = next]
        /\ toClient' = toClient \o sv.unsent /\ cl' = cl /\ toServer' = toServer
    BY DEF SV_Netchan_TransmitNextFragment
  <1> HIDE DEF m, next
  <1>4. toClient' = Append(toClient, m)
    <2> DEFINE S == {toClient[i] : i \in DOMAIN toClient} \cup {m}
    <2>1. toClient \in Seq({toClient[i] : i \in DOMAIN toClient}) /\ m \in S
      BY <1>2 DEF Listed
    <2> DEFINE R == {toClient[i] : i \in DOMAIN toClient}
    <2> HIDE DEF R
    <2>2. toClient \in Seq(R \cup {m})
      BY <2>1 DEF R
    <2>3. toClient \o <<m>> = Append(toClient, m)
      BY <2>2
    <2> QED
      BY <1>1, <1>3, <2>3
  <1>5. /\ ServerShape(sv)' /\ sv'.unsent = <<>>
        /\ sv'.outgoingSequence = next /\ sv'.deltaMessage = sv.deltaMessage
    BY <1>2, <1>3 DEF ServerShape
  <1>6. next = sv.outgoingSequence + 1 /\ next \in Nat /\ cl.serverMessageSequence < next
    BY Types DEF next
  <1>7. /\ Listed(toClient')
        /\ (\A i \in DOMAIN toClient :
              /\ toClient[i].sequence \in Nat
              /\ cl.serverMessageSequence < toClient[i].sequence
              /\ toClient[i].sequence < sv.outgoingSequence
              /\ HasItsBase(cl, toClient[i]))'
        /\ (\A i, j \in DOMAIN toClient :
              i < j => toClient[i].sequence < toClient[j].sequence)'
    <2>1. /\ Listed(Append(toClient, m))
          /\ \A i \in DOMAIN Append(toClient, m) :
                /\ Append(toClient, m)[i].sequence \in Nat
                /\ cl.serverMessageSequence < Append(toClient, m)[i].sequence
                /\ Append(toClient, m)[i].sequence < next
                /\ HasItsBase(cl, Append(toClient, m)[i])
          /\ \A i, j \in DOMAIN Append(toClient, m) :
                i < j => Append(toClient, m)[i].sequence < Append(toClient, m)[j].sequence
      BY <1>1, <1>6, Sent
    <2> QED
      BY <1>3, <1>4, <1>5, <2>1 DEF HasItsBase, Holds, FrameSlot
  <1>8. Typed'
    BY <1>3, <1>5, <1>6, <1>7 DEF Inv, Typed, ClientShape, SnapShape, Listed
  <1>9. OrderInv'
    BY <1>3, <1>5, <1>6, <1>7 DEF Inv, OrderInv
  <1>10. BaseInv(cl)'
    BY <1>3, <1>5, <1>7 DEF Inv, BaseInv, UnsentInv, HasItsBase, Holds, FrameSlot
  <1>11. RingInv(cl)' /\ BaseIsHeld'
    BY <1>3 DEF Inv, RingInv, BaseIsHeld, Holds, Numbered, FrameSlot
  <1> QED
    BY <1>8, <1>9, <1>10, <1>11 DEF Inv

LEMMA DropClient ==
    ASSUME Inv, SV_DropClient
    PROVE  Inv'
  <1> DEFINE zombie == "zombie"
  <1>1. ServerShape(sv)
    BY DEF Inv, Typed
  <1>2. sv' = [sv EXCEPT !.state = zombie] /\ UNCHANGED <<cl, toClient, toServer>>
    BY DEF SV_DropClient
  <1> HIDE DEF zombie
  <1>3. /\ ServerShape(sv)' /\ sv'.unsent = sv.unsent
        /\ sv'.outgoingSequence = sv.outgoingSequence /\ sv'.deltaMessage = sv.deltaMessage
    BY <1>1, <1>2 DEF ServerShape
  <1>4. Typed'
    BY <1>2, <1>3 DEF Inv, Typed, ClientShape, SnapShape, Listed
  <1>5. OrderInv' /\ BaseIsHeld'
    BY <1>2, <1>3 DEF Inv, OrderInv, BaseIsHeld
  <1>6. BaseInv(cl)'
    BY <1>2, <1>3 DEF Inv, BaseInv, UnsentInv, HasItsBase, Holds, FrameSlot
  <1>7. RingInv(cl)'
    BY <1>2 DEF Inv, RingInv, Holds, Numbered, FrameSlot
  <1> QED
    BY <1>4, <1>5, <1>6, <1>7 DEF Inv

\* The server takes over the base that the client asks for, or none.
LEMMA PacketToServer ==
    ASSUME Inv, SV_PacketEvent
    PROVE  Inv'
  <1> DEFINE p == Head(toServer)
  <1>1. /\ toServer # <<>> /\ toServer' = Tail(toServer)
        /\ sv' = sv \/ sv' = UserMove(p)
        /\ cl' = cl /\ toClient' = toClient
    BY DEF SV_PacketEvent
  <1>2. Listed(toServer) /\ ServerShape(sv)
    BY DEF Inv, Typed
  <1>3. /\ Listed(toServer') /\ 1 \in DOMAIN toServer /\ p = toServer[1]
        /\ \A i \in DOMAIN toServer' : i + 1 \in DOMAIN toServer /\ toServer'[i] = toServer[i + 1]
    BY <1>1, <1>2, Tailed
  <1>4. p.delta => Holds(cl, p.acknowledge)
    BY <1>3 DEF Inv, BaseInv
  <1> HIDE DEF p
  <1>5. /\ ServerShape(sv)' /\ sv'.unsent = sv.unsent
        /\ sv'.outgoingSequence = sv.outgoingSequence
        /\ sv'.deltaMessage \in Int
        /\ sv'.deltaMessage > 0 => Holds(cl, sv'.deltaMessage)
    <2>1. CASE sv' = sv
      BY <1>2, <2>1 DEF Inv, Typed, BaseInv, ServerShape
    <2>2. CASE sv' = UserMove(p)
      <3> DEFINE delta == IF TakesDelta(p) THEN p.acknowledge ELSE -1
                 count == IF TakesDelta(p) THEN EntitiesSince(p.acknowledge) ELSE 0
                 active == "active"
      <3>1. sv' = [sv EXCEPT !.state = active, !.deltaMessage = delta,
                             !.parseEntitiesNum = count]
        BY <2>2 DEF UserMove
      <3>2. delta = -1 \/ Holds(cl, delta)
        BY <1>4 DEF TakesDelta
      <3> HIDE DEF delta, count, active
      <3>3. /\ ServerShape(sv)' /\ sv'.unsent = sv.unsent
            /\ sv'.outgoingSequence = sv.outgoingSequence /\ sv'.deltaMessage = delta
        BY <1>2, <3>1 DEF ServerShape
      <3>4. delta \in Int /\ (delta > 0 => Holds(cl, delta))
        BY <3>2 DEF Holds
      <3> QED
        BY <3>3, <3>4
    <2> QED
      BY <1>1, <2>1, <2>2
  <1>6. Typed'
    BY <1>1, <1>3, <1>5, ZenonT(60) DEF Inv, Typed, ClientShape, SnapShape, Listed
  <1>7. OrderInv' /\ BaseIsHeld'
    BY <1>1, <1>5 DEF Inv, OrderInv, BaseIsHeld
  <1>8. (\A i \in DOMAIN toServer : toServer[i].delta => Holds(cl, toServer[i].acknowledge))'
    BY <1>1, <1>3 DEF Inv, BaseInv, Holds, FrameSlot
  <1>9. BaseInv(cl)'
    BY <1>1, <1>5, <1>8 DEF Inv, BaseInv, UnsentInv, HasItsBase, Holds, FrameSlot
  <1>10. RingInv(cl)'
    BY <1>1 DEF Inv, RingInv, Holds, Numbered, FrameSlot
  <1> QED
    BY <1>6, <1>7, <1>9, <1>10 DEF Inv

-----------------------------------------------------------------------------
(* The client's steps                                                      *)

\* The oldest message has gone, and the client has at least what it had.
LEMMA Received ==
    ASSUME Inv, toClient # <<>>, toClient' = Tail(toClient), sv' = sv, toServer' = toServer,
           ClientShape(cl'), RingInv(cl'), BaseIsHeld',
           \/ cl'.serverMessageSequence = cl.serverMessageSequence
           \/ cl'.serverMessageSequence = Head(toClient).sequence,
           cl'.snap.messageNum \in Nat, cl'.snap.messageNum <= cl'.serverMessageSequence,
           \A n : Holds(cl, n) => Holds(cl', n)
    PROVE  Inv'
  <1> DEFINE h == toClient[1].sequence
  <1>1. Listed(toClient)
    BY DEF Inv, Typed
  <1>2. /\ Listed(toClient') /\ 1 \in DOMAIN toClient /\ Head(toClient) = toClient[1]
        /\ Len(toClient) \in Nat /\ DOMAIN toClient = 1..Len(toClient)
        /\ DOMAIN toClient' = 1..(Len(toClient) - 1)
        /\ \A i \in DOMAIN toClient' : i + 1 \in DOMAIN toClient /\ toClient'[i] = toClient[i + 1]
    BY <1>1, Tailed
  <1>3. h \in Nat /\ cl.serverMessageSequence < h /\ h < sv.outgoingSequence
    BY <1>2 DEF Inv, Typed, OrderInv
  <1>4. /\ cl'.serverMessageSequence \in Nat /\ cl'.serverMessageSequence <= h
        /\ cl'.serverMessageSequence < sv.outgoingSequence
    BY <1>2, <1>3, Types
  <1> HIDE DEF h
  <1>5. ASSUME NEW i \in 1..(Len(toClient) - 1)
        PROVE  /\ toClient'[i] = toClient[i + 1] /\ toClient[i + 1].sequence \in Nat
               /\ h < toClient[i + 1].sequence
               /\ toClient[i + 1].sequence < sv.outgoingSequence
               /\ HasItsBase(cl, toClient[i + 1])
    <2>1. i + 1 \in DOMAIN toClient /\ toClient'[i] = toClient[i + 1] /\ 1 < i + 1
      BY <1>2
    <2>2. /\ toClient[i + 1].sequence \in Nat /\ toClient[i + 1].sequence < sv.outgoingSequence
          /\ HasItsBase(cl, toClient[i + 1])
      BY <2>1 DEF Inv, Typed, OrderInv, BaseInv
    <2>3. h < toClient[i + 1].sequence
      BY <1>2, <2>1 DEF Inv, OrderInv, h
    <2> QED
      BY <2>1, <2>2, <2>3
  <1>6. ASSUME NEW m, HasItsBase(cl, m)
        PROVE  HasItsBase(cl', m)
    BY <1>6 DEF HasItsBase
  <1>7. Typed'
    <2>1. (\A i \in DOMAIN toClient : toClient[i].sequence \in Nat)'
      BY <1>2, <1>5
    <2>2. ClientShape(cl)' /\ ServerShape(sv)' /\ Listed(toClient)' /\ Listed(toServer)'
      BY <1>2, ZenonT(60) DEF Inv, Typed, ClientShape, SnapShape, ServerShape, Listed
    <2> QED
      BY <1>4, <2>1, <2>2, Types DEF Typed
  <1>8. OrderInv'
    <2>1. (\A i \in DOMAIN toClient : /\ cl.serverMessageSequence < toClient[i].sequence
                                      /\ toClient[i].sequence < sv.outgoingSequence)'
      <3> SUFFICES ASSUME NEW i \in 1..(Len(toClient) - 1)
                   PROVE  /\ cl'.serverMessageSequence < toClient'[i].sequence
                          /\ toClient'[i].sequence < sv.outgoingSequence
        BY <1>2
      <3> QED
        BY <1>3, <1>4, <1>5
    <2>2. (\A i, j \in DOMAIN toClient :
             i < j => toClient[i].sequence < toClient[j].sequence)'
      <3> SUFFICES ASSUME NEW i \in 1..(Len(toClient) - 1), NEW j \in 1..(Len(toClient) - 1),
                          i < j
                   PROVE  toClient'[i].sequence < toClient'[j].sequence
        BY <1>2
      <3>1. /\ toClient'[i] = toClient[i + 1] /\ toClient'[j] = toClient[j + 1]
            /\ i + 1 \in DOMAIN toClient /\ j + 1 \in DOMAIN toClient /\ i + 1 < j + 1
        BY <1>2
      <3> QED
        BY <3>1 DEF Inv, OrderInv
    <2> QED
      BY <1>4, <2>1, <2>2 DEF OrderInv
  <1>9. BaseInv(cl)'
    <2>1. (\A i \in DOMAIN toClient : HasItsBase(cl, toClient[i]))'
      <3>1. \A i \in DOMAIN toClient' : HasItsBase(cl', toClient'[i])
        BY <1>2, <1>5, <1>6
      <3> QED
        BY <3>1 DEF HasItsBase, Holds, FrameSlot
    <2>2. (\A i \in DOMAIN toServer : toServer[i].delta => Holds(cl, toServer[i].acknowledge))'
      <3>1. \A i \in DOMAIN toServer : toServer[i].delta => Holds(cl', toServer[i].acknowledge)
        BY DEF Inv, BaseInv
      <3> QED
        BY <3>1 DEF Holds, FrameSlot
    <2>3. (sv.deltaMessage > 0 => Holds(cl, sv.deltaMessage))'
      <3>1. sv.deltaMessage > 0 => Holds(cl', sv.deltaMessage)
        BY DEF Inv, BaseInv
      <3> QED
        BY <3>1 DEF Holds, FrameSlot
    <2>4. UnsentInv(cl)'
      <3>1. sv.unsent # <<>> => /\ sv.unsent = <<sv.unsent[1]>>
                                /\ sv.unsent[1].sequence = sv.outgoingSequence
                                /\ HasItsBase(cl', sv.unsent[1])
        BY <1>6 DEF Inv, BaseInv, UnsentInv
      <3> QED
        BY <3>1 DEF UnsentInv, HasItsBase, Holds, FrameSlot
    <2> QED
      BY <2>1, <2>2, <2>3, <2>4 DEF BaseInv
  <1>10. RingInv(cl)'
    BY DEF RingInv, Holds, Numbered, FrameSlot
  <1> QED
    BY <1>7, <1>8, <1>9, <1>10 DEF Inv

LEMMA LosesToClient ==
    ASSUME Inv, LoseToClient
    PROVE  Inv'
  <1>1. /\ toClient # <<>> /\ toClient' = Tail(toClient)
        /\ sv' = sv /\ cl' = cl /\ toServer' = toServer
    BY DEF LoseToClient
  <1>2. /\ ClientShape(cl') /\ RingInv(cl') /\ BaseIsHeld'
        /\ cl'.serverMessageSequence = cl.serverMessageSequence
        /\ cl'.snap.messageNum \in Nat /\ cl'.snap.messageNum <= cl'.serverMessageSequence
        /\ \A n : Holds(cl, n) => Holds(cl', n)
    BY <1>1, Types DEF Inv, Typed, BaseIsHeld
  <1> QED
    BY <1>1, <1>2, Received

LEMMA LosesToServer ==
    ASSUME Inv, LoseToServer
    PROVE  Inv'
  <1>1. /\ toServer # <<>> /\ toServer' = Tail(toServer)
        /\ sv' = sv /\ cl' = cl /\ toClient' = toClient
    BY DEF LoseToServer
  <1>2. Listed(toServer)
    BY DEF Inv, Typed
  <1>3. /\ Listed(toServer')
        /\ \A i \in DOMAIN toServer' : i + 1 \in DOMAIN toServer /\ toServer'[i] = toServer[i + 1]
    BY <1>1, <1>2, Tailed
  <1>4. Typed'
    BY <1>1, <1>3, ZenonT(60) DEF Inv, Typed, ServerShape, ClientShape, SnapShape, Listed
  <1>5. OrderInv' /\ BaseIsHeld'
    BY <1>1 DEF Inv, OrderInv, BaseIsHeld
  <1>6. (\A i \in DOMAIN toServer : toServer[i].delta => Holds(cl, toServer[i].acknowledge))'
    BY <1>1, <1>3 DEF Inv, BaseInv, Holds, FrameSlot
  <1>7. BaseInv(cl)'
    BY <1>1, <1>6 DEF Inv, BaseInv, UnsentInv, HasItsBase, Holds, FrameSlot
  <1>8. RingInv(cl)'
    BY <1>1 DEF Inv, RingInv, Holds, Numbered, FrameSlot
  <1> QED
    BY <1>4, <1>5, <1>7, <1>8 DEF Inv

\* The client asks for differences only from a snapshot it has.
LEMMA WritePacket ==
    ASSUME Inv, CL_WritePacket
    PROVE  Inv'
  <1> PICK delta \in BOOLEAN :
        /\ delta => cl.snap.valid /\ cl.serverMessageSequence = cl.snap.messageNum
        /\ toServer' = Append(toServer,
             [acknowledge |-> cl.serverMessageSequence, delta |-> delta])
    BY DEF CL_WritePacket
  <1> DEFINE p == [acknowledge |-> cl.serverMessageSequence, delta |-> delta]
  <1>1. sv' = sv /\ cl' = cl /\ toClient' = toClient /\ toServer' = Append(toServer, p)
    BY DEF CL_WritePacket
  <1>2. p.delta => Holds(cl, p.acknowledge)
    BY DEF Inv, RingInv
  <1>3. Listed(toServer)
    BY DEF Inv, Typed
  <1> HIDE DEF p
  <1>4. /\ Listed(toServer')
        /\ Len(toServer) \in Nat /\ DOMAIN toServer = 1..Len(toServer)
        /\ DOMAIN toServer' = 1..(Len(toServer) + 1)
        /\ toServer'[Len(toServer) + 1] = p
        /\ \A i \in 1..Len(toServer) : toServer'[i] = toServer[i]
    BY <1>1, <1>3, Appended
  <1>5. Typed'
    BY <1>1, <1>4 DEF Inv, Typed, ServerShape, ClientShape, SnapShape, Listed
  <1>6. OrderInv' /\ BaseIsHeld'
    BY <1>1 DEF Inv, OrderInv, BaseIsHeld
  <1>7. (\A i \in DOMAIN toServer : toServer[i].delta => Holds(cl, toServer[i].acknowledge))'
    <2>1. ASSUME NEW i \in DOMAIN toServer'
          PROVE  toServer'[i].delta => Holds(cl, toServer'[i].acknowledge)
      <3>1. i \in 1..Len(toServer) \/ i = Len(toServer) + 1
        BY <1>4
      <3>2. CASE i \in 1..Len(toServer)
        BY <1>4, <3>2 DEF Inv, BaseInv
      <3>3. CASE i = Len(toServer) + 1
        BY <1>2, <1>4, <3>3
      <3> QED
        BY <3>1, <3>2, <3>3
    <2> QED
      BY <1>1, <2>1 DEF Holds, FrameSlot
  <1>8. BaseInv(cl)'
    BY <1>1, <1>7 DEF Inv, BaseInv, UnsentInv, HasItsBase, Holds, FrameSlot
  <1>9. RingInv(cl)'
    BY <1>1 DEF Inv, RingInv, Holds, Numbered, FrameSlot
  <1> QED
    BY <1>5, <1>6, <1>8, <1>9 DEF Inv

\* The base of a difference is there: only its entities may be gone.
LEMMA BaseThere ==
    ASSUME Inv, NEW m, HasItsBase(cl, m), m.snapshot, m.lastframe # 0,
           m.sequence \in Nat, cl.serverMessageSequence < m.sequence,
           NEW old, old = cl.snapshots[FrameSlot(m.sequence - m.lastframe)]
    PROVE  Refusal(old, m.sequence - m.lastframe) \in {"no", "entities too old"}
  <1> DEFINE n == m.sequence - m.lastframe
  <1>1. Holds(cl, n) /\ m.lastframe \in Nat /\ m.lastframe < PACKET_BACKUP
    BY DEF HasItsBase
  <1>2. n \in Nat /\ cl.snap.messageNum - n < PACKET_BACKUP
    <2>1. n \in Nat
      BY <1>1 DEF Holds
    <2> QED
      BY <1>1, <2>1, Types
  <1> HIDE DEF n
  <1>3. old.valid = TRUE /\ old.messageNum = n
    BY <1>1, <1>2 DEF Holds, n
  <1> QED
    BY <1>3 DEF Refusal, n

LEMMA PacketToClient ==
    ASSUME Inv, CL_PacketEvent
    PROVE  Inv'
  <1> DEFINE m == Head(toClient)
  <1>1. /\ toClient # <<>> /\ toClient' = Tail(toClient)
        /\ sv' = sv /\ toServer' = toServer
        /\ \/ m.snapshot /\ ParseSnapshot(m)
           \/ cl' = [cl EXCEPT !.serverMessageSequence = m.sequence]
    BY DEF CL_PacketEvent
  <1>2. ClientShape(cl) /\ Listed(toClient) /\ RingInv(cl)
    BY DEF Inv, Typed
  <1>3. 1 \in DOMAIN toClient /\ m = toClient[1]
    BY <1>1, <1>2, Tailed
  <1>4. m.sequence \in Nat /\ cl.serverMessageSequence < m.sequence /\ HasItsBase(cl, m)
    BY <1>3 DEF Inv, Typed, OrderInv, BaseInv
  <1>5. /\ cl.snap.messageNum \in Nat /\ cl.serverMessageSequence \in Nat
        /\ cl.snap.messageNum < m.sequence
    BY <1>4, Types
  <1> HIDE DEF m
  <1>6. CASE m.snapshot /\ ParseSnapshot(m)
    <2> DEFINE full == m.lastframe = 0
               n == m.sequence - m.lastframe
               old == IF full THEN NoSnap ELSE cl.snapshots[FrameSlot(n)]
               w == ParsePacketEntities(m, old)
               refusal == IF full THEN "no" ELSE Refusal(old, n)
               refused == IF refusal = "no" THEN cl.refused ELSE refusal
               next == w.next
               number == m.sequence
               c == [cl EXCEPT !.serverMessageSequence = number,
                               !.parseEntitiesNum = next, !.refused = refused]
               ps == Apply(m.ps, old.ps)
               count == w.next - cl.parseEntitiesNum
               crowded == ~full /\ (old.crowded \/ GoesOver(old, w.next))
               snap == [valid |-> TRUE, messageNum |-> number,
                        parseEntitiesNum |-> cl.parseEntitiesNum, numEntities |-> count,
                        ps |-> ps, crowded |-> crowded, truth |-> m.truth]
    <2>1. cl' = IF refusal = "no" THEN Save(c, snap) ELSE c
      BY <1>6 DEF ParseSnapshot
    <2>2. refusal \in {"no", "entities too old"}
      BY <1>4, <1>6, BaseThere
    <2>3. refused \notin {"invalid frame", "frame too old"}
      <3>1. cl.refused \notin {"invalid frame", "frame too old"}
        BY DEF Inv, BaseIsHeld
      <3> QED
        BY <2>2, <3>1
    <2>4. number = m.sequence /\ number \in Nat
      BY <1>4
    <2> HIDE DEF w, next, refused, refusal, old, n, ps, count, number, crowded
    <2>5. /\ ClientShape(c) /\ c.snap = cl.snap /\ c.snapshots = cl.snapshots
          /\ c.serverMessageSequence = number /\ c.refused = refused
      <3>1. c = [cl EXCEPT !.serverMessageSequence = number, !.parseEntitiesNum = next,
                           !.refused = refused]
        OBVIOUS
      <3> HIDE DEF c
      <3>2. c = [serverMessageSequence |-> number, parseEntitiesNum |-> next,
                 snap |-> cl.snap, snapshots |-> cl.snapshots, refused |-> refused]
        BY <1>2, <3>1 DEF ClientShape
      <3>3. /\ c.snap = cl.snap /\ c.snapshots = cl.snapshots /\ c.parseEntitiesNum = next
            /\ c.serverMessageSequence = number /\ c.refused = refused
        BY <3>2
      <3> QED
        BY <1>2, <3>2, <3>3, Zenon DEF ClientShape
    <2>6. SnapShape(snap) /\ snap.valid = TRUE /\ snap.messageNum = number
      BY DEF SnapShape
    <2> HIDE DEF c, snap
    <2>7. /\ RingInv(c) /\ \A k : Holds(cl, k) => Holds(c, k)
      BY <1>2, <2>5 DEF RingInv, Holds, Numbered
    <2>8. CASE refusal = "no"
      <3> DEFINE d == Save(c, snap)
      <3>1. cl' = d
        BY <2>1, <2>8
      <3>2. /\ ClientShape(d) /\ d.snap = snap /\ d.refused = refused
            /\ d.serverMessageSequence = number
        BY <2>4, <2>5, <2>6, Saved
      <3>3. RingInv(d) /\ \A k : Holds(c, k) => Holds(d, k)
        <4>1. /\ c.snap.messageNum \in Nat /\ c.snap.messageNum < snap.messageNum
              /\ snap.messageNum \in Nat
          BY <1>5, <2>4, <2>5, <2>6
        <4> QED
          BY <2>5, <2>6, <2>7, <4>1, SavedHolds
      <3> HIDE DEF d
      <3>4. BaseIsHeld'
        BY <2>3, <3>1, <3>2 DEF BaseIsHeld
      <3>5. /\ cl'.snap.messageNum \in Nat /\ cl'.snap.messageNum <= cl'.serverMessageSequence
            /\ cl'.serverMessageSequence = Head(toClient).sequence
            /\ ClientShape(cl') /\ RingInv(cl')
            /\ \A k : Holds(cl, k) => Holds(cl', k)
        BY <2>4, <2>6, <2>7, <3>1, <3>2, <3>3 DEF m
      <3> QED
        BY <1>1, <3>4, <3>5, Received
    <2>9. CASE refusal # "no"
      <3>1. cl' = c
        BY <2>1, <2>9
      <3>2. BaseIsHeld'
        BY <2>3, <2>5, <3>1 DEF BaseIsHeld
      <3>3. /\ cl'.snap.messageNum \in Nat /\ cl'.snap.messageNum <= cl'.serverMessageSequence
            /\ cl'.serverMessageSequence = Head(toClient).sequence
            /\ ClientShape(cl') /\ RingInv(cl')
            /\ \A k : Holds(cl, k) => Holds(cl', k)
        BY <1>5, <2>4, <2>5, <2>7, <3>1 DEF m
      <3> QED
        BY <1>1, <3>2, <3>3, Received
    <2> QED
      BY <2>8, <2>9
  <1>7. CASE cl' = [cl EXCEPT !.serverMessageSequence = m.sequence]
    <2>1. /\ ClientShape(cl') /\ cl'.snap = cl.snap /\ cl'.snapshots = cl.snapshots
          /\ cl'.serverMessageSequence = m.sequence /\ cl'.refused = cl.refused
      BY <1>2, <1>7 DEF ClientShape
    <2>2. RingInv(cl') /\ \A k : Holds(cl, k) => Holds(cl', k)
      BY <1>2, <2>1 DEF RingInv, Holds, Numbered
    <2>3. BaseIsHeld'
      BY <2>1 DEF Inv, BaseIsHeld
    <2>4. /\ cl'.snap.messageNum \in Nat /\ cl'.snap.messageNum <= cl'.serverMessageSequence
          /\ cl'.serverMessageSequence = Head(toClient).sequence
      BY <1>4, <1>5, <2>1 DEF m
    <2> QED
      BY <1>1, <2>1, <2>2, <2>3, <2>4, Received
  <1> QED
    BY <1>1, <1>6, <1>7

-----------------------------------------------------------------------------
(* The theorems                                                            *)

LEMMA InitInv == Init => Inv
  <1> SUFFICES ASSUME Init PROVE Inv
    OBVIOUS
  <1>1. /\ sv.outgoingSequence = 1 /\ sv.deltaMessage = -1 /\ sv.unsent = <<>>
        /\ cl.serverMessageSequence = 0 /\ cl.snap = NoSnap /\ cl.refused = "no"
        /\ cl.snapshots = [i \in 0..(PACKET_BACKUP - 1) |-> NoSnap]
        /\ toClient = <<>> /\ toServer = <<>>
    BY DEF Init
  <1>2. ServerShape(sv)
    BY DEF Init, ServerShape
  <1>3. ClientShape(cl)
    BY DEF Init, ClientShape, SnapShape, NoSnap
  <1>4. NoSnap.messageNum = 0 /\ NoSnap.valid = FALSE
    BY DEF NoSnap
  <1>5. Typed
    BY <1>1, <1>2, <1>3, <1>4 DEF Typed, Listed
  <1>6. OrderInv /\ BaseIsHeld /\ BaseInv(cl)
    BY <1>1, <1>4 DEF OrderInv, BaseIsHeld, BaseInv, UnsentInv
  <1>7. RingInv(cl)
    <2>1. FrameSlot(0) \in 0..(PACKET_BACKUP - 1)
      BY SlotType
    <2> QED
      BY <1>1, <1>4, <2>1 DEF RingInv, Numbered
  <1> QED
    BY <1>5, <1>6, <1>7 DEF Inv

LEMMA InvInductive == Inv /\ [Next]_vars => Inv'
  <1> SUFFICES ASSUME Inv, [Next]_vars PROVE Inv'
    OBVIOUS
  <1>1. CASE SV_SendClientSnapshot
    BY <1>1, SendClientSnapshot
  <1>2. CASE SV_SendClientIdle
    BY <1>2, SendClientIdle
  <1>3. CASE SV_Netchan_TransmitNextFragment
    BY <1>3, TransmitNextFragment
  <1>4. CASE \E n \in OtherSizes : SV_SendOtherSnapshot(n)
    BY <1>4, Quiet DEF SV_SendOtherSnapshot
  <1>5. CASE SV_DropClient
    BY <1>5, DropClient
  <1>6. CASE SV_PacketEvent
    BY <1>6, PacketToServer
  <1>7. CASE CL_WritePacket
    BY <1>7, WritePacket
  <1>8. CASE CL_PacketEvent
    BY <1>8, PacketToClient
  <1>9. CASE LoseToClient
    BY <1>9, LosesToClient
  <1>10. CASE LoseToServer
    BY <1>10, LosesToServer
  <1>11. CASE UNCHANGED vars
    BY <1>11, Quiet DEF vars
  <1> QED
    BY <1>1, <1>2, <1>3, <1>4, <1>5, <1>6, <1>7, <1>8, <1>9, <1>10, <1>11 DEF Next

LEMMA Invariance == Spec => []Inv
  BY InitInv, InvInductive, PTL DEF Spec

\* The client is never sent a difference from a snapshot it does not have, as
\* CL_ParseSnapshot takes for granted ("not supposed to happen!").
THEOREM BaseHeld == Spec => []BaseIsHeld
  <1>1. Inv => BaseIsHeld
    BY DEF Inv
  <1> QED
    BY <1>1, Invariance, PTL

\* Whatever CL_GetSnapshot finds in a slot is the snapshot it was asked for: the
\* slots of lost snapshots never pass off one from a ring before.
SnapshotsAreNumbered ==
    \A n \in 1..cl.snap.messageNum :
        CanGetSnapshot(n) => cl.snapshots[FrameSlot(n)].messageNum = n

\* So it is after any losses, for rings of every size (CL_ParseSnapshot clears the slots of
\* the snapshots it missed).
THEOREM NumbersAreTrue == Spec => []SnapshotsAreNumbered
  <1>1. Inv => SnapshotsAreNumbered
    <2> SUFFICES ASSUME Inv, NEW n \in 1..cl.snap.messageNum, CanGetSnapshot(n)
                 PROVE  cl.snapshots[FrameSlot(n)].messageNum = n
      BY DEF SnapshotsAreNumbered
    <2>1. n \in 0..cl.snap.messageNum
      BY Types
    <2> QED
      BY <2>1 DEF Inv, RingInv, Numbered, CanGetSnapshot
  <1> QED
    BY <1>1, Invariance, PTL

=============================================================================
