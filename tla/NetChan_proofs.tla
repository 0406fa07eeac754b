--------------------------- MODULE NetChan_proofs ---------------------------
(***************************************************************************)
(* Proofs about NetChan, for every fragment size, message length, queue    *)
(* cap and number of messages.                                             *)
(*                                                                         *)
(* WholeMessages is not inductive: it does not say what the packets under  *)
(* way carry.  The invariant below ties every packet to the message whose  *)
(* sequence it bears, and the bytes collected so far to one such packet.   *)
(***************************************************************************)
EXTENDS NetChan, TLAPS

-----------------------------------------------------------------------------
(* The inductive invariant.                                                *)

\* m is a message that was submitted.
Logged(m) == m.id \in DOMAIN log /\ log[m.id].length = m.length

LogInv == \A i \in DOMAIN log : log[i].id = i

\* Messages wait in the order they were submitted.
QueueInv ==
    /\ \A i \in DOMAIN queue : Logged(queue[i])
    /\ \A i, j \in DOMAIN queue : i < j => queue[i].id < queue[j].id

\* The message being sent in fragments.
BufferInv ==
    unsentFragments =>
        /\ Logged(unsentBuffer)
        /\ unsentBuffer.key = outgoingSequence
        /\ unsentFragmentStart <= unsentBuffer.length
        /\ \A i \in DOMAIN queue : unsentBuffer.id < queue[i].id
        /\ \A p \in sent :
              p.sequence < outgoingSequence => p.payload.id < unsentBuffer.id

\* A packet carries a piece of a submitted message, encoded with the packet's
\* own sequence, and only the message now being sent has the current sequence.
PacketInv ==
    \A p \in sent :
        /\ Logged(p.payload)
        /\ p.payload.key = p.sequence
        /\ p.start <= p.payload.length
        /\ p.length = IF p.fragmented THEN FragmentLength(p.start, p.payload.length)
                                      ELSE p.payload.length
        /\ ~p.fragmented => p.start = 0
        /\ p.sequence <= outgoingSequence
        /\ p.sequence = outgoingSequence => unsentFragments /\ p.payload = unsentBuffer
        /\ \A i \in DOMAIN queue : p.payload.id < queue[i].id

\* One sequence, one message; and sequences grow with the messages.
OrderInv ==
    \A p, q \in sent :
        /\ p.sequence = q.sequence => p.payload = q.payload
        /\ p.sequence < q.sequence => p.payload.id < q.payload.id

\* The bytes collected are the first of the message of one sequence.
CollectedInv ==
    fragmentBuffer # <<>> =>
        \E p \in sent :
            /\ p.sequence = fragmentSequence
            /\ fragmentBuffer = Bytes(p.payload, 0, Len(fragmentBuffer))

DeliveredInv ==
    /\ \A i \in DOMAIN delivered :
          /\ delivered[i].sequence <= incomingSequence
          /\ \E p \in sent :
                /\ p.sequence = delivered[i].sequence
                /\ delivered[i].data = Bytes(p.payload, 0, p.payload.length)
    /\ \A i, j \in DOMAIN delivered :
          i < j => delivered[i].sequence < delivered[j].sequence

Inv ==
    /\ TypeOK
    /\ LogInv
    /\ QueueInv
    /\ BufferInv
    /\ PacketInv
    /\ OrderInv
    /\ CollectedInv
    /\ DeliveredInv

-----------------------------------------------------------------------------
(* Bytes and fragments.                                                    *)

\* The first a bytes of a message and the next b make its first a + b.
LEMMA BytesConcat ==
    ASSUME NEW e, NEW a \in Nat, NEW b \in Nat
    PROVE  Bytes(e, 0, a) \o Bytes(e, a, b) = Bytes(e, 0, a + b)
  BY DEF Bytes

LEMMA BytesLen ==
    ASSUME NEW e \in Encoded, NEW a \in Nat, NEW n \in Nat
    PROVE  /\ Bytes(e, a, n) \in Seq(Byte)
           /\ Len(Bytes(e, a, n)) = n
  BY DEF Bytes, Byte, Encoded

\* A fragment that starts within its message ends within it, and one shorter
\* than FRAGMENT_SIZE ends where the message does.
LEMMA FragmentWithin ==
    ASSUME NEW n \in 1..MAX_MSGLEN, NEW start \in 0..n
    PROVE  /\ FragmentLength(start, n) \in 0..MAX_MSGLEN
           /\ start + FragmentLength(start, n) <= n
           /\ FragmentLength(start, n) # FRAGMENT_SIZE =>
                 start + FragmentLength(start, n) = n
  BY FragmentAssumption, LengthAssumption DEF FragmentLength

LEMMA BytesEmpty ==
    ASSUME NEW e
    PROVE  Bytes(e, 0, 0) = <<>>
  BY DEF Bytes

\* The packet that holds the fragment at start, or the whole, of message e.
LEMMA PieceType ==
    ASSUME TypeOK,
           NEW e \in Encoded, NEW start \in 0..e.length
    PROVE  /\ Datagram(e, TRUE, start, FragmentLength(start, e.length)) \in Packet
           /\ Datagram(e, FALSE, 0, e.length) \in Packet
           /\ start + FragmentLength(start, e.length) \in 0..e.length
  <1>1. e.length \in 1..MAX_MSGLEN
    BY LengthAssumption DEF Encoded
  <1>2. FragmentLength(start, e.length) \in 0..MAX_MSGLEN
    BY <1>1, FragmentWithin
  <1>3. start + FragmentLength(start, e.length) <= e.length
    BY <1>1, FragmentWithin
  <1>4. start + FragmentLength(start, e.length) \in 0..e.length
    BY <1>1, <1>2, <1>3
  <1>5. outgoingSequence \in Nat /\ start \in Nat
    BY <1>1 DEF TypeOK
  <1>6. Datagram(e, TRUE, start, FragmentLength(start, e.length)) \in Packet
    BY <1>2, <1>5 DEF Datagram, Packet
  <1>7. Datagram(e, FALSE, 0, e.length) \in Packet
    BY <1>1, <1>5, LengthAssumption DEF Datagram, Packet
  <1> QED
    BY <1>4, <1>6, <1>7

-----------------------------------------------------------------------------
(* Initially.                                                              *)

THEOREM InitInv == Init => Inv
  <1> SUFFICES ASSUME Init PROVE Inv
    OBVIOUS
  <1>1. TypeOK
    <2>1. \A S : <<>> \in Seq(S)
      OBVIOUS
    <2> QED
      BY <2>1 DEF Init, TypeOK
  <1>2. LogInv /\ QueueInv /\ BufferInv /\ PacketInv /\ OrderInv /\ CollectedInv
    BY DEF Init, LogInv, QueueInv, BufferInv, PacketInv, OrderInv, CollectedInv
  <1>3. DeliveredInv
    BY DEF Init, DeliveredInv
  <1> QED
    BY <1>1, <1>2, <1>3 DEF Inv

-----------------------------------------------------------------------------
(* The sender.  A message is transmitted as it comes from the caller, from  *)
(* the head of the queue, or from the buffer of the one being sent.         *)

\* e may go out under the current sequence: every packet of that sequence
\* carries e, and every earlier one an earlier message.
MaySend(e) ==
    /\ e \in Encoded
    /\ e.key = outgoingSequence
    /\ \A p \in sent :
          /\ p.sequence = outgoingSequence => p.payload = e
          /\ p.sequence < outgoingSequence => p.payload.id < e.id

(* The type invariant, by who assigns the variables.                       *)

QueueTypeOK ==
    /\ log \in Seq(Message)
    /\ zombie \in BOOLEAN
    /\ queue \in Seq(Message)

SendTypeOK ==
    /\ outgoingSequence \in Nat
    /\ unsentFragments \in BOOLEAN
    /\ unsentFragments => unsentBuffer \in Encoded
    /\ unsentFragmentStart \in Nat
    /\ sent \subseteq Packet

ReceiveTypeOK ==
    /\ incomingSequence \in Nat
    /\ fragmentSequence \in Nat
    /\ fragmentBuffer \in Seq(Byte)
    /\ delivered \in Seq(Delivery)

LEMMA TypeParts ==
    /\ TypeOK <=> QueueTypeOK /\ SendTypeOK /\ ReceiveTypeOK
    /\ TypeOK' <=> QueueTypeOK' /\ SendTypeOK' /\ ReceiveTypeOK'
  BY DEF TypeOK, QueueTypeOK, SendTypeOK, ReceiveTypeOK

\* Sending a fragment of e keeps the invariant's parts about packets.
LEMMA SendFragmentInv ==
    ASSUME Inv, NEW e, NEW start,
           MaySend(e), start \in 0..e.length,
           SendFragment(e, start), unsentBuffer' = e,
           Logged(e)', \A m : Logged(m) => Logged(m)',
           \A i \in DOMAIN queue' : /\ e.id < queue'[i].id
                                    /\ \A p \in sent : p.payload.id < queue'[i].id
    PROVE  SendTypeOK' /\ BufferInv' /\ PacketInv' /\ OrderInv'
  <1> DEFINE n == FragmentLength(start, e.length)
             d == Datagram(e, TRUE, start, n)
  <1>1. /\ d \in Packet
        /\ start + n \in 0..e.length
        /\ e.length \in 1..MAX_MSGLEN
        /\ start \in Nat /\ outgoingSequence \in Nat
    <2>1. e \in Encoded /\ TypeOK
      BY DEF MaySend, Inv
    <2>2. e.length \in 1..MAX_MSGLEN
      BY <2>1, LengthAssumption DEF Encoded
    <2>3. start \in Nat /\ outgoingSequence \in Nat
      BY <2>1, <2>2 DEF TypeOK
    <2>4. d \in Packet /\ start + n \in 0..e.length
      BY <2>1, PieceType
    <2> QED
      BY <2>2, <2>3, <2>4
  <1>2. /\ d.sequence = outgoingSequence /\ d.payload = e /\ d.start = start
        /\ d.length = n /\ d.fragmented = TRUE
    BY DEF Datagram
  <1>3. sent' = sent \cup {d} /\ unsentFragmentStart' = start + n
    BY DEF SendFragment
  <1>4. \/ outgoingSequence' = outgoingSequence + 1 /\ unsentFragments' = FALSE
        \/ outgoingSequence' = outgoingSequence /\ unsentFragments' = TRUE
    BY DEF SendFragment
  <1>5. \A p \in sent : p.sequence \in Nat /\ p.sequence <= outgoingSequence
    BY DEF Inv, TypeOK, Packet, PacketInv
  <1> HIDE DEF n, d
  <1>6. SendTypeOK'
    <2>1. sent \subseteq Packet /\ e \in Encoded
      BY DEF Inv, TypeOK, MaySend
    <2>2. start + n \in Nat
      BY <1>1
    <2>3. outgoingSequence' \in Nat
      BY <1>1, <1>4
    <2>4. unsentFragments' \in BOOLEAN
      BY <1>4
    <2> QED
      BY <1>1, <1>3, <2>1, <2>2, <2>3, <2>4 DEF SendTypeOK
  <1>7. BufferInv'
    BY <1>1, <1>2, <1>3, <1>4 DEF BufferInv, MaySend
  <1>8. PacketInv'
    <2> SUFFICES ASSUME NEW p \in sent'
                 PROVE  /\ Logged(p.payload)'
                        /\ p.payload.key = p.sequence
                        /\ p.start <= p.payload.length
                        /\ p.length = IF p.fragmented
                                        THEN FragmentLength(p.start, p.payload.length)
                                        ELSE p.payload.length
                        /\ ~p.fragmented => p.start = 0
                        /\ p.sequence <= outgoingSequence'
                        /\ p.sequence = outgoingSequence'
                             => unsentFragments' /\ p.payload = unsentBuffer'
                        /\ \A i \in DOMAIN queue' : p.payload.id < queue'[i].id
      BY DEF PacketInv
    <2>1. CASE p = d
      BY <1>1, <1>2, <1>4, <2>1 DEF MaySend, n
    <2>2. CASE p \in sent
      BY <1>1, <1>4, <1>5, <2>2 DEF MaySend, Inv, PacketInv
    <2> QED
      BY <1>3, <2>1, <2>2
  <1>9. OrderInv'
    BY <1>1, <1>2, <1>3, <1>5 DEF OrderInv, MaySend, Inv
  <1> QED
    BY <1>6, <1>7, <1>8, <1>9

\* So does sending all of e in one packet, when no other is being sent.
LEMMA SendWholeInv ==
    ASSUME Inv, NEW e,
           MaySend(e), ~unsentFragments,
           SendWhole(e),
           Logged(e)', \A m : Logged(m) => Logged(m)',
           \A i \in DOMAIN queue' : /\ e.id < queue'[i].id
                                    /\ \A p \in sent : p.payload.id < queue'[i].id
    PROVE  SendTypeOK' /\ BufferInv' /\ PacketInv' /\ OrderInv'
  <1> DEFINE d == Datagram(e, FALSE, 0, e.length)
  <1>1. /\ d \in Packet
        /\ e.length \in 1..MAX_MSGLEN
        /\ outgoingSequence \in Nat
    <2>1. e \in Encoded /\ TypeOK
      BY DEF MaySend, Inv
    <2>2. e.length \in 1..MAX_MSGLEN
      BY <2>1, LengthAssumption DEF Encoded
    <2>3. 0 \in 0..e.length
      BY <2>2, LengthAssumption
    <2>4. outgoingSequence \in Nat
      BY <2>1 DEF TypeOK
    <2>5. d \in Packet
      BY <2>1, <2>3, PieceType
    <2> QED
      BY <2>2, <2>4, <2>5
  <1>2. /\ d.sequence = outgoingSequence /\ d.payload = e /\ d.start = 0
        /\ d.length = e.length /\ d.fragmented = FALSE
    BY DEF Datagram
  <1>3. /\ sent' = sent \cup {d}
        /\ unsentFragmentStart' = 0
        /\ outgoingSequence' = outgoingSequence + 1
        /\ unsentFragments' = unsentFragments
    BY DEF SendWhole
  <1>5. \A p \in sent : p.sequence \in Nat /\ p.sequence <= outgoingSequence
    BY DEF Inv, TypeOK, Packet, PacketInv
  <1> HIDE DEF d
  <1>6. SendTypeOK'
    BY <1>1, <1>3 DEF SendTypeOK, Inv, TypeOK
  <1>7. BufferInv'
    BY <1>3 DEF BufferInv
  <1>8. PacketInv'
    <2> SUFFICES ASSUME NEW p \in sent'
                 PROVE  /\ Logged(p.payload)'
                        /\ p.payload.key = p.sequence
                        /\ p.start <= p.payload.length
                        /\ p.length = IF p.fragmented
                                        THEN FragmentLength(p.start, p.payload.length)
                                        ELSE p.payload.length
                        /\ ~p.fragmented => p.start = 0
                        /\ p.sequence <= outgoingSequence'
                        /\ p.sequence = outgoingSequence'
                             => unsentFragments' /\ p.payload = unsentBuffer'
                        /\ \A i \in DOMAIN queue' : p.payload.id < queue'[i].id
      BY DEF PacketInv
    <2>1. CASE p = d
      BY <1>1, <1>2, <1>3, <2>1 DEF MaySend
    <2>2. CASE p \in sent
      BY <1>1, <1>3, <1>5, <2>2 DEF MaySend, Inv, PacketInv
    <2> QED
      BY <1>3, <2>1, <2>2
  <1>9. OrderInv'
    BY <1>1, <1>2, <1>3, <1>5 DEF OrderInv, MaySend, Inv
  <1> QED
    BY <1>6, <1>7, <1>8, <1>9

\* Netchan_Transmit is the one or the other.
LEMMA TransmitInv ==
    ASSUME Inv, NEW e,
           MaySend(e), ~unsentFragments,
           Netchan_Transmit(e),
           Logged(e)', \A m : Logged(m) => Logged(m)',
           \A i \in DOMAIN queue' : /\ e.id < queue'[i].id
                                    /\ \A p \in sent : p.payload.id < queue'[i].id
    PROVE  SendTypeOK' /\ BufferInv' /\ PacketInv' /\ OrderInv'
  <1>1. CASE SendWhole(e)
    BY <1>1, SendWholeInv
  <1>2. CASE SendFragment(e, 0) /\ unsentBuffer' = e
    <2>1. e.length \in 1..MAX_MSGLEN
      BY LengthAssumption DEF MaySend, Encoded
    <2>2. 0 \in 0..e.length
      BY <2>1, LengthAssumption
    <2> QED
      BY <1>2, <2>2, SendFragmentInv
  <1> QED
    BY <1>1, <1>2 DEF Netchan_Transmit

\* A step of the sender keeps what the receiver has.
LEMMA ReceiverKept ==
    ASSUME Inv, UNCHANGED receiveVars, sent \subseteq sent'
    PROVE  ReceiveTypeOK' /\ CollectedInv' /\ DeliveredInv'
  <1>0. ReceiveTypeOK'
    BY TypeParts DEF Inv, ReceiveTypeOK, receiveVars
  <1>1. CollectedInv'
    BY DEF Inv, CollectedInv, receiveVars
  <1>2. DeliveredInv'
    BY DEF Inv, DeliveredInv, receiveVars
  <1> QED
    BY <1>0, <1>1, <1>2

\* The ids of the log are its indices, and a longer log holds what it held.
LEMMA LogGrows ==
    ASSUME Inv, NEW n \in Lengths, Len(log) < MaxMessages,
           NEW m, m = [id |-> Len(log) + 1, length |-> n],
           log' = Append(log, m)
    PROVE  /\ log' \in Seq(Message) /\ m \in Message
           /\ LogInv'
           /\ Logged(m)' /\ \A x : Logged(x) => Logged(x)'
           /\ \A x : Logged(x) => x.id < m.id
  <1>1. log \in Seq(Message) /\ Len(log) \in Nat
    BY DEF Inv, TypeOK
  <1>2. m \in Message
    BY <1>1, BoundAssumption DEF Message
  <1>3. log' \in Seq(Message)
    BY <1>1, <1>2
  <1>4. /\ DOMAIN log = 1..Len(log) /\ DOMAIN log' = 1..(Len(log) + 1)
        /\ \A i \in 1..Len(log) : log'[i] = log[i]
        /\ log'[Len(log) + 1] = m
    BY <1>1, <1>2
  <1>5. m.id = Len(log) + 1 /\ m.length = n
    OBVIOUS
  <1>6. LogInv'
    BY <1>1, <1>4, <1>5 DEF Inv, LogInv
  <1>7. Logged(m)' /\ \A x : Logged(x) => Logged(x)' /\ x.id < m.id
    BY <1>1, <1>4, <1>5 DEF Logged
  <1> QED
    BY <1>2, <1>3, <1>6, <1>7

-----------------------------------------------------------------------------
(* The steps, one lemma for each disjunct of Next.                         *)

LEMMA TransmitStep ==
    ASSUME Inv, NEW n \in Lengths, SV_Netchan_Transmit(n)
    PROVE  Inv'
  <1> PICK m : m = [id |-> Len(log) + 1, length |-> n]
    OBVIOUS
  <1>1. /\ log' \in Seq(Message) /\ m \in Message
        /\ LogInv'
        /\ Logged(m)' /\ \A x : Logged(x) => Logged(x)'
        /\ \A x : Logged(x) => x.id < m.id
    BY LogGrows DEF SV_Netchan_Transmit
  <1>2. m.id = Len(log) + 1 /\ m.length = n
    OBVIOUS
  <1>3. UNCHANGED receiveVars
    BY DEF SV_Netchan_Transmit
  <1>4. \/ /\ Pending
           /\ Enqueue(m)
        \/ /\ ~Pending
           /\ Netchan_Transmit(SV_Netchan_Encode(m))
           /\ UNCHANGED <<zombie, queue>>
    BY DEF SV_Netchan_Transmit
  <1>5. /\ queue \in Seq(Message) /\ zombie \in BOOLEAN
        /\ Len(queue) \in Nat /\ <<>> \in Seq(Message)
    BY TypeParts DEF Inv, QueueTypeOK
  <1>6. CASE Enqueue(m)
    <2>1. UNCHANGED sendVars
      BY <1>6 DEF Enqueue
    <2>2. SendTypeOK' /\ OrderInv'
      BY <2>1, TypeParts DEF Inv, SendTypeOK, OrderInv, sendVars
    <2>3. ReceiveTypeOK' /\ CollectedInv' /\ DeliveredInv'
      BY <1>3, <2>1, ReceiverKept DEF sendVars
    <2>4. /\ queue' \in Seq(Message) /\ zombie' \in BOOLEAN
          /\ \A i \in DOMAIN queue' :
                \/ i \in DOMAIN queue /\ queue'[i] = queue[i]
                \/ i = Len(queue) + 1 /\ queue'[i] = m
      <3>1. m \in Message
        BY <1>1
      <3>2. CASE queue' = Append(queue, m) /\ zombie' = zombie
        BY <1>5, <3>1, <3>2
      <3>3. CASE queue' = queue /\ zombie' = TRUE
        BY <1>5, <3>3
      <3>4. CASE queue' = <<>> /\ zombie' = TRUE
        BY <1>5, <3>4
      <3> QED
        BY <1>6, <3>2, <3>3, <3>4 DEF Enqueue, SV_DropClient
    <2>5. \A i \in DOMAIN queue : i \in Nat /\ i < Len(queue) + 1
      BY <1>5
    <2>6. QueueTypeOK'
      BY <1>1, <2>4 DEF QueueTypeOK
    <2>7. QueueInv'
      <3>1. (\A i \in DOMAIN queue : Logged(queue[i]))'
        BY <1>1, <2>4 DEF Inv, QueueInv
      <3>2. \A i, j \in DOMAIN queue' : i < j => queue'[i].id < queue'[j].id
        BY <1>1, <1>5, <2>4, <2>5 DEF Inv, QueueInv
      <3> QED
        BY <3>1, <3>2 DEF QueueInv
    <2>8. BufferInv'
      BY <1>1, <2>1, <2>4 DEF Inv, BufferInv, sendVars
    <2>9. PacketInv'
      BY <1>1, <2>1, <2>4 DEF Inv, PacketInv, sendVars
    <2> QED
      BY <1>1, <2>2, <2>3, <2>6, <2>7, <2>8, <2>9, TypeParts DEF Inv
  <1>7. CASE /\ ~Pending
             /\ Netchan_Transmit(SV_Netchan_Encode(m))
             /\ UNCHANGED <<zombie, queue>>
    <2> PICK e : e = SV_Netchan_Encode(m)
      OBVIOUS
    <2>1. /\ e \in Encoded /\ e.key = outgoingSequence
          /\ e.id = m.id /\ e.length = m.length
      BY <1>1, TypeParts DEF SV_Netchan_Encode, Encoded, Message, Inv, SendTypeOK
    <2>2. ~unsentFragments /\ queue = <<>> /\ queue' = <<>>
      BY <1>7 DEF Pending
    <2>3. \A p \in sent : p.sequence # outgoingSequence /\ p.payload.id < m.id
      BY <1>1, <2>2 DEF Inv, PacketInv
    <2>4. MaySend(e)
      BY <2>1, <2>3 DEF MaySend
    <2>5. Logged(e)'
      BY <1>1, <2>1 DEF Logged
    <2>6. SendTypeOK' /\ BufferInv' /\ PacketInv' /\ OrderInv'
      BY <1>1, <1>7, <2>2, <2>4, <2>5, TransmitInv
    <2>7. sent \subseteq sent'
      BY <1>7 DEF Netchan_Transmit, SendFragment, SendWhole
    <2>8. ReceiveTypeOK' /\ CollectedInv' /\ DeliveredInv'
      BY <1>3, <2>7, ReceiverKept
    <2>9. QueueInv'
      BY <2>2 DEF QueueInv
    <2>10. QueueTypeOK'
      BY <1>1, <1>5, <1>7 DEF QueueTypeOK
    <2> QED
      BY <1>1, <2>6, <2>8, <2>9, <2>10, TypeParts DEF Inv
  <1> QED
    BY <1>4, <1>6, <1>7

LEMMA NextFragmentStep ==
    ASSUME Inv, SV_Netchan_TransmitNextFragment
    PROVE  Inv'
  <1>1. UNCHANGED <<log, zombie>> /\ UNCHANGED receiveVars
    BY DEF SV_Netchan_TransmitNextFragment
  <1>2. /\ queue \in Seq(Message) /\ zombie \in BOOLEAN /\ log \in Seq(Message)
    BY TypeParts DEF Inv, QueueTypeOK
  <1>3. LogInv' /\ \A x : Logged(x) => Logged(x)'
    BY <1>1 DEF Inv, LogInv, Logged
  <1>4. CASE /\ unsentFragments
             /\ Netchan_TransmitNextFragment
             /\ UNCHANGED queue
    <2> PICK e : e = unsentBuffer
      OBVIOUS
    <2> PICK start : start = unsentFragmentStart
      OBVIOUS
    <2>1. SendFragment(e, start) /\ unsentBuffer' = e
      BY <1>4 DEF Netchan_TransmitNextFragment
    <2>2. /\ e \in Encoded /\ start \in Nat
          /\ e.key = outgoingSequence /\ start <= e.length
          /\ Logged(e)
          /\ \A i \in DOMAIN queue : e.id < queue[i].id
      BY <1>4, TypeParts DEF Inv, SendTypeOK, BufferInv
    <2>3. start \in 0..e.length
      <3>1. e.length \in 1..MAX_MSGLEN
        BY <2>2, LengthAssumption DEF Encoded
      <3> QED
        BY <2>2, <3>1, LengthAssumption
    <2>4. MaySend(e)
      BY <1>4, <2>2 DEF MaySend, Inv, BufferInv, PacketInv
    <2>5. \A i \in DOMAIN queue' : /\ e.id < queue'[i].id
                                   /\ \A p \in sent : p.payload.id < queue'[i].id
      BY <1>4, <2>2 DEF Inv, PacketInv
    <2>6. SendTypeOK' /\ BufferInv' /\ PacketInv' /\ OrderInv'
      BY <1>3, <2>1, <2>2, <2>3, <2>4, <2>5, SendFragmentInv
    <2>7. ReceiveTypeOK' /\ CollectedInv' /\ DeliveredInv'
      BY <1>1, <2>1, ReceiverKept DEF SendFragment
    <2>8. QueueTypeOK' /\ QueueInv'
      BY <1>1, <1>2, <1>3, <1>4 DEF Inv, QueueTypeOK, QueueInv
    <2> QED
      BY <1>3, <2>6, <2>7, <2>8, TypeParts DEF Inv
  <1>5. CASE QueueWaits /\ SV_Netchan_TransmitNextInQueue
    <2> PICK e : e = SV_Netchan_Encode(Head(queue))
      OBVIOUS
    <2>1. /\ ~unsentFragments /\ queue # <<>>
          /\ Netchan_Transmit(e)
          /\ queue' = Tail(queue)
      BY <1>5 DEF QueueWaits, SV_Netchan_TransmitNextInQueue
    <2>2. /\ 1 \in DOMAIN queue /\ Head(queue) = queue[1] /\ queue[1] \in Message
          /\ queue' \in Seq(Message)
          /\ \A i \in DOMAIN queue' : /\ i + 1 \in DOMAIN queue /\ i \in Nat /\ i > 0
                                      /\ queue'[i] = queue[i + 1]
      BY <1>2, <2>1
    <2>3. /\ e \in Encoded /\ e.key = outgoingSequence
          /\ e.id = queue[1].id /\ e.length = queue[1].length
      BY <2>2, TypeParts DEF SV_Netchan_Encode, Encoded, Message, Inv, SendTypeOK
    <2>4. MaySend(e)
      BY <2>1, <2>2, <2>3 DEF MaySend, Inv, PacketInv
    <2>5. Logged(e)
      BY <2>2, <2>3 DEF Inv, QueueInv, Logged
    <2>6. \A i \in DOMAIN queue' : /\ e.id < queue'[i].id
                                   /\ \A p \in sent : p.payload.id < queue'[i].id
      BY <2>2, <2>3 DEF Inv, QueueInv, PacketInv
    <2>7. SendTypeOK' /\ BufferInv' /\ PacketInv' /\ OrderInv'
      BY <1>3, <2>1, <2>4, <2>5, <2>6, TransmitInv
    <2>8. sent \subseteq sent'
      BY <2>1 DEF Netchan_Transmit, SendFragment, SendWhole
    <2>9. ReceiveTypeOK' /\ CollectedInv' /\ DeliveredInv'
      BY <1>1, <2>8, ReceiverKept
    <2>10. QueueTypeOK'
      BY <1>1, <1>2, <2>2 DEF QueueTypeOK
    <2>11. QueueInv'
      <3>1. (\A i \in DOMAIN queue : Logged(queue[i]))'
        BY <1>3, <2>2 DEF Inv, QueueInv
      <3>2. \A i, j \in DOMAIN queue' : i < j => queue'[i].id < queue'[j].id
        BY <2>2 DEF Inv, QueueInv
      <3> QED
        BY <3>1, <3>2 DEF QueueInv
    <2> QED
      BY <1>3, <2>7, <2>9, <2>10, <2>11, TypeParts DEF Inv
  <1> QED
    BY <1>4, <1>5 DEF SV_Netchan_TransmitNextFragment

\* What is kept of the buffer is the start of the message of p.
LEMMA KeptBytes ==
    ASSUME Inv, NEW p \in sent
    PROVE  /\ Kept(p) \in Seq(Byte) /\ Len(Kept(p)) \in Nat
           /\ Kept(p) = Bytes(p.payload, 0, Len(Kept(p)))
  <1>1. fragmentBuffer \in Seq(Byte) /\ \A S : <<>> \in Seq(S)
    BY TypeParts DEF Inv, ReceiveTypeOK
  <1>2. CASE Kept(p) = <<>>
    <2>1. Len(Kept(p)) = 0
      BY <1>2
    <2> QED
      BY <1>1, <1>2, <2>1, BytesEmpty
  <1>3. CASE Kept(p) # <<>>
    <2>1. Kept(p) = fragmentBuffer /\ p.sequence = fragmentSequence
      BY <1>3 DEF Kept
    <2>2. PICK q \in sent :
            /\ q.sequence = fragmentSequence
            /\ fragmentBuffer = Bytes(q.payload, 0, Len(fragmentBuffer))
      BY <1>3, <2>1 DEF Inv, CollectedInv
    <2>3. q.payload = p.payload
      BY <2>1, <2>2 DEF Inv, OrderInv
    <2>4. Len(fragmentBuffer) \in Nat
      BY <1>1
    <2> QED
      BY <1>1, <2>1, <2>2, <2>3, <2>4
  <1> QED
    BY <1>2, <1>3

\* A fragment in its place continues the message, and a short one ends it.
LEMMA InPlaceBytes ==
    ASSUME Inv, NEW p \in sent, p.fragmented, InPlace(p)
    PROVE  /\ p.start + p.length \in Nat
           /\ Kept(p) \o Data(p) = Bytes(p.payload, 0, p.start + p.length)
           /\ p.length # FRAGMENT_SIZE => p.start + p.length = p.payload.length
  <1>1. /\ p.payload \in Encoded /\ p.start \in Nat /\ p.length \in Nat
        /\ p.start = Len(Kept(p))
    BY LengthAssumption, TypeParts DEF Inv, SendTypeOK, Packet, InPlace
  <1>2. Kept(p) = Bytes(p.payload, 0, p.start)
    BY <1>1, KeptBytes
  <1>3. Kept(p) \o Data(p) = Bytes(p.payload, 0, p.start + p.length)
    BY <1>1, <1>2, BytesConcat DEF Data
  <1>4. p.length # FRAGMENT_SIZE => p.start + p.length = p.payload.length
    <2>1. /\ p.length = FragmentLength(p.start, p.payload.length)
          /\ p.start <= p.payload.length
      BY DEF Inv, PacketInv
    <2>2. p.payload.length \in 1..MAX_MSGLEN
      BY <1>1, LengthAssumption DEF Encoded
    <2>3. p.start \in 0..p.payload.length
      BY <1>1, <2>1, <2>2, LengthAssumption
    <2> QED
      BY <2>1, <2>2, <2>3, FragmentWithin
  <1> QED
    BY <1>1, <1>3, <1>4

\* Delivering the message of an accepted packet p.
LEMMA DeliverInv ==
    ASSUME Inv, NEW p \in sent, Accept(p), UNCHANGED sent,
           Deliver(p, Bytes(p.payload, 0, p.payload.length))
    PROVE  /\ incomingSequence' \in Nat
           /\ delivered' \in Seq(Delivery)
           /\ DeliveredInv'
  <1> PICK d : d = [sequence |-> p.sequence,
                    data |-> Bytes(p.payload, 0, p.payload.length)]
    OBVIOUS
  <1>1. /\ p.payload \in Encoded /\ p.sequence \in Nat
        /\ incomingSequence \in Nat /\ incomingSequence < p.sequence
        /\ delivered \in Seq(Delivery)
    BY TypeParts DEF Inv, SendTypeOK, ReceiveTypeOK, Packet, Accept
  <1>2. p.payload.length \in 1..MAX_MSGLEN
    BY <1>1, LengthAssumption DEF Encoded
  <1>3. p.payload.length \in Nat
    BY <1>2, LengthAssumption
  <1>4. Bytes(p.payload, 0, p.payload.length) \in Seq(Byte)
    BY <1>1, <1>3, BytesLen
  <1>5. d \in Delivery
    BY <1>1, <1>4 DEF Delivery
  <1>6. incomingSequence' = p.sequence /\ delivered' = Append(delivered, d)
    BY DEF Deliver
  <1>7. /\ delivered' \in Seq(Delivery)
        /\ Len(delivered) \in Nat
        /\ DOMAIN delivered = 1..Len(delivered)
        /\ DOMAIN delivered' = 1..(Len(delivered) + 1)
        /\ \A i \in 1..Len(delivered) : delivered'[i] = delivered[i]
        /\ delivered'[Len(delivered) + 1] = d
    BY <1>1, <1>5, <1>6
  <1>8. \A i \in DOMAIN delivered :
           /\ delivered[i].sequence \in Nat
           /\ delivered[i].sequence < p.sequence
    <2> TAKE i \in DOMAIN delivered
    <2>1. delivered[i] \in Delivery
      BY <1>1
    <2>2. delivered[i].sequence <= incomingSequence
      BY DEF Inv, DeliveredInv
    <2>3. delivered[i].sequence \in Nat
      BY <2>1 DEF Delivery
    <2> QED
      BY <1>1, <2>2, <2>3
  <1>9. \A i \in DOMAIN delivered' :
          /\ delivered'[i].sequence <= incomingSequence'
          /\ \E q \in sent' :
                /\ q.sequence = delivered'[i].sequence
                /\ delivered'[i].data = Bytes(q.payload, 0, q.payload.length)
    <2> TAKE i \in DOMAIN delivered'
    <2>1. CASE i \in DOMAIN delivered
      BY <1>1, <1>6, <1>7, <1>8, <2>1 DEF Inv, DeliveredInv
    <2>2. CASE i = Len(delivered) + 1
      BY <1>1, <1>6, <1>7, <2>2
    <2> QED
      BY <1>7, <2>1, <2>2
  <1>10. \A i, j \in DOMAIN delivered' :
           i < j => delivered'[i].sequence < delivered'[j].sequence
    <2> SUFFICES ASSUME NEW i \in DOMAIN delivered', NEW j \in DOMAIN delivered',
                        i < j
                 PROVE  delivered'[i].sequence < delivered'[j].sequence
      OBVIOUS
    <2>1. i \in DOMAIN delivered
      BY <1>7
    <2>2. CASE j \in DOMAIN delivered
      BY <1>7, <2>1, <2>2 DEF Inv, DeliveredInv
    <2>3. CASE j = Len(delivered) + 1
      BY <1>7, <1>8, <2>1, <2>3
    <2> QED
      BY <1>7, <2>2, <2>3
  <1>11. DeliveredInv'
    BY <1>9, <1>10 DEF DeliveredInv
  <1> QED
    BY <1>1, <1>6, <1>7, <1>11

LEMMA ProcessStep ==
    ASSUME Inv, NEW p \in sent, Netchan_Process(p)
    PROVE  Inv'
  <1>1. /\ Accept(p)
        /\ UNCHANGED <<log, zombie, queue>> /\ UNCHANGED sendVars
    BY DEF Netchan_Process
  <1>2. QueueTypeOK' /\ SendTypeOK'
    BY <1>1, TypeParts DEF Inv, QueueTypeOK, SendTypeOK, sendVars
  <1>3. LogInv' /\ QueueInv' /\ \A x : Logged(x) => Logged(x)'
    BY <1>1 DEF Inv, LogInv, QueueInv, Logged
  <1>4. BufferInv' /\ PacketInv' /\ OrderInv'
    BY <1>1, <1>3 DEF Inv, BufferInv, PacketInv, OrderInv, sendVars
  <1>5. /\ p.sequence \in Nat /\ fragmentBuffer \in Seq(Byte)
        /\ incomingSequence \in Nat /\ fragmentSequence \in Nat
        /\ delivered \in Seq(Delivery)
        /\ <<>> \in Seq(Byte)
    BY TypeParts DEF Inv, SendTypeOK, ReceiveTypeOK, Packet
  <1>6. sent' = sent
    BY <1>1 DEF sendVars
  <1>7. ReceiveTypeOK' /\ CollectedInv' /\ DeliveredInv'
    <2>1. CASE ProcessWhole(p)
      <3>1. Data(p) = Bytes(p.payload, 0, p.payload.length)
        BY <2>1 DEF ProcessWhole, Data, Inv, PacketInv
      <3>2. Deliver(p, Bytes(p.payload, 0, p.payload.length))
        BY <2>1, <3>1 DEF ProcessWhole
      <3>3. /\ incomingSequence' \in Nat
            /\ delivered' \in Seq(Delivery)
            /\ DeliveredInv'
        BY <1>1, <1>6, <3>2, DeliverInv
      <3>4. UNCHANGED <<fragmentSequence, fragmentBuffer>>
        BY <2>1 DEF ProcessWhole
      <3>5. CollectedInv'
        BY <1>6, <3>4 DEF Inv, CollectedInv
      <3> QED
        BY <1>5, <3>3, <3>4, <3>5 DEF ReceiveTypeOK
    <2>2. CASE ProcessMisplacedFragment(p)
      <3>1. /\ fragmentSequence' = p.sequence /\ fragmentBuffer' = Kept(p)
            /\ UNCHANGED <<incomingSequence, delivered>>
        BY <2>2 DEF ProcessMisplacedFragment
      <3>2. CollectedInv'
        BY <1>6, <3>1, KeptBytes DEF CollectedInv
      <3>3. DeliveredInv'
        BY <1>6, <3>1 DEF Inv, DeliveredInv
      <3> QED
        BY <1>5, <3>1, <3>2, <3>3, KeptBytes DEF ReceiveTypeOK
    <2>3. CASE ProcessFullFragment(p)
      <3>1. /\ p.fragmented /\ InPlace(p)
            /\ fragmentSequence' = p.sequence
            /\ fragmentBuffer' = Kept(p) \o Data(p)
            /\ UNCHANGED <<incomingSequence, delivered>>
        BY <2>3 DEF ProcessFullFragment
      <3>2. /\ p.start + p.length \in Nat
            /\ fragmentBuffer' = Bytes(p.payload, 0, p.start + p.length)
        BY <3>1, InPlaceBytes
      <3>3. /\ fragmentBuffer' \in Seq(Byte)
            /\ Len(fragmentBuffer') = p.start + p.length
        <4>1. p.payload \in Encoded
          BY TypeParts DEF Inv, SendTypeOK, Packet
        <4> QED
          BY <3>2, <4>1, BytesLen
      <3>4. CollectedInv'
        BY <1>6, <3>1, <3>2, <3>3 DEF CollectedInv
      <3>5. DeliveredInv'
        BY <1>6, <3>1 DEF Inv, DeliveredInv
      <3> QED
        BY <1>5, <3>1, <3>3, <3>4, <3>5 DEF ReceiveTypeOK
    <2>4. CASE ProcessLastFragment(p)
      <3>1. /\ p.fragmented /\ InPlace(p) /\ p.length # FRAGMENT_SIZE
            /\ fragmentSequence' = p.sequence
            /\ fragmentBuffer' = <<>>
            /\ Deliver(p, Kept(p) \o Data(p))
        BY <2>4 DEF ProcessLastFragment
      <3>2. Kept(p) \o Data(p) = Bytes(p.payload, 0, p.payload.length)
        BY <3>1, InPlaceBytes
      <3>3. Deliver(p, Bytes(p.payload, 0, p.payload.length))
        BY <3>1, <3>2
      <3>4. /\ incomingSequence' \in Nat
            /\ delivered' \in Seq(Delivery)
            /\ DeliveredInv'
        BY <1>1, <1>6, <3>3, DeliverInv
      <3>5. CollectedInv'
        BY <3>1 DEF CollectedInv
      <3> QED
        BY <1>5, <3>1, <3>4, <3>5 DEF ReceiveTypeOK
    <2> QED
      BY <2>1, <2>2, <2>3, <2>4 DEF Netchan_Process
  <1> QED
    BY <1>2, <1>3, <1>4, <1>7, TypeParts DEF Inv

-----------------------------------------------------------------------------
(* The invariant, and what follows from it.                                *)

THEOREM InvInductive == Inv /\ [Next]_vars => Inv'
  <1> SUFFICES ASSUME Inv, [Next]_vars PROVE Inv'
    OBVIOUS
  <1>1. CASE \E n \in Lengths : SV_Netchan_Transmit(n)
    BY <1>1, TransmitStep
  <1>2. CASE SV_Netchan_TransmitNextFragment
    BY <1>2, NextFragmentStep
  <1>3. CASE \E p \in sent : Netchan_Process(p)
    BY <1>3, ProcessStep
  <1>4. CASE UNCHANGED vars
    <2>1. TypeOK'
      BY <1>4 DEF Inv, TypeOK, vars, sendVars, receiveVars
    <2>2. LogInv' /\ QueueInv' /\ BufferInv' /\ PacketInv' /\ OrderInv'
      BY <1>4 DEF Inv, LogInv, QueueInv, BufferInv, PacketInv, OrderInv, Logged,
                  vars, sendVars
    <2>3. CollectedInv' /\ DeliveredInv'
      BY <1>4 DEF Inv, CollectedInv, DeliveredInv, vars, sendVars, receiveVars
    <2> QED
      BY <2>1, <2>2, <2>3 DEF Inv
  <1> QED
    BY <1>1, <1>2, <1>3, <1>4 DEF Next

THEOREM Invariance == Spec => []Inv
  BY InitInv, InvInductive, PTL DEF Spec

\* Every variable keeps its type: no fragment starts beyond its message, none
\* is longer than the buffer it is copied into (Netchan_TransmitNextFragment).
THEOREM TypeCorrect == Spec => []TypeOK
  <1>1. Inv => TypeOK
    BY DEF Inv
  <1> QED
    BY <1>1, Invariance, PTL

\* For every fragment size and message length, a message handed to the program
\* is one submitted, whole and decodable, whatever becomes of the packets
\* (Netchan_Process, SV_Netchan_Decode).
THEOREM MessagesAreWhole == Spec => []WholeMessages
  <1>1. Inv => WholeMessages
    <2> SUFFICES ASSUME Inv, NEW i \in DOMAIN delivered
                 PROVE  \E j \in DOMAIN log :
                          delivered[i].data =
                            Bytes([id |-> log[j].id,
                                   key |-> delivered[i].sequence], 0, log[j].length)
      BY DEF WholeMessages
    <2>1. PICK p \in sent : /\ p.sequence = delivered[i].sequence
                            /\ delivered[i].data
                                 = Bytes(p.payload, 0, p.payload.length)
      BY DEF Inv, DeliveredInv
    <2>2. /\ p.payload.id \in DOMAIN log
          /\ log[p.payload.id].length = p.payload.length
          /\ p.payload.key = p.sequence
      BY DEF Inv, PacketInv, Logged
    <2>3. log[p.payload.id].id = p.payload.id
      BY <2>2 DEF Inv, LogInv
    <2> QED
      BY <2>1, <2>2, <2>3 DEF Bytes
  <1> QED
    BY <1>1, Invariance, PTL

\* For every cap, at most one message more than it waits for a client: the
\* test of SV_Netchan_Transmit counts before it adds, and nothing else adds.
THEOREM QueueIsBounded == Spec => []QueueBounded
  <1>1. Init => QueueBounded
    BY BoundAssumption DEF Init, QueueBounded
  <1>2. Inv /\ QueueBounded /\ [Next]_vars => QueueBounded'
    <2> SUFFICES ASSUME Inv, QueueBounded, [Next]_vars PROVE QueueBounded'
      OBVIOUS
    <2>1. queue \in Seq(Message) /\ Len(queue) \in Nat
      BY TypeParts DEF Inv, QueueTypeOK
    <2>2. ASSUME NEW m, Enqueue(m) PROVE QueueBounded'
      <3>1. CASE ~QueueIsFull /\ queue' = Append(queue, m)
        BY <2>1, <3>1, BoundAssumption DEF QueueIsFull, QueueBounded
      <3>2. CASE queue' = queue
        BY <3>2 DEF QueueBounded
      <3>3. CASE queue' = <<>>
        BY <3>3, BoundAssumption DEF QueueBounded
      <3> QED
        BY <2>2, <3>1, <3>2, <3>3 DEF Enqueue, SV_DropClient
    <2>3. ASSUME NEW n \in Lengths, SV_Netchan_Transmit(n) PROVE QueueBounded'
      BY <2>2, <2>3 DEF SV_Netchan_Transmit, QueueBounded
    <2>4. CASE SV_Netchan_TransmitNextFragment
      <3>1. CASE UNCHANGED queue
        BY <3>1 DEF QueueBounded
      <3>2. CASE queue # <<>> /\ queue' = Tail(queue)
        BY <2>1, <3>2, BoundAssumption DEF QueueBounded
      <3> QED
        BY <2>4, <3>1, <3>2 DEF SV_Netchan_TransmitNextFragment, QueueWaits,
                                SV_Netchan_TransmitNextInQueue
    <2>5. CASE UNCHANGED queue
      BY <2>5 DEF QueueBounded
    <2> QED
      BY <2>3, <2>4, <2>5 DEF Next, Netchan_Process, vars
  <1> QED
    BY <1>1, <1>2, Invariance, PTL DEF Spec

-----------------------------------------------------------------------------
(* What is sent of a message                                               *)

\* The full fragments sent with sequence s come to offset n.
Reached(s, n) ==
    \E q \in sent : q.sequence = s /\ q.length = FRAGMENT_SIZE /\ n = q.start + q.length

\* Every packet begins a message or goes on where a full fragment ended; what is being sent
\* has come as far as the next fragment begins; and the sequences before the current one
\* have their last packet.
SentInv ==
    /\ \A p \in sent : p.start = 0 \/ Reached(p.sequence, p.start)
    /\ unsentFragments => Reached(outgoingSequence, unsentFragmentStart)
    /\ \A s \in 1..(outgoingSequence - 1) :
          \E p \in sent : p.sequence = s /\ (p.fragmented => p.length # FRAGMENT_SIZE)

\* More packets reach no less far.
LEMMA ReachedStays ==
    ASSUME sent \subseteq sent', NEW s, NEW n, Reached(s, n)
    PROVE  Reached(s, n)'
  BY DEF Reached

LEMMA FragmentGoesOn ==
    ASSUME TypeOK, SentInv, NEW e \in Encoded, NEW start \in 0..e.length,
           start = 0 \/ Reached(outgoingSequence, start), SendFragment(e, start)
    PROVE  SentInv'
  <1> DEFINE n == FragmentLength(start, e.length)
             d == Datagram(e, TRUE, start, n)
  <1>1. /\ outgoingSequence \in Nat /\ e.length \in 1..MAX_MSGLEN /\ start \in Nat
    <2>1. e.length \in 1..MAX_MSGLEN
      BY LengthAssumption DEF Encoded
    <2> QED
      BY <2>1 DEF TypeOK
  <1>2. n \in Nat /\ start + n \in Nat /\ (n # FRAGMENT_SIZE => start + n = e.length)
    BY <1>1, FragmentWithin
  <1>3. d.sequence = outgoingSequence /\ d.start = start /\ d.length = n
    BY Zenon DEF Datagram
  <1>4. sent' = sent \cup {d} /\ unsentFragmentStart' = start + n
    BY DEF SendFragment
  <1>5. \/ /\ n # FRAGMENT_SIZE /\ ~unsentFragments'
           /\ outgoingSequence' = outgoingSequence + 1
        \/ /\ n = FRAGMENT_SIZE /\ unsentFragments'
           /\ outgoingSequence' = outgoingSequence
    BY <1>2 DEF SendFragment, EndsMessage
  <1> HIDE DEF n, d
  <1>6. d \in sent' /\ sent \subseteq sent'
    BY <1>4
  <1>7. ASSUME NEW p \in sent' PROVE p.start = 0 \/ Reached(p.sequence, p.start)'
    <2>1. CASE p \in sent
      BY <1>6, <2>1, ReachedStays DEF SentInv
    <2>2. CASE p = d
      BY <1>3, <1>6, <2>2, ReachedStays
    <2> QED
      BY <1>4, <2>1, <2>2
  <1>8. unsentFragments' => Reached(outgoingSequence, unsentFragmentStart)'
    BY <1>3, <1>4, <1>5, <1>6 DEF Reached
  <1>9. ASSUME NEW s \in 1..(outgoingSequence' - 1)
        PROVE  \E p \in sent' : p.sequence = s /\ (p.fragmented => p.length # FRAGMENT_SIZE)
    <2>1. CASE s = outgoingSequence
      BY <1>1, <1>3, <1>5, <1>6, <1>9, <2>1
    <2>2. CASE s # outgoingSequence
      <3>1. s \in 1..(outgoingSequence - 1)
        BY <1>1, <1>5, <1>9, <2>2
      <3> QED
        BY <1>6, <3>1 DEF SentInv
    <2> QED
      BY <2>1, <2>2
  <1> QED
    BY <1>7, <1>8, <1>9 DEF SentInv

LEMMA WholeIsAll ==
    ASSUME TypeOK, SentInv, NEW e \in Encoded, ~unsentFragments, SendWhole(e)
    PROVE  SentInv'
  <1> DEFINE d == Datagram(e, FALSE, 0, e.length)
  <1>1. outgoingSequence \in Nat
    BY DEF TypeOK
  <1>2. d.sequence = outgoingSequence /\ ~d.fragmented /\ d.start = 0
    BY Zenon DEF Datagram
  <1>3. /\ sent' = sent \cup {d} /\ outgoingSequence' = outgoingSequence + 1
        /\ ~unsentFragments'
    BY DEF SendWhole
  <1> HIDE DEF d
  <1>4. d \in sent' /\ sent \subseteq sent'
    BY <1>3
  <1>5. ASSUME NEW p \in sent' PROVE p.start = 0 \/ Reached(p.sequence, p.start)'
    BY <1>2, <1>3, <1>4, ReachedStays DEF SentInv
  <1>6. ASSUME NEW s \in 1..(outgoingSequence' - 1)
        PROVE  \E p \in sent' : p.sequence = s /\ (p.fragmented => p.length # FRAGMENT_SIZE)
    <2>1. CASE s = outgoingSequence
      BY <1>2, <1>4, <2>1
    <2>2. CASE s # outgoingSequence
      <3>1. s \in 1..(outgoingSequence - 1)
        BY <1>1, <1>3, <1>6, <2>2
      <3> QED
        BY <1>4, <3>1 DEF SentInv
    <2> QED
      BY <2>1, <2>2
  <1> QED
    BY <1>3, <1>5, <1>6 DEF SentInv

LEMMA TransmitSends ==
    ASSUME TypeOK, SentInv, ~unsentFragments, NEW m \in Message,
           Netchan_Transmit(SV_Netchan_Encode(m))
    PROVE  SentInv'
  <1> DEFINE e == SV_Netchan_Encode(m)
  <1>1. e \in Encoded
    BY DEF TypeOK, Message, Encoded, SV_Netchan_Encode
  <1> HIDE DEF e
  <1>2. 0 \in 0..e.length
    <2>1. e.length \in 1..MAX_MSGLEN
      BY <1>1, LengthAssumption DEF Encoded
    <2> QED
      BY <2>1
  <1>3. SendFragment(e, 0) \/ SendWhole(e)
    BY DEF Netchan_Transmit, e
  <1> QED
    BY <1>1, <1>2, <1>3, FragmentGoesOn, WholeIsAll

LEMMA SentInductive ==
    ASSUME Inv, SentInv, [Next]_vars
    PROVE  SentInv'
  <1>1. TypeOK /\ BufferInv
    BY DEF Inv
  <1>2. ASSUME UNCHANGED sendVars PROVE SentInv'
    BY <1>2 DEF sendVars, SentInv, Reached
  <1>3. ASSUME NEW n \in Lengths, SV_Netchan_Transmit(n) PROVE SentInv'
    <2> DEFINE m == [id |-> Len(log) + 1, length |-> n]
    <2>1. m \in Message
      BY <1>1, <1>3, BoundAssumption DEF TypeOK, Message, SV_Netchan_Transmit
    <2>2. CASE Pending
      BY <1>2, <1>3, <2>2 DEF SV_Netchan_Transmit, Enqueue
    <2>3. CASE ~Pending
      BY <1>1, <1>3, <2>1, <2>3, TransmitSends DEF SV_Netchan_Transmit, Pending
    <2> QED
      BY <2>2, <2>3
  <1>4. CASE SV_Netchan_TransmitNextFragment
    <2>1. CASE unsentFragments /\ Netchan_TransmitNextFragment
      <3>1. unsentBuffer \in Encoded /\ unsentFragmentStart \in 0..unsentBuffer.length
        BY <1>1, <2>1, LengthAssumption DEF TypeOK, BufferInv, Encoded
      <3>2. Reached(outgoingSequence, unsentFragmentStart)
        BY <2>1 DEF SentInv
      <3>3. SendFragment(unsentBuffer, unsentFragmentStart)
        BY <2>1 DEF Netchan_TransmitNextFragment
      <3> QED
        BY <1>1, <3>1, <3>2, <3>3, FragmentGoesOn
    <2>2. CASE QueueWaits /\ SV_Netchan_TransmitNextInQueue
      <3>1. Head(queue) \in Message
        BY <1>1, <2>2 DEF TypeOK, QueueWaits
      <3> QED
        BY <1>1, <2>2, <3>1, TransmitSends DEF QueueWaits, SV_Netchan_TransmitNextInQueue
    <2> QED
      BY <1>4, <2>1, <2>2 DEF SV_Netchan_TransmitNextFragment
  <1>5. CASE \E p \in sent : Netchan_Process(p)
    BY <1>2, <1>5 DEF Netchan_Process
  <1>6. CASE UNCHANGED vars
    BY <1>2, <1>6 DEF vars
  <1> QED
    BY <1>3, <1>4, <1>5, <1>6 DEF Next

\* Netchan_Transmit and Netchan_TransmitNextFragment leave no sequence behind that the
\* receiver could not complete: a message of an exact multiple of FRAGMENT_SIZE ends with
\* an empty fragment, for every fragment size.
THEOREM NothingStaysBehind == Spec => []SentInFull
  <1>1. Init => SentInv
    BY DEF Init, SentInv
  <1>2. Inv /\ SentInv /\ [Next]_vars => SentInv'
    BY SentInductive
  <1>3. SentInv => SentInFull
    BY DEF SentInv, SentInFull, Reached
  <1> QED
    BY <1>1, <1>2, <1>3, Invariance, PTL DEF Spec

-----------------------------------------------------------------------------
(* NetChan implements LossyChannel.                                        *)

LEMMA PlainText ==
    ASSUME NEW e, NEW n \in Nat
    PROVE  Plain(Bytes(e, 0, n)) = Text(e.id, n)
  BY DEF Plain, Bytes, Text

LEMMA ChInitially == Init => Channel!ChInit
  <1> SUFFICES ASSUME Init PROVE Channel!ChInit
    OBVIOUS
  <1>1. log = <<>> /\ delivered = <<>>
    BY DEF Init
  <1>2. chLog = <<>> /\ chDelivered = <<>> /\ chLast = 0
    BY <1>1 DEF chLog, chDelivered, chLast
  <1> QED
    BY <1>2 DEF Channel!ChInit

\* A message handed to SV_Netchan_Transmit is submitted.
LEMMA TransmitSubmits ==
    ASSUME Inv, NEW n \in Lengths, SV_Netchan_Transmit(n)
    PROVE  Channel!ChNext
  <1> PICK m : m = [id |-> Len(log) + 1, length |-> n]
    OBVIOUS
  <1>1. /\ log' = Append(log, m) /\ m \in Message
        /\ m.id = Len(log) + 1 /\ m.length = n
    BY LogGrows DEF SV_Netchan_Transmit
  <1>2. log \in Seq(Message) /\ Len(log) \in Nat /\ DOMAIN log = 1..Len(log)
    BY TypeParts DEF Inv, QueueTypeOK
  <1>3. /\ DOMAIN log' = 1..(Len(log) + 1)
        /\ \A i \in 1..Len(log) : log'[i] = log[i]
        /\ log'[Len(log) + 1] = m
    BY <1>1, <1>2
  <1>4. chLog' = Append(chLog, Text(m.id, m.length))
    BY <1>1, <1>2, <1>3 DEF chLog
  <1>5. Text(m.id, m.length) \in chMessage
    BY <1>1 DEF chMessage
  <1>6. UNCHANGED <<chDelivered, chLast>>
    BY DEF SV_Netchan_Transmit, receiveVars, chDelivered, chLast
  <1> QED
    BY <1>4, <1>5, <1>6 DEF Channel!ChNext, Channel!Submit

\* A packet that completes a message delivers it, one after the last.
LEMMA DeliverDelivers ==
    ASSUME Inv, NEW p \in sent, Accept(p), UNCHANGED log,
           Deliver(p, Bytes(p.payload, 0, p.payload.length))
    PROVE  Channel!ChNext
  <1> PICK d : d = [sequence |-> p.sequence,
                    data |-> Bytes(p.payload, 0, p.payload.length)]
    OBVIOUS
  <1>1. /\ p.payload \in Encoded /\ p.sequence \in Nat
        /\ incomingSequence \in Nat /\ incomingSequence < p.sequence
        /\ delivered \in Seq(Delivery)
    BY TypeParts DEF Inv, SendTypeOK, ReceiveTypeOK, Packet, Accept
  <1>2. p.payload.length \in 1..MAX_MSGLEN
    BY <1>1, LengthAssumption DEF Encoded
  <1>3. /\ p.payload.length \in Nat /\ 1 \in 1..p.payload.length
        /\ p.payload.id \in Nat \ {0}
    BY <1>1, <1>2, LengthAssumption, BoundAssumption DEF Encoded
  <1>4. d.data = Bytes(p.payload, 0, p.payload.length)
    OBVIOUS
  <1>5. d \in Delivery
    BY <1>1, <1>3, BytesLen DEF Delivery
  <1>6. /\ delivered' = Append(delivered, d) /\ delivered' # <<>>
        /\ Len(delivered) \in Nat /\ Len(delivered') = Len(delivered) + 1
        /\ DOMAIN delivered = 1..Len(delivered)
        /\ DOMAIN delivered' = 1..(Len(delivered) + 1)
        /\ \A i \in 1..Len(delivered) : delivered'[i] = delivered[i]
        /\ delivered'[Len(delivered) + 1] = d
    BY <1>1, <1>5 DEF Deliver
  <1>7. p.payload.id \in DOMAIN log /\ log[p.payload.id].length = p.payload.length
    BY DEF Inv, PacketInv, Logged
  <1>8. p.payload.id \in DOMAIN chLog
        /\ chLog[p.payload.id] = Plain(d.data)
    BY <1>3, <1>4, <1>7, PlainText DEF chLog
  <1>9. chDelivered' = Append(chDelivered, chLog[p.payload.id])
    BY <1>6, <1>8 DEF chDelivered
  <1>10. chLast' = p.payload.id
    BY <1>3, <1>4, <1>6 DEF chLast, Bytes
  <1>11. p.payload.id > chLast
    <2>1. CASE delivered = <<>>
      BY <1>3, <2>1 DEF chLast
    <2>2. CASE delivered # <<>>
      <3>1. Len(delivered) \in DOMAIN delivered
        BY <1>6, <2>2
      <3>2. PICK q \in sent :
              /\ q.sequence = delivered[Len(delivered)].sequence
              /\ delivered[Len(delivered)].data = Bytes(q.payload, 0, q.payload.length)
              /\ q.sequence <= incomingSequence
        BY <3>1 DEF Inv, DeliveredInv
      <3>3. q.payload \in Encoded /\ q.sequence \in Nat
        BY TypeParts DEF Inv, SendTypeOK, Packet
      <3>4. q.payload.length \in 1..MAX_MSGLEN
        BY <3>3, LengthAssumption DEF Encoded
      <3>5. 1 \in 1..q.payload.length
        BY <3>4, LengthAssumption
      <3>6. chLast = q.payload.id
        BY <2>2, <3>2, <3>5 DEF chLast, Bytes
      <3>7. q.payload.id < p.payload.id
        BY <1>1, <3>2, <3>3 DEF Inv, OrderInv
      <3>8. q.payload.id \in Nat
        BY <3>3, BoundAssumption DEF Encoded
      <3> QED
        BY <1>3, <3>6, <3>7, <3>8
    <2> QED
      BY <2>1, <2>2
  <1>12. chLog' = chLog
    BY DEF chLog
  <1> QED
    BY <1>8, <1>9, <1>10, <1>11, <1>12 DEF Channel!ChNext, Channel!Deliver

LEMMA ProcessDelivers ==
    ASSUME Inv, NEW p \in sent, Netchan_Process(p)
    PROVE  [Channel!ChNext]_Channel!chVars
  <1>1. Accept(p) /\ UNCHANGED log
    BY DEF Netchan_Process
  <1>2. CASE ProcessWhole(p)
    <2>1. Data(p) = Bytes(p.payload, 0, p.payload.length)
      BY <1>2 DEF ProcessWhole, Data, Inv, PacketInv
    <2>2. Deliver(p, Bytes(p.payload, 0, p.payload.length))
      BY <1>2, <2>1 DEF ProcessWhole
    <2> QED
      BY <1>1, <2>2, DeliverDelivers
  <1>3. CASE ProcessLastFragment(p)
    <2>1. Kept(p) \o Data(p) = Bytes(p.payload, 0, p.payload.length)
      BY <1>3, InPlaceBytes DEF ProcessLastFragment
    <2>2. Deliver(p, Bytes(p.payload, 0, p.payload.length))
      BY <1>3, <2>1 DEF ProcessLastFragment
    <2> QED
      BY <1>1, <2>2, DeliverDelivers
  <1>4. CASE ProcessMisplacedFragment(p) \/ ProcessFullFragment(p)
    <2>1. UNCHANGED delivered
      BY <1>4 DEF ProcessMisplacedFragment, ProcessFullFragment
    <2> QED
      BY <1>1, <2>1 DEF Channel!chVars, chLog, chDelivered, chLast
  <1> QED
    BY <1>2, <1>3, <1>4 DEF Netchan_Process

\* Whatever is lost, repeated or reordered below it, the channel is a lossy
\* channel of whole messages: they come out in the order they were submitted
\* and at most once (the sequence test of Netchan_Process).
THEOREM ChannelRefinement == Spec => ImplementsLossyChannel
  <1>1. Inv /\ [Next]_vars => [Channel!ChNext]_Channel!chVars
    <2> SUFFICES ASSUME Inv, [Next]_vars
                 PROVE  [Channel!ChNext]_Channel!chVars
      OBVIOUS
    <2>1. CASE \E n \in Lengths : SV_Netchan_Transmit(n)
      BY <2>1, TransmitSubmits
    <2>2. CASE SV_Netchan_TransmitNextFragment
      <3>1. UNCHANGED <<log, delivered>>
        BY <2>2 DEF SV_Netchan_TransmitNextFragment, receiveVars
      <3> QED
        BY <3>1 DEF Channel!chVars, chLog, chDelivered, chLast
    <2>3. CASE \E p \in sent : Netchan_Process(p)
      BY <2>3, ProcessDelivers
    <2>4. CASE UNCHANGED vars
      <3>1. UNCHANGED <<log, delivered>>
        BY <2>4 DEF vars, receiveVars
      <3> QED
        BY <3>1 DEF Channel!chVars, chLog, chDelivered, chLast
    <2> QED
      BY <2>1, <2>2, <2>3, <2>4 DEF Next
  <1> QED
    BY <1>1, ChInitially, Invariance, PTL
      DEF Spec, ImplementsLossyChannel, Channel!ChSpec

=============================================================================
