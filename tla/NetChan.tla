------------------------------ MODULE NetChan ------------------------------
(***************************************************************************)
(* The network channel that carries every connected message: sequence      *)
(* numbers and fragmentation (qcommon/net_chan.c) under the per-client     *)
(* queue the server keeps in front of it (server/sv_net_chan.c).  One      *)
(* direction, server to client.  The client's own sender is this one with  *)
(* a queue that stays empty: CL_WritePacket sends every fragment before it *)
(* returns.                                                                *)
(*                                                                         *)
(* The datagram service may lose, duplicate and reorder packets.  A packet *)
(* once sent stays in `sent`, and receiving it does not remove it: any of  *)
(* them may be received never, once or often, and in any order.            *)
(*                                                                         *)
(* Contents are abstract: the byte at offset o of the i-th message         *)
(* submitted, encoded with the key made from sequence k, is <<i, k, o>>.   *)
(***************************************************************************)
EXTENDS Naturals, Sequences

CONSTANTS
    FRAGMENT_SIZE,         \* bytes of payload of a full fragment
    MAX_MSGLEN,            \* size of the reassembly buffer
    MAX_NETCHAN_QUEUE,     \* cap on the messages queued for one client
    Lengths,               \* the lengths of the messages submitted
    MaxMessages            \* bound: messages submitted in a behaviour

ASSUME FragmentAssumption == FRAGMENT_SIZE \in Nat \ {0}
ASSUME LengthAssumption == MAX_MSGLEN \in Nat /\ Lengths \subseteq 1..MAX_MSGLEN
ASSUME BoundAssumption == MAX_NETCHAN_QUEUE \in Nat /\ MaxMessages \in Nat

VARIABLES
    log,                   \* history: the messages submitted
    zombie,                \* the server has dropped this client
    queue,                 \* netchan_start_queue: messages not yet encoded
    outgoingSequence,
    unsentFragments,
    unsentBuffer,          \* the encoded message last sent in fragments
    unsentFragmentStart,
    sent,                  \* every packet handed to NET_SendPacket
    incomingSequence,
    fragmentSequence,
    fragmentBuffer,        \* the fragmentLength bytes collected so far
    delivered              \* history: what Netchan_Process returned qtrue for

sendVars    == <<outgoingSequence, unsentFragments, unsentBuffer,
                 unsentFragmentStart, sent>>
receiveVars == <<incomingSequence, fragmentSequence, fragmentBuffer, delivered>>
vars == <<log, zombie, queue, sendVars, receiveVars>>

-----------------------------------------------------------------------------
(* Messages, their bytes, and the packets that carry them.                 *)

Message == [id : 1..MaxMessages, length : Lengths]

\* Its bytes are xored with a key made from the sequence current at the time.
SV_Netchan_Encode(m) ==
    [id |-> m.id, length |-> m.length, key |-> outgoingSequence]

Encoded == [id : 1..MaxMessages, length : Lengths, key : Nat]

Byte == (1..MaxMessages) \X Nat \X Nat

Bytes(e, start, n) == [o \in 1..n |-> <<e.id, e.key, start + o>>]

Packet == [sequence : Nat, fragmented : BOOLEAN, start : Nat,
           length : 0..MAX_MSGLEN, payload : Encoded]

Datagram(e, fragmented, start, n) ==
    [sequence |-> outgoingSequence, fragmented |-> fragmented,
     start |-> start, length |-> n, payload |-> e]

Data(p) == Bytes(p.payload, p.start, p.length)

\* A message as the receiving program gets it.
Delivery == [sequence : Nat, data : Seq(Byte)]

-----------------------------------------------------------------------------
Init ==
    /\ log = <<>>
    /\ zombie = FALSE
    /\ queue = <<>>
    /\ outgoingSequence = 1
    /\ unsentFragments = FALSE
    /\ unsentBuffer = <<>>
    /\ unsentFragmentStart = 0
    /\ sent = {}
    /\ incomingSequence = 0
    /\ fragmentSequence = 0
    /\ fragmentBuffer = <<>>
    /\ delivered = <<>>

-----------------------------------------------------------------------------
(* The sender: qcommon/net_chan.c.                                         *)

\* Length of the fragment at offset start of a message of n bytes.
FragmentLength(start, n) ==
    IF start + FRAGMENT_SIZE > n THEN n - start ELSE FRAGMENT_SIZE

\* Defect: the message ends where its bytes do, even on a full fragment.
EndsWithItsBytes(start, n) == start + FragmentLength(start, n) = n

\* The fragment at start ends the message: no bytes are left and it is short,
\* for the receiver takes a full fragment to mean that more follow.
EndsMessage(start, n) ==
    /\ start + FragmentLength(start, n) = n
    /\ FragmentLength(start, n) # FRAGMENT_SIZE

SendFragment(e, start) ==
    /\ sent' = sent \cup
         {Datagram(e, TRUE, start, FragmentLength(start, e.length))}
    /\ unsentFragmentStart' = start + FragmentLength(start, e.length)
    /\ IF EndsMessage(start, e.length)
         THEN outgoingSequence' = outgoingSequence + 1 /\ unsentFragments' = FALSE
         ELSE unsentFragments' = TRUE /\ UNCHANGED outgoingSequence

Netchan_TransmitNextFragment ==
    /\ SendFragment(unsentBuffer, unsentFragmentStart)
    /\ UNCHANGED unsentBuffer

SendWhole(e) ==
    /\ sent' = sent \cup {Datagram(e, FALSE, 0, e.length)}
    /\ outgoingSequence' = outgoingSequence + 1
    /\ unsentFragmentStart' = 0
    /\ UNCHANGED <<unsentFragments, unsentBuffer>>

\* Defect: the message is not copied before its first fragment is sent.
Netchan_TransmitUncopied(e) ==
    \/ /\ e.length >= FRAGMENT_SIZE
       /\ UNCHANGED unsentBuffer
       /\ SendFragment(e, 0)
    \/ /\ e.length < FRAGMENT_SIZE
       /\ SendWhole(e)

\* A message of a fragment or more goes out in fragments, the first now.
Netchan_Transmit(e) ==
    \/ /\ e.length >= FRAGMENT_SIZE
       /\ unsentBuffer' = e
       /\ SendFragment(e, 0)
    \/ /\ e.length < FRAGMENT_SIZE
       /\ SendWhole(e)

-----------------------------------------------------------------------------
(* The sender: server/sv_net_chan.c.                                       *)

Pending == unsentFragments \/ queue # <<>>

\* SV_DropClient, as far as the channel goes: a client already dropped stays
\* as it is, any other loses its queue.  Fragments being sent still go out.
SV_DropClient ==
    /\ zombie' = TRUE
    /\ queue' = IF zombie THEN queue ELSE <<>>

\* Defect: the last message of the queue is left behind.
QueueWaitsButOne == ~unsentFragments /\ Len(queue) > 1

QueueWaits == ~unsentFragments /\ queue # <<>>

SV_Netchan_TransmitNextInQueue ==
    /\ Netchan_Transmit(SV_Netchan_Encode(Head(queue)))
    /\ queue' = Tail(queue)

\* Called for a client in any state when its rate allows: by
\* SV_SendQueuedMessages while the server is idle and by SV_SendClientMessages.
SV_Netchan_TransmitNextFragment ==
    /\ \/ /\ unsentFragments
          /\ Netchan_TransmitNextFragment
          /\ UNCHANGED queue
       \/ /\ QueueWaits
          /\ SV_Netchan_TransmitNextInQueue
    /\ UNCHANGED <<log, zombie, receiveVars>>

\* Defect: the cap is off by one more.
QueueIsOverfull == Len(queue) > MAX_NETCHAN_QUEUE + 1

\* Counted before the new message is added.
QueueIsFull == Len(queue) > MAX_NETCHAN_QUEUE

\* Put a message behind the ones still waiting, or drop the client.
Enqueue(m) ==
    /\ \/ /\ QueueIsFull
          /\ SV_DropClient
       \/ /\ ~QueueIsFull
          /\ queue' = Append(queue, m)
          /\ UNCHANGED zombie
    /\ UNCHANGED sendVars

\* A message of n bytes for the client.
SV_Netchan_Transmit(n) ==
    LET m == [id |-> Len(log) + 1, length |-> n] IN
    /\ Len(log) < MaxMessages
    /\ log' = Append(log, m)
    /\ \/ /\ Pending
          /\ Enqueue(m)
       \/ /\ ~Pending
          /\ Netchan_Transmit(SV_Netchan_Encode(m))
          /\ UNCHANGED <<zombie, queue>>
    /\ UNCHANGED receiveVars

-----------------------------------------------------------------------------
(* The receiver: Netchan_Process, for a packet p that has arrived.         *)

\* Defect: a packet received twice is accepted twice.
AcceptAgain(p) == p.sequence >= incomingSequence

Accept(p) == p.sequence > incomingSequence

Deliver(p, data) ==
    /\ incomingSequence' = p.sequence
    /\ delivered' = Append(delivered, [sequence |-> p.sequence, data |-> data])

\* Defect: fragments of another message are added to those collected.
KeptRegardless(p) == fragmentBuffer

\* What is left of the buffer once p's sequence has been looked at: a packet
\* of another message, older or newer, starts over.
Kept(p) == IF p.sequence = fragmentSequence THEN fragmentBuffer ELSE <<>>

Fits(p) == Len(Kept(p)) + p.length <= MAX_MSGLEN

InPlace(p) == p.start = Len(Kept(p)) /\ Fits(p)

ProcessWhole(p) ==
    /\ ~p.fragmented
    /\ Deliver(p, Data(p))
    /\ UNCHANGED <<fragmentSequence, fragmentBuffer>>

\* A fragment went missing; the part collected so far is kept.
ProcessMisplacedFragment(p) ==
    /\ p.fragmented
    /\ ~InPlace(p)
    /\ fragmentSequence' = p.sequence
    /\ fragmentBuffer' = Kept(p)
    /\ UNCHANGED <<incomingSequence, delivered>>

ProcessFullFragment(p) ==
    /\ p.fragmented
    /\ InPlace(p)
    /\ p.length = FRAGMENT_SIZE
    /\ fragmentSequence' = p.sequence
    /\ fragmentBuffer' = Kept(p) \o Data(p)
    /\ UNCHANGED <<incomingSequence, delivered>>

ProcessLastFragment(p) ==
    /\ p.fragmented
    /\ InPlace(p)
    /\ p.length # FRAGMENT_SIZE
    /\ fragmentSequence' = p.sequence
    /\ fragmentBuffer' = <<>>
    /\ Deliver(p, Kept(p) \o Data(p))

Netchan_Process(p) ==
    /\ Accept(p)
    /\ \/ ProcessWhole(p)
       \/ ProcessMisplacedFragment(p)
       \/ ProcessFullFragment(p)
       \/ ProcessLastFragment(p)
    /\ UNCHANGED <<log, zombie, queue, sendVars>>

-----------------------------------------------------------------------------
Next ==
    \/ \E n \in Lengths : SV_Netchan_Transmit(n)
    \/ SV_Netchan_TransmitNextFragment
    \/ \E p \in sent : Netchan_Process(p)

Spec == Init /\ [][Next]_vars

\* The server's main loop calls SV_SendQueuedPackets in every pass, and the
\* time SV_RateMsec asks for is finite.
FairSpec == Spec /\ WF_vars(SV_Netchan_TransmitNextFragment)
-----------------------------------------------------------------------------
(* Properties.                                                             *)

TypeOK ==
    /\ log \in Seq(Message)
    /\ zombie \in BOOLEAN
    /\ queue \in Seq(Message)
    /\ outgoingSequence \in Nat
    /\ unsentFragments \in BOOLEAN
    /\ unsentFragments => unsentBuffer \in Encoded
    /\ unsentFragmentStart \in Nat
    /\ sent \subseteq Packet
    /\ incomingSequence \in Nat
    /\ fragmentSequence \in Nat
    /\ fragmentBuffer \in Seq(Byte)
    /\ delivered \in Seq(Delivery)

\* Whatever the network did to the packets, a message handed to the program is
\* one that was submitted, from its first byte to its last and without a byte
\* of any other, and was encoded with the sequence it arrives under, which is
\* the one the receiver decodes it with (comment in SV_Netchan_Transmit: a
\* message cannot be stored encoded).
WholeMessages ==
    \A i \in DOMAIN delivered :
        \E j \in DOMAIN log :
            delivered[i].data =
                Bytes([id |-> log[j].id, key |-> delivered[i].sequence],
                      0, log[j].length)

\* A sequence the sender has finished with can be completed by the receiver
\* from the packets sent: they hold its whole message, or an unbroken run of
\* full fragments from its start and the short one that ends it.
SentInFull ==
    \A s \in 1..(outgoingSequence - 1) :
        LET ps == {p \in sent : p.sequence = s} IN
        /\ \E p \in ps : p.fragmented => p.length # FRAGMENT_SIZE
        /\ \A p \in ps : \/ p.start = 0
                         \/ \E q \in ps : /\ q.length = FRAGMENT_SIZE
                                          /\ p.start = q.start + q.length

\* The messages waiting for one client are bounded: the count is taken before
\* the new message is added, so one more than the cap may wait.
QueueBounded == Len(queue) <= MAX_NETCHAN_QUEUE + 1

\* What waits is sent: fragments and queued messages do not stay behind.
Drains == Pending ~> ~Pending

(* The refinement mapping: a message without the key it was encoded with,  *)
(* and what was delivered last.                                            *)

Plain(data) == [o \in DOMAIN data |-> <<data[o][1], data[o][3]>>]

Text(id, length) == [o \in 1..length |-> <<id, o>>]

chMessage   == {Text(m.id, m.length) : m \in Message}
chLog       == [i \in DOMAIN log |-> Text(i, log[i].length)]
chDelivered == [i \in DOMAIN delivered |-> Plain(delivered[i].data)]
chLast      == IF delivered = <<>> THEN 0 ELSE delivered[Len(delivered)].data[1][1]

Channel == INSTANCE LossyChannel WITH
    Message <- chMessage, log <- chLog, delivered <- chDelivered, last <- chLast

\* Messages come out whole, in order and at most once, whatever is lost,
\* duplicated or reordered below (the check on sequence in Netchan_Process).
ImplementsLossyChannel == Channel!ChSpec
=============================================================================
