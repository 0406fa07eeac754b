---------------------------- MODULE LossyChannel ----------------------------
(***************************************************************************)
(* What a network channel promises its user: messages submitted at one end *)
(* come out at the other whole, in the order they were submitted and at    *)
(* most once.  Any of them may be lost.  NetChan is shown to implement it. *)
(***************************************************************************)
EXTENDS Naturals, Sequences

CONSTANT Message           \* what may be submitted

VARIABLES
    log,                   \* every message submitted so far, in order
    delivered,             \* the messages handed to the receiving program
    last                   \* index in log of the last one delivered, 0 if none

chVars == <<log, delivered, last>>

ChInit ==
    /\ log = <<>>
    /\ delivered = <<>>
    /\ last = 0

Submit(m) ==
    /\ log' = Append(log, m)
    /\ UNCHANGED <<delivered, last>>

\* Messages between last and i are lost for good.
Deliver(i) ==
    /\ i > last
    /\ delivered' = Append(delivered, log[i])
    /\ last' = i
    /\ UNCHANGED log

ChNext ==
    \/ \E m \in Message : Submit(m)
    \/ \E i \in DOMAIN log : Deliver(i)

ChSpec == ChInit /\ [][ChNext]_chVars
=============================================================================
