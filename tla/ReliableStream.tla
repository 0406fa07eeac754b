--------------------------- MODULE ReliableStream ---------------------------
(***************************************************************************)
(* What reliable commands promise, in one direction: the far end executes  *)
(* the commands issued at this one, each once, in order and with no gap.   *)
(* The i-th command issued is the number i.  ReliableCommands is shown to  *)
(* implement one such stream in each direction.                            *)
(***************************************************************************)
EXTENDS Naturals, Sequences

VARIABLES
    issued,                \* how many commands have been issued
    executed               \* the commands executed, in order

StInit ==
    /\ issued = 0
    /\ executed = <<>>

\* One step of the program may issue several, or execute several.
Issue ==
    /\ issued' \in Nat
    /\ issued' > issued
    /\ UNCHANGED executed

Execute ==
    /\ UNCHANGED issued
    /\ \E k \in Len(executed)..issued : executed' = [i \in 1..k |-> i]

StNext == Issue \/ Execute

StSpec == StInit /\ [][StNext]_<<issued, executed>>
=============================================================================
