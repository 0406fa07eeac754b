---------------------------- MODULE MCSnapshot ----------------------------
(* Instances of Snapshot for TLC: what the client may see.                 *)
EXTENDS Snapshot

\* Entities 1 and 2 change now and then and are seen now and then; once there are
\* three, more than the client game takes.
Few ==
    LET Seen == <<{2}, {1, 2}, {1, 2, 3}, {}, {}, {2}, {1, 2}, {1}>>
    IN  [n \in 1..8 |-> {[k \in Seen[n] |-> 1 + (k * n) \div 4]}]
=============================================================================
