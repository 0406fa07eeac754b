----------------------------- MODULE MCDownload -----------------------------
(* Instances of Download for TLC: a file of one block and one of two.      *)
EXTENDS Download

MCPaks == <<"small", "big">>
MCSize == [f \in {"small", "big"} |-> IF f = "small" THEN 1 ELSE 2]
=============================================================================
