------------------------------- MODULE MCServer -------------------------------
(* The server with a small heap, a few descriptors, clients and workers,   *)
(* each kind of them interchangeable.                                      *)
EXTENDS Server, TLC

Alike == UNION {Permutations(S) : S \in {Node, Descriptors, Conn, Worker}}
=============================================================================
