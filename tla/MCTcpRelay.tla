---- MODULE MCTcpRelay ----
(***************************************************************************)
(* Instances of TcpRelay for TLC.                                          *)
(***************************************************************************)
EXTENDS TcpRelay, TLC

\* Requests of one kind, and clients, are interchangeable; sound for safety only.
Symmetric == Permutations(Clients) \cup Permutations(Dials) \cup Permutations(Accepts)
             \cup Permutations(Posts) \cup Permutations(Gets)
====
