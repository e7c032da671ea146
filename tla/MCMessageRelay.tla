---- MODULE MCMessageRelay ----
(***************************************************************************)
(* Instances of MessageRelay for TLC.                                      *)
(***************************************************************************)
EXTENDS MessageRelay, TLC

\* Requests of one kind, and clients, are interchangeable; sound for safety only.
Symmetric == Permutations(Clients) \cup Permutations(Messages) \cup Permutations(Readers)
====
