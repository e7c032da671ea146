---- MODULE RotatingPool ----
(***************************************************************************)
(* Vocabulary of the two port pools of hturnal/turn/portpool.go.  A pool   *)
(* hands out the ports 1..max in rotation: it keeps the set of ports taken *)
(* and the port at which the next search starts, and a search visits the   *)
(* ports in cyclic order from there.                                       *)
(***************************************************************************)
EXTENDS Integers

\* Mutant: the end of the range is forgotten.
WrapNever(p, max) == p

\* The port after the last one is the first.
Wrap(p, max) == IF p > max THEN 1 ELSE p

\* How many ports a search that starts at `from` visits before it visits p.
Ahead(from, p, max) == IF p >= from THEN p - from ELSE p - from + max

\* Mutant: a search returns the port it starts at, taken or not.
FirstFreeTaken(p, taken, next, max) == p = next

\* p is the port a search from `next` returns: the first free one it meets.
FirstFree(p, taken, next, max) ==
    /\ p \notin taken
    /\ \A q \in 1..max : Ahead(next, q, max) < Ahead(next, p, max) => q \in taken

\* A search fails exactly when no port is free.
Full(taken, max) == 1..max \subseteq taken
====
