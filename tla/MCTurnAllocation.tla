---- MODULE MCTurnAllocation ----
(***************************************************************************)
(* Instances of TurnAllocation for TLC.                                    *)
(***************************************************************************)
EXTENDS TurnAllocation

\* The lifetimes a refresh may ask for: 0 stands for the default, -1 is over at once.
MCLifetimes == {0, -1}
====
