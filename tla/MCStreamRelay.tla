---- MODULE MCStreamRelay ----
(***************************************************************************)
(* Instances of StreamRelay for TLC.                                       *)
(***************************************************************************)
EXTENDS StreamRelay

\* Two chunks in order, and a number below the -1 that MaxSeq starts from.
MCSeqNos == {-2, 0, 1}

\* Two chunks in order.
MCSeqNosOrdered == {0, 1}
====
