---- MODULE MCHttpPrograms ----
(* The programs that call libcurl, for TLC. *)
EXTENDS HttpPrograms

\* curlrq_init is asked for less than, the least of and more than what it clamps to.
MCAsked == {-1, 1, 5}

\* Two bodies of different lengths; a listing has a first, a middle and a last page.
MCBodies == {"short", "long"}
MCLength == [b \in MCBodies |-> IF b = "short" THEN 1 ELSE 2]
====
