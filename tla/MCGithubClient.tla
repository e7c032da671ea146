---- MODULE MCGithubClient ----
(* The client of GitHub's REST API by itself, for TLC. *)
EXTENDS GithubClient

MCLength == [b \in Bodies |-> 2]
====
