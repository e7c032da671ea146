---- MODULE Duplex ----
(***************************************************************************)
(* What the connections of hturnal/turn/tcp_handler.go promise to the two  *)
(* clients at their ends: two directions, in each of which data is read    *)
(* once and in the order it was written, by the other end; every call has  *)
(* its effect in one atomic step.  A write that is refused was refused by  *)
(* a full direction and leaves nothing behind, and a connection that is    *)
(* closed yields what was written before and takes nothing more.  TcpRelay *)
(* implements it.                                                          *)
(***************************************************************************)
EXTENDS Integers, Sequences

CONSTANTS Conns,     \* connections
          Writes,    \* calls that write, and the data they carry
          Reads,     \* calls that read
          Cap,       \* data a direction can hold
          None

VARIABLES pipe,    \* for each end of each connection, the data on its way to it
          open,    \* connections that are not closed
          at,      \* the end of a connection at which a call was made
          state,   \* what has become of a call
          got      \* the datum a read returns

duplexVars == <<pipe, open, at, state, got>>

Calls == Writes \cup Reads
Ends == Conns \X {"owner", "peer"}
Far(end) == <<end[1], IF end[2] = "owner" THEN "peer" ELSE "owner">>

DuplexInit ==
    /\ pipe = [e \in Ends |-> <<>>]
    /\ open = Conns
    /\ at = [c \in Calls |-> None]
    /\ state = [c \in Calls |-> "new"]
    /\ got = [r \in Reads |-> None]

Becomes(c, from, to) == state[c] = from /\ state' = [state EXCEPT ![c] = to]

IsOpen(c) == at[c][1] \in open

Call(c) ==
    /\ Becomes(c, "new", "called")
    /\ \E end \in Ends : at' = [at EXCEPT ![c] = end]
    /\ UNCHANGED <<pipe, open, got>>

\* No such connection: 403 or 404.
Reject(c) == Becomes(c, "new", "rejected") /\ UNCHANGED <<pipe, open, at, got>>

Write(w) ==
    /\ Becomes(w, "called", "written")
    /\ IsOpen(w) /\ Len(pipe[Far(at[w])]) < Cap
    /\ pipe' = [pipe EXCEPT ![Far(at[w])] = Append(@, w)]
    /\ UNCHANGED <<open, at, got>>

\* 429.
Refuse(w) ==
    /\ Becomes(w, "called", "refused")
    /\ IsOpen(w) /\ Len(pipe[Far(at[w])]) = Cap
    /\ UNCHANGED <<pipe, open, at, got>>

\* A write to a connection that was closed: the handler panics.
Break(w) == Becomes(w, "called", "broken") /\ ~IsOpen(w) /\ UNCHANGED <<pipe, open, at, got>>

Read(r) ==
    /\ Becomes(r, "called", "read")
    /\ pipe[at[r]] # <<>>
    /\ got' = [got EXCEPT ![r] = Head(pipe[at[r]])]
    /\ pipe' = [pipe EXCEPT ![at[r]] = Tail(@)]
    /\ UNCHANGED <<open, at>>

\* 410: nothing is left, and nothing will come.
End(r) ==
    /\ Becomes(r, "called", "ended")
    /\ ~IsOpen(r) /\ pipe[at[r]] = <<>>
    /\ UNCHANGED <<pipe, open, at, got>>

\* 204: nothing came in time.
GiveUp(r) == Becomes(r, "called", "empty") /\ UNCHANGED <<pipe, open, at, got>>

Close(dead) == open' = open \ dead /\ UNCHANGED <<pipe, at, state, got>>

DuplexNext ==
    \/ \E dead \in SUBSET open : Close(dead)
    \/ \E c \in Calls : Call(c) \/ Reject(c)
    \/ \E w \in Writes : Write(w) \/ Refuse(w) \/ Break(w)
    \/ \E r \in Reads : Read(r) \/ End(r) \/ GiveUp(r)

DuplexSpec == DuplexInit /\ [][DuplexNext]_duplexVars
====
