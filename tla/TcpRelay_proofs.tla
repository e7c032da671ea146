---- MODULE TcpRelay_proofs ----
(***************************************************************************)
(* Connections of the relay are offered once, found through both tables    *)
(* and closed once, and data passes each of them once and to the other     *)
(* end, for any number of clients and requests and any size of the queues. *)
(*                                                                         *)
(* The two channels of a connection and the queue of offers of a client    *)
(* are alike.  Lane states what makes one right, of its queues q: the      *)
(* elements on it are those of done that go to its side and that nobody    *)
(* has taken, each in the queue of its owner.                              *)
(***************************************************************************)
EXTENDS TcpRelay, SequenceTheorems, TLAPS

Standing(q, owners, done, of, sides, side, taken) ==
    \A o \in owners : \A i \in 1..Len(q[o]) :
        /\ q[o][i] \in done /\ q[o][i] \notin taken
        /\ of[q[o][i]] = o /\ sides[q[o][i]] = side

Apart(q, owners) == \A o \in owners : \A i, j \in 1..Len(q[o]) : q[o][i] = q[o][j] => i = j

NoneLost(q, done, of, sides, side, taken) ==
    \A e \in done : sides[e] = side =>
        e \in taken \/ \E i \in 1..Len(q[of[e]]) : q[of[e]][i] = e

Lane(q, owners, done, of, sides, side, taken) ==
    /\ Standing(q, owners, done, of, sides, side, taken)
    /\ Apart(q, owners)
    /\ NoneLost(q, done, of, sides, side, taken)

\* A connection that is in the table of its peer at least.
Open == {"inPeer", "inBoth", "established", "timedOut"}

Written == {q \in Posts : pc[q] \in {"sent", "ok"}}
Read == {got[g] : g \in Gets}
Sides == [r \in Posts |-> IF IsOwner(r) THEN "outgoing" ELSE "incoming"]
Offered == {d \in Dials : pc[d] = "established"}
Accepted == {conn[a] : a \in Accepts}
Ends == [d \in Dials |-> "peer"]

OutLane == Lane(outgoing, Dials, Written, conn, Sides, "outgoing", Read)
InLane == Lane(incoming, Dials, Written, conn, Sides, "incoming", Read)
OfferLane == Lane(pending, Clients, Offered, peer, Ends, "peer", Accepted)

\* A dial knows its two clients once it has looked them up.
DialsKnow ==
    \A d \in Dials : pc[d] \in {"caller", "got"} \cup Open => client[d] \in Clients /\ peer[d] \in Clients

\* Tables hold connections that were stored, and lose only those that are closed.
InTables ==
    /\ \A c \in Clients : \A d \in connections[c] : pc[d] \in Open
    /\ \A d \in Dials \ closed :
         /\ pc[d] \in Open => d \in connections[peer[d]]
         /\ pc[d] \in Open \ {"inPeer"} => d \in connections[client[d]]

\* POST and GET hold on to a connection that was in a table.
Relays ==
    \A r \in Posts \cup Gets :
        pc[r] \notin {"new", "refused"} =>
            client[r] \in Clients /\ conn[r] \in Dials /\ pc[conn[r]] \in Open

\* An accept holds nothing but the one offer that it answers with.
Accepting ==
    /\ \A a \in Accepts :
         /\ pc[a] = "polling" => client[a] \in Clients
         /\ pc[a] # "accepted" => conn[a] = Nil
         /\ conn[a] # Nil => conn[a] \in Offered /\ client[a] = peer[conn[a]]
    /\ \A a, b \in Accepts : conn[a] = conn[b] /\ conn[a] # Nil => a = b

\* A GET holds one datum, written to its connection by the other end.
Getting ==
    /\ \A g \in Gets : got[g] # Nil =>
         /\ pc[g] \in {"taken", "data"}
         /\ got[g] \in Written /\ conn[got[g]] = conn[g]
         /\ IsOwner(got[g]) <=> ~IsOwner(g)
    /\ \A g, h \in Gets : got[g] = got[h] /\ got[g] # Nil => g = h

GoneClosed == \A g \in Gets : pc[g] = "gone" => closes[conn[g]] > 0 /\ Source(g) = <<>>

IInv ==
    /\ TypeOK /\ (~sweeping => todo = {})
    /\ DialsKnow /\ InTables /\ Relays /\ Accepting /\ Getting
    /\ OutLane /\ InLane /\ OfferLane
    /\ ClosedOnce /\ GoneClosed

\* A POST that has not given up has an attempt left.
Trying == \A q \in Posts : pc[q] \in {"new", "sending"} => attempts[q] < MaxAttempts

---------------------------------------------------------------------------
(* Lanes *)

\* A lane does not see what happens to elements of another side.
LEMMA LaneKeep ==
    ASSUME NEW q, NEW O, NEW dn, NEW of, NEW sd, NEW w, NEW tk,
           NEW dn2, NEW of2, NEW sd2, NEW tk2,
           Lane(q, O, dn, of, sd, w, tk),
           \A e : (e \in dn2 /\ sd2[e] = w) <=> (e \in dn /\ sd[e] = w),
           \A e \in dn : sd[e] = w => of2[e] = of[e] /\ (e \in tk2 <=> e \in tk)
    PROVE  Lane(q, O, dn2, of2, sd2, w, tk2)
<1>1. Standing(q, O, dn2, of2, sd2, w, tk2)
  BY DEF Lane, Standing
<1>2. Apart(q, O)
  BY DEF Lane
<1>3. NoneLost(q, dn2, of2, sd2, w, tk2)
  BY DEF Lane, NoneLost
<1>4. QED
  BY <1>1, <1>2, <1>3 DEF Lane

Pushed(q, q2, elems, owners, of, m) ==
    /\ q \in [owners -> Seq(elems)] /\ m \in elems /\ of[m] \in owners
    /\ \A o \in owners : q2[o] = IF o = of[m] THEN Append(q[o], m) ELSE q[o]

Popped(q, q2, elems, owners, p) ==
    /\ q \in [owners -> Seq(elems)] /\ p \in owners /\ q[p] # <<>>
    /\ \A o \in owners : q2[o] = IF o = p THEN Tail(q[o]) ELSE q[o]

\* An element that is done from now on joins the end of its owner's queue.
LEMMA LanePush ==
    ASSUME NEW M, NEW O, NEW q, NEW q2,
           NEW dn, NEW of, NEW sd, NEW w, NEW tk, NEW dn2, NEW m,
           Lane(q, O, dn, of, sd, w, tk),
           \A e \in dn : of[e] \in O,
           sd[m] = w, m \notin dn, m \notin tk,
           \A e : e \in dn2 <=> e \in dn \/ e = m,
           Pushed(q, q2, M, O, of, m)
    PROVE  Lane(q2, O, dn2, of, sd, w, tk)
<1> DEFINE p == of[m]
<1> HIDE DEF p
<1>0. /\ q \in [O -> Seq(M)] /\ m \in M /\ p \in O /\ of[m] = p
      /\ \A o \in O : q2[o] = IF o = p THEN Append(q[o], m) ELSE q[o]
  BY DEF Pushed, p
<1>1. q[p] \in Seq(M) /\ q2[p] = Append(q[p], m) /\ \A o \in O : o # p => q2[o] = q[o]
  BY <1>0
<1>2. /\ Len(q2[p]) = Len(q[p]) + 1 /\ Len(q[p]) \in Nat
      /\ q2[p][Len(q[p]) + 1] = m
      /\ \A i \in 1..Len(q[p]) : q2[p][i] = q[p][i]
  BY <1>0, <1>1, AppendProperties
<1>3. ASSUME NEW o \in O, NEW i \in 1..Len(q2[o])
      PROVE  \/ i \in 1..Len(q[o]) /\ q2[o][i] = q[o][i]
             \/ o = p /\ i = Len(q[p]) + 1 /\ q2[o][i] = m
  <2>1. CASE o # p
    BY <1>1, <2>1
  <2>2. CASE o = p
    <3>1. i \in 1..Len(q[p]) \/ i = Len(q[p]) + 1
      BY <1>2, <2>2
    <3>2. QED
      BY <1>2, <2>2, <3>1
  <2>3. QED
    BY <2>1, <2>2
<1>4. ASSUME NEW o \in O, NEW i \in 1..Len(q[o]) PROVE i \in 1..Len(q2[o]) /\ q2[o][i] = q[o][i]
  <2>1. CASE o = p
    BY <1>2, <2>1
  <2>2. CASE o # p
    BY <1>1, <2>2
  <2>3. QED
    BY <2>1, <2>2
<1>5. \A o \in O : \A i \in 1..Len(q[o]) :
        q[o][i] \in dn /\ q[o][i] \notin tk /\ of[q[o][i]] = o /\ sd[q[o][i]] = w /\ q[o][i] # m
  BY DEF Lane, Standing
<1>6. Standing(q2, O, dn2, of, sd, w, tk)
  BY <1>0, <1>3, <1>5 DEF Standing
<1>7. Apart(q2, O)
  <2> SUFFICES ASSUME NEW o \in O, NEW i \in 1..Len(q2[o]), NEW j \in 1..Len(q2[o]),
                      q2[o][i] = q2[o][j]
               PROVE  i = j
    BY DEF Apart
  <2>1. CASE i \in 1..Len(q[o]) /\ j \in 1..Len(q[o])
    <3>1. q[o][i] = q[o][j]
      BY <1>4, <2>1
    <3>2. QED
      BY <2>1, <3>1 DEF Lane, Apart
  <2>2. ASSUME NEW k \in 1..Len(q2[o]), q2[o][k] = m PROVE o = p /\ k = Len(q[p]) + 1
    <3>1. k \in 1..Len(q[o]) => q[o][k] # m
      BY <1>5
    <3>2. QED
      BY <1>3, <2>2, <3>1
  <2>3. CASE q2[o][i] = m
    BY <2>2, <2>3
  <2>4. CASE q2[o][i] # m
    BY <1>3, <2>1, <2>4
  <2>5. QED
    BY <2>3, <2>4
<1>8. NoneLost(q2, dn2, of, sd, w, tk)
  <2> SUFFICES ASSUME NEW e \in dn2, sd[e] = w
               PROVE  e \in tk \/ \E i \in 1..Len(q2[of[e]]) : q2[of[e]][i] = e
    BY DEF NoneLost
  <2>1. CASE e = m
    BY <1>0, <1>2, <2>1
  <2>2. CASE e # m
    <3>1. of[e] \in O /\ (e \in tk \/ \E i \in 1..Len(q[of[e]]) : q[of[e]][i] = e)
      BY <2>2 DEF Lane, NoneLost
    <3>2. QED
      BY <1>4, <3>1
  <2>3. QED
    BY <2>1, <2>2
<1>9. QED
  BY <1>6, <1>7, <1>8 DEF Lane

\* The first element of a queue is taken.
LEMMA LaneTake ==
    ASSUME NEW M, NEW O, NEW q, NEW q2, NEW p,
           NEW dn, NEW of, NEW sd, NEW w, NEW tk, NEW tk2,
           Lane(q, O, dn, of, sd, w, tk), \A e \in dn : of[e] \in O,
           Popped(q, q2, M, O, p),
           \A e \in dn : e \in tk2 <=> e \in tk \/ e = Head(q[p])
    PROVE  Lane(q2, O, dn, of, sd, w, tk2)
<1>0. /\ q \in [O -> Seq(M)] /\ p \in O /\ q[p] # <<>>
      /\ \A o \in O : q2[o] = IF o = p THEN Tail(q[o]) ELSE q[o]
  BY DEF Popped
<1>1. q[p] \in Seq(M) /\ q2[p] = Tail(q[p]) /\ \A o \in O : o # p => q2[o] = q[o]
  BY <1>0
<1>2. /\ Len(q[p]) \in Nat /\ 1 \in 1..Len(q[p]) /\ Len(q2[p]) = Len(q[p]) - 1
      /\ Head(q[p]) = q[p][1]
      /\ \A i \in 1..Len(q2[p]) : q2[p][i] = q[p][i + 1]
  BY <1>0, <1>1, HeadTailProperties
<1>3. ASSUME NEW o \in O, NEW i \in 1..Len(q2[o])
      PROVE  \E k \in 1..Len(q[o]) : q2[o][i] = q[o][k] /\ k = IF o = p THEN i + 1 ELSE i
  <2>1. CASE o = p
    <3>1. i + 1 \in 1..Len(q[p])
      BY <1>2, <2>1
    <3>2. QED
      BY <1>2, <2>1, <3>1
  <2>2. CASE o # p
    BY <1>1, <2>2
  <2>3. QED
    BY <2>1, <2>2
<1>4. \A o \in O : \A k \in 1..Len(q[o]) :
        q[o][k] \in dn /\ q[o][k] \notin tk /\ of[q[o][k]] = o /\ sd[q[o][k]] = w
  BY DEF Lane, Standing
<1>5. ASSUME NEW o \in O, NEW k \in 1..Len(q[o]), q[o][k] = Head(q[p]) PROVE o = p /\ k = 1
  <2>1. of[q[o][k]] = o /\ of[q[p][1]] = p
    BY <1>0, <1>2, <1>4
  <2>2. o = p
    BY <1>2, <1>5, <2>1
  <2>3. QED
    BY <1>2, <1>5, <2>2 DEF Lane, Apart
<1>6. Standing(q2, O, dn, of, sd, w, tk2)
  <2> SUFFICES ASSUME NEW o \in O, NEW i \in 1..Len(q2[o])
               PROVE  /\ q2[o][i] \in dn /\ q2[o][i] \notin tk2
                      /\ of[q2[o][i]] = o /\ sd[q2[o][i]] = w
    BY DEF Standing
  <2>1. PICK k \in 1..Len(q[o]) : q2[o][i] = q[o][k] /\ k = IF o = p THEN i + 1 ELSE i
    BY <1>3
  <2>2. ~(o = p /\ k = 1)
    BY <2>1
  <2>3. q[o][k] # Head(q[p])
    BY <1>5, <2>2
  <2>4. QED
    BY <1>4, <2>1, <2>3
<1>7. Apart(q2, O)
  <2> SUFFICES ASSUME NEW o \in O, NEW i \in 1..Len(q2[o]), NEW j \in 1..Len(q2[o]),
                      q2[o][i] = q2[o][j]
               PROVE  i = j
    BY DEF Apart
  <2>1. PICK k \in 1..Len(q[o]) : q2[o][i] = q[o][k] /\ k = IF o = p THEN i + 1 ELSE i
    BY <1>3
  <2>2. PICK l \in 1..Len(q[o]) : q2[o][j] = q[o][l] /\ l = IF o = p THEN j + 1 ELSE j
    BY <1>3
  <2>3. k = l
    BY <2>1, <2>2 DEF Lane, Apart
  <2>4. i \in Int /\ j \in Int
    OBVIOUS
  <2>5. QED
    BY <2>1, <2>2, <2>3, <2>4
<1>8. NoneLost(q2, dn, of, sd, w, tk2)
  <2> SUFFICES ASSUME NEW e \in dn, sd[e] = w, e \notin tk2
               PROVE  \E i \in 1..Len(q2[of[e]]) : q2[of[e]][i] = e
    BY DEF NoneLost
  <2>1. e \notin tk /\ e # Head(q[p])
    OBVIOUS
  <2>2. PICK k \in 1..Len(q[of[e]]) : q[of[e]][k] = e
    BY <2>1 DEF Lane, NoneLost
  <2>3. CASE of[e] # p
    BY <1>1, <2>2, <2>3
  <2>4. CASE of[e] = p
    <3>1. k # 1
      BY <1>2, <2>1, <2>2, <2>4
    <3>2. k - 1 \in 1..Len(q2[p])
      BY <1>2, <2>2, <2>4, <3>1
    <3>3. q2[p][k - 1] = q[p][k]
      BY <1>2, <2>2, <2>4, <3>2
    <3>4. QED
      BY <2>2, <2>4, <3>2, <3>3
  <2>5. QED
    BY <2>3, <2>4
<1>9. QED
  BY <1>6, <1>7, <1>8 DEF Lane

---------------------------------------------------------------------------
(* What a step leaves alone *)

LEMMA ChannelsKeep ==
    ASSUME IInv, UNCHANGED <<channels, got>>,
           \A q \in Posts : pc'[q] \in {"sent", "ok"} <=> pc[q] \in {"sent", "ok"},
           \A q \in Written : /\ conn'[q] = conn[q] /\ client'[q] = client[q]
                             /\ client'[conn[q]] = client[conn[q]]
    PROVE  OutLane' /\ InLane'
<1>1. outgoing' = outgoing /\ incoming' = incoming /\ got' = got
  BY DEF channels
<1>2. \A e : e \in Written' <=> e \in Written
  BY DEF Written
<1>3. \A e \in Written : Sides'[e] = Sides[e] /\ conn'[e] = conn[e] /\ (e \in Read' <=> e \in Read)
  BY <1>1 DEF Written, Sides, IsOwner, Read
<1>4. OutLane'
  <2>1. Lane(outgoing, Dials, Written, conn, Sides, "outgoing", Read)
    BY DEF IInv, OutLane
  <2>2. Lane(outgoing, Dials, Written', conn', Sides', "outgoing", Read')
    BY <1>2, <1>3, <2>1, LaneKeep
  <2>3. QED
    BY <1>1, <2>2 DEF OutLane
<1>5. InLane'
  <2>1. Lane(incoming, Dials, Written, conn, Sides, "incoming", Read)
    BY DEF IInv, InLane
  <2>2. Lane(incoming, Dials, Written', conn', Sides', "incoming", Read')
    BY <1>2, <1>3, <2>1, LaneKeep
  <2>3. QED
    BY <1>1, <2>2 DEF InLane
<1>6. QED
  BY <1>4, <1>5

LEMMA OffersKeep ==
    ASSUME IInv, pending' = pending,
           \A d \in Dials : pc'[d] = "established" <=> pc[d] = "established",
           \A d \in Offered : peer'[d] = peer[d],
           \A a \in Accepts : conn'[a] = conn[a]
    PROVE  OfferLane'
<1>1. \A e : e \in Offered' <=> e \in Offered
  BY DEF Offered
<1>2. \A e \in Offered : Ends'[e] = Ends[e] /\ peer'[e] = peer[e] /\ (e \in Accepted' <=> e \in Accepted)
  BY DEF Ends, Accepted
<1>3. Lane(pending, Clients, Offered, peer, Ends, "peer", Accepted)
  BY DEF IInv, OfferLane
<1>4. Lane(pending, Clients, Offered', peer', Ends', "peer", Accepted')
  BY <1>1, <1>2, <1>3, LaneKeep
<1>5. QED
  BY <1>4 DEF OfferLane

\* The steps of a request that leave tables, channels and offers alone: what becomes
\* of the request is what the invariant asks for.
Careful(r, to) ==
    /\ r \in Accepts =>
         /\ pc[r] # "accepted" /\ to # "accepted" /\ conn'[r] = conn[r]
         /\ to = "polling" => client'[r] \in Clients
    /\ (r \in Posts \cup Gets /\ to \notin {"new", "refused"}) =>
             client'[r] \in Clients /\ conn'[r] \in Dials /\ pc[conn'[r]] \in Open
    /\ r \in Posts =>
         /\ pc[r] \in {"sent", "ok"} <=> to \in {"sent", "ok"}
         /\ pc[r] \in {"sent", "ok"} => client'[r] = client[r] /\ conn'[r] = conn[r]
    /\ r \in Gets =>
         /\ got[r] # Nil => to \in {"taken", "data"} /\ client'[r] = client[r] /\ conn'[r] = conn[r]
         /\ to = "gone" => closes[conn'[r]] > 0 /\ Source(r)' = <<>>

LEMMA RequestMoves ==
    ASSUME IInv, TypeOK', NEW r \in Accepts \cup Posts \cup Gets, NEW to,
           pc' = [pc EXCEPT ![r] = to],
           \A k \in Reqs : k # r => client'[k] = client[k] /\ conn'[k] = conn[k],
           UNCHANGED <<connections, pending, peer, got, channels, closed, closes, sweep>>,
           Careful(r, to)
    PROVE  IInv'
<1> USE TcpAssumption
<1>1. /\ connections' = connections /\ pending' = pending /\ peer' = peer /\ got' = got
      /\ outgoing' = outgoing /\ incoming' = incoming /\ closed' = closed /\ closes' = closes
      /\ sweeping' = sweeping /\ todo' = todo
  BY DEF channels, sweep
<1>2. /\ pc'[r] = to
      /\ \A k \in Reqs : k # r => pc'[k] = pc[k] /\ client'[k] = client[k] /\ conn'[k] = conn[k]
      /\ \A d \in Dials : d \in Reqs /\ d # r /\ pc'[d] = pc[d] /\ client'[d] = client[d]
  BY DEF IInv, TypeOK, Reqs
<1>3. /\ \A k \in Posts : /\ pc'[k] \in {"sent", "ok"} <=> pc[k] \in {"sent", "ok"}
                          /\ pc[k] \in {"sent", "ok"} => conn'[k] = conn[k] /\ client'[k] = client[k]
      /\ \A k \in Accepts : conn'[k] = conn[k]
      /\ \A k \in Posts : pc[k] \in {"sent", "ok"} => conn[k] \in Dials
  BY <1>2 DEF Careful, IInv, Relays, Reqs
<1>4. DialsKnow' /\ InTables'
  <2>1. \A c \in Clients : connections[c] \subseteq Dials
    BY DEF IInv, TypeOK
  <2>2. DialsKnow'
    BY <1>1, <1>2 DEF IInv, DialsKnow
  <2>3. InTables'
    BY <1>1, <1>2, <2>1 DEF IInv, InTables
  <2>4. QED
    BY <2>2, <2>3
<1>5. Relays'
  <2> SUFFICES ASSUME NEW k \in Posts \cup Gets, pc'[k] \notin {"new", "refused"}
               PROVE  client'[k] \in Clients /\ conn'[k] \in Dials /\ pc'[conn'[k]] \in Open
    BY DEF Relays
  <2>1. CASE k = r
    BY <1>2, <2>1 DEF Careful
  <2>2. CASE k # r
    BY <1>2, <2>2 DEF IInv, Relays, Reqs
  <2>3. QED
    BY <2>1, <2>2
<1>6. Accepting'
  <2>1. ASSUME NEW a \in Accepts
        PROVE  /\ pc'[a] = "polling" => client'[a] \in Clients
               /\ pc'[a] # "accepted" => conn'[a] = Nil
               /\ conn'[a] # Nil => conn'[a] \in Offered' /\ client'[a] = peer'[conn'[a]]
    <3>1. conn[a] # Nil => conn[a] \in Offered /\ conn[a] \in Offered'
      BY <1>2 DEF IInv, Accepting, Offered
    <3>2. CASE a = r
      BY <1>2, <1>3, <3>2 DEF Careful, IInv, Accepting
    <3>3. CASE a # r
      BY <1>1, <1>2, <3>1, <3>3 DEF IInv, Accepting, Reqs
    <3>4. QED
      BY <3>2, <3>3
  <2>2. ASSUME NEW a \in Accepts, NEW b \in Accepts, conn'[a] = conn'[b], conn'[a] # Nil PROVE a = b
    BY <1>3, <2>2 DEF IInv, Accepting
  <2>3. QED
    BY <2>1, <2>2 DEF Accepting
<1>7. Getting'
  <2>1. ASSUME NEW g \in Gets, got[g] # Nil
        PROVE  /\ pc'[g] \in {"taken", "data"}
               /\ got[g] \in Written' /\ conn'[got[g]] = conn'[g]
               /\ IsOwner(got[g])' <=> ~IsOwner(g)'
    <3>1. /\ pc[g] \in {"taken", "data"} /\ got[g] \in Written /\ conn[got[g]] = conn[g]
          /\ IsOwner(got[g]) <=> ~IsOwner(g)
      BY <2>1 DEF IInv, Getting
    <3>2. /\ got[g] \in Written' /\ conn'[got[g]] = conn[got[g]] /\ client'[got[g]] = client[got[g]]
          /\ conn[got[g]] \in Dials
      BY <1>3, <3>1 DEF Written
    <3>3. pc'[g] \in {"taken", "data"} /\ conn'[g] = conn[g] /\ client'[g] = client[g]
      BY <1>2, <2>1, <3>1 DEF Careful, Reqs
    <3>4. QED
      BY <1>2, <3>1, <3>2, <3>3 DEF IsOwner
  <2>2. \A g, h \in Gets : got[g] = got[h] /\ got[g] # Nil => g = h
    BY DEF IInv, Getting
  <2>3. QED
    BY <1>1, <2>1, <2>2 DEF Getting
<1>8. OutLane' /\ InLane'
  <2>1. \A q \in Written : /\ conn'[q] = conn[q] /\ client'[q] = client[q]
                          /\ client'[conn[q]] = client[conn[q]]
    BY <1>2, <1>3 DEF Written
  <2>2. QED
    BY <1>1, <1>3, <2>1, ChannelsKeep DEF channels
<1>9. OfferLane'
  BY <1>1, <1>2, <1>3, OffersKeep
<1>10. ClosedOnce'
  BY <1>1 DEF IInv, ClosedOnce
<1>11. GoneClosed'
  <2> SUFFICES ASSUME NEW g \in Gets, pc'[g] = "gone" PROVE closes'[conn'[g]] > 0 /\ Source(g)' = <<>>
    BY DEF GoneClosed
  <2>1. CASE g = r
    BY <1>1, <1>2, <2>1 DEF Careful
  <2>2. CASE g # r
    <3>1. pc[g] = "gone" /\ conn'[g] = conn[g] /\ client'[g] = client[g] /\ conn[g] \in Dials
      BY <1>2, <2>2 DEF IInv, Relays, Reqs
    <3>2. QED
      BY <1>1, <1>2, <3>1 DEF IInv, GoneClosed, Source, IsOwner
  <2>3. QED
    BY <2>1, <2>2
<1>12. QED
  BY <1>1, <1>4, <1>5, <1>6, <1>7, <1>8, <1>9, <1>10, <1>11 DEF IInv

\* The steps of a dial.
CarefulDial(d, to) ==
    /\ pc[d] \notin {"established", "timedOut"}
    /\ pc[d] \in Open => to \in Open /\ client'[d] = client[d] /\ peer'[d] = peer[d]
    /\ to \in {"caller", "got"} \cup Open => client'[d] \in Clients /\ peer'[d] \in Clients
    /\ \A c \in Clients : \A k \in Dials : k # d => (k \in connections'[c] <=> k \in connections[c])
    /\ \A c \in Clients : d \in connections'[c] => to \in Open
    /\ to \in Open /\ d \notin closed => d \in connections'[peer'[d]]
    /\ to \in Open \ {"inPeer"} /\ d \notin closed => d \in connections'[client'[d]]

LEMMA DialMoves ==
    ASSUME IInv, TypeOK', NEW d \in Dials, NEW to,
           pc' = [pc EXCEPT ![d] = to],
           \A k \in Reqs : k # d => client'[k] = client[k],
           \A k \in Dials : k # d => peer'[k] = peer[k],
           UNCHANGED <<conn, got, channels, closed, closes, sweep>>,
           CarefulDial(d, to),
           OfferLane'
    PROVE  IInv'
<1> USE TcpAssumption
<1>1. /\ got' = got /\ conn' = conn
      /\ outgoing' = outgoing /\ incoming' = incoming /\ closed' = closed /\ closes' = closes
      /\ sweeping' = sweeping /\ todo' = todo
  BY DEF channels, sweep
<1>2. /\ pc'[d] = to
      /\ \A k \in Reqs : k # d => pc'[k] = pc[k] /\ client'[k] = client[k]
      /\ \A k \in Accepts \cup Posts \cup Gets : k \in Reqs /\ k # d
      /\ \A k \in Dials : k \in Reqs
  BY DEF IInv, TypeOK, Reqs
<1>3. \A k \in Dials : /\ pc[k] \in Open => pc'[k] \in Open /\ client'[k] = client[k] /\ peer'[k] = peer[k]
                       /\ pc[k] = "established" => pc'[k] = "established"
  BY <1>2 DEF CarefulDial, Open
<1>4. DialsKnow'
  BY <1>2 DEF CarefulDial, IInv, DialsKnow
<1>5. InTables'
  <2>1. \A c \in Clients : \A k \in connections'[c] : pc'[k] \in Open
    <3> SUFFICES ASSUME NEW c \in Clients, NEW k \in connections'[c] PROVE pc'[k] \in Open
      OBVIOUS
    <3>1. k \in Dials
      BY DEF TypeOK
    <3>2. QED
      BY <1>2, <3>1 DEF CarefulDial, IInv, InTables
  <2>2. ASSUME NEW k \in Dials \ closed'
        PROVE  /\ pc'[k] \in Open => k \in connections'[peer'[k]]
               /\ pc'[k] \in Open \ {"inPeer"} => k \in connections'[client'[k]]
    <3>1. CASE k = d
      BY <1>1, <1>2, <3>1 DEF CarefulDial
    <3>2. CASE k # d
      <4>1. pc'[k] = pc[k] /\ peer'[k] = peer[k] /\ client'[k] = client[k]
        BY <1>2, <3>2
      <4>2. pc[k] \in Open => peer[k] \in Clients /\ client[k] \in Clients
        BY DEF IInv, DialsKnow
      <4>3. QED
        BY <1>1, <3>2, <4>1, <4>2 DEF CarefulDial, IInv, InTables
    <3>3. QED
      BY <3>1, <3>2
  <2>3. QED
    BY <2>1, <2>2 DEF InTables
<1>6. Relays'
  BY <1>1, <1>2, <1>3 DEF IInv, Relays
<1>7. Accepting'
  <2>1. \A k \in Dials : k \in Offered => k \in Offered' /\ peer'[k] = peer[k]
    BY <1>3 DEF Offered, Open
  <2>2. Offered \subseteq Dials
    BY DEF Offered
  <2>3. QED
    BY <1>1, <1>2, <2>1, <2>2 DEF IInv, Accepting
<1>8. \A q \in Posts : pc'[q] = pc[q] /\ client'[q] = client[q]
  BY <1>2
<1>9. Written' = Written
  BY <1>8 DEF Written
<1>10. Getting'
  <2>1. ASSUME NEW g \in Gets, got[g] # Nil
        PROVE  /\ pc'[g] \in {"taken", "data"}
               /\ got[g] \in Written' /\ conn'[got[g]] = conn'[g]
               /\ IsOwner(got[g])' <=> ~IsOwner(g)'
    <3>1. /\ pc[g] \in {"taken", "data"} /\ got[g] \in Written /\ conn[got[g]] = conn[g]
          /\ IsOwner(got[g]) <=> ~IsOwner(g)
      BY <2>1 DEF IInv, Getting
    <3>2. got[g] \in Posts /\ pc'[g] = pc[g] /\ client'[g] = client[g]
      BY <1>2, <3>1 DEF Written
    <3>3. conn[g] \in Dials /\ client'[conn[g]] = client[conn[g]]
      BY <1>3, <3>1 DEF IInv, Relays
    <3>4. QED
      BY <1>1, <1>8, <1>9, <3>1, <3>2, <3>3 DEF IsOwner
  <2>2. \A g, h \in Gets : got[g] = got[h] /\ got[g] # Nil => g = h
    BY DEF IInv, Getting
  <2>3. QED
    BY <1>1, <2>1, <2>2 DEF Getting
<1>11. OutLane' /\ InLane'
  <2>1. \A q \in Written : /\ conn'[q] = conn[q] /\ client'[q] = client[q]
                          /\ client'[conn[q]] = client[conn[q]]
    BY <1>1, <1>3, <1>8 DEF Written, IInv, Relays
  <2>2. QED
    BY <1>1, <1>8, <2>1, ChannelsKeep DEF channels
<1>12. ClosedOnce'
  BY <1>1 DEF IInv, ClosedOnce
<1>13. GoneClosed'
  <2> SUFFICES ASSUME NEW g \in Gets, pc'[g] = "gone" PROVE closes'[conn'[g]] > 0 /\ Source(g)' = <<>>
    BY DEF GoneClosed
  <2>1. pc[g] = "gone" /\ client'[g] = client[g] /\ conn[g] \in Dials /\ client'[conn[g]] = client[conn[g]]
    BY <1>2, <1>3 DEF IInv, Relays
  <2>2. QED
    BY <1>1, <2>1 DEF IInv, GoneClosed, Source, IsOwner
<1>14. QED
  BY <1>1, <1>4, <1>5, <1>6, <1>7, <1>10, <1>11, <1>12, <1>13 DEF IInv

\* A dial that neither ends nor makes an offer.
LEMMA DialGoesOn ==
    ASSUME IInv, TypeOK', NEW d \in Dials, NEW to,
           pc' = [pc EXCEPT ![d] = to], to # "established",
           \A k \in Reqs : k # d => client'[k] = client[k],
           \A k \in Dials : k # d => peer'[k] = peer[k],
           UNCHANGED <<conn, got, pending, channels, closed, closes, sweep>>,
           CarefulDial(d, to)
    PROVE  IInv'
<1>1. /\ pc'[d] = to /\ d \in Reqs /\ \A k \in Dials : k \in Reqs
      /\ \A k \in Reqs : k # d => pc'[k] = pc[k]
  BY DEF IInv, TypeOK, Reqs
<1>2. \A k \in Offered : peer'[k] = peer[k]
  BY DEF Offered, CarefulDial
<1>3. \A k \in Dials : pc'[k] = "established" <=> pc[k] = "established"
  BY <1>1 DEF CarefulDial
<1>4. OfferLane'
  BY <1>2, <1>3, OffersKeep
<1>5. UNCHANGED <<conn, got, channels, closed, closes, sweep>>
  OBVIOUS
<1>6. QED
  BY <1>4, <1>5, DialMoves

\* Steps of the table, of cleanup and of time.
LEMMA OthersKeep ==
    ASSUME IInv, TypeOK', ~sweeping' => todo' = {},
           UNCHANGED <<connections, pending, closed, closes, channels, pc, client, peer, conn, got>>
    PROVE  IInv'
<1>1. /\ connections' = connections /\ pending' = pending /\ peer' = peer /\ got' = got
      /\ outgoing' = outgoing /\ incoming' = incoming /\ closed' = closed /\ closes' = closes
      /\ pc' = pc /\ client' = client /\ conn' = conn
  BY DEF channels
<1>2. DialsKnow' /\ InTables' /\ Relays' /\ ClosedOnce'
  BY <1>1 DEF IInv, DialsKnow, InTables, Relays, ClosedOnce
<1>3. Accepting'
  BY <1>1 DEF IInv, Accepting, Offered
<1>4. Getting'
  BY <1>1 DEF IInv, Getting, Written, IsOwner
<1>5. OutLane' /\ InLane' /\ OfferLane'
  BY <1>1 DEF IInv, OutLane, InLane, OfferLane, Written, Sides, IsOwner, Read, Offered, Accepted, Ends
<1>6. GoneClosed'
  BY <1>1 DEF IInv, GoneClosed, Source, IsOwner
<1>7. QED
  BY <1>2, <1>3, <1>4, <1>5, <1>6 DEF IInv

---------------------------------------------------------------------------
(* Dial *)

LEMMA DialPushKeeps == ASSUME IInv, NEW d \in Dials, DialPush(d) PROVE IInv'
<1> USE TcpAssumption
<1>1. /\ pc[d] = "inBoth" /\ pc' = [pc EXCEPT ![d] = "established"] /\ d \in Reqs
      /\ client[d] \in Clients /\ peer[d] \in Clients
      /\ d \notin closed => d \in connections[peer[d]] \cap connections[client[d]]
  BY DEF DialPush, Goto, IInv, DialsKnow, InTables, Open, Reqs
<1>2. /\ peer' = peer /\ client' = client /\ conn' = conn /\ connections' = connections /\ got' = got
      /\ outgoing' = outgoing /\ incoming' = incoming /\ closed' = closed /\ closes' = closes
      /\ sweeping' = sweeping /\ todo' = todo
      /\ stored' = stored /\ permissions' = permissions /\ active' = active /\ idle' = idle
      /\ attempts' = attempts
  BY DEF DialPush, states, channels, requests, sweep
<1>3. /\ pending \in [Clients -> Seq(Dials)] /\ Len(pending[peer[d]]) < PendingCap
      /\ pending' = [pending EXCEPT ![peer[d]] = Append(@, d)]
  BY DEF DialPush, IInv, TypeOK
<1>4. TypeOK'
  <2>1. pending' \in [Clients -> Seq(Dials)]
    BY <1>1, <1>3
  <2>2. \A c \in Clients : Len(pending'[c]) <= PendingCap
    <3>1. ASSUME NEW c \in Clients, c # peer[d] PROVE Len(pending'[c]) <= PendingCap
      BY <1>1, <1>3, <3>1 DEF IInv, TypeOK
    <3>2. Len(pending'[peer[d]]) = Len(pending[peer[d]]) + 1 /\ Len(pending[peer[d]]) \in Nat
      BY <1>1, <1>3
    <3>3. QED
      BY <1>3, <3>1, <3>2
  <2>3. pc' \in [Reqs -> Steps]
    BY <1>1 DEF IInv, TypeOK, Steps
  <2>4. QED
    BY <1>2, <2>1, <2>2, <2>3 DEF IInv, TypeOK
<1>5. OfferLane'
  <2>1. Lane(pending, Clients, Offered, peer, Ends, "peer", Accepted)
    BY DEF IInv, OfferLane
  <2>2. \A e \in Offered : peer[e] \in Clients
    BY DEF Offered, IInv, DialsKnow, Open
  <2>3. Ends[d] = "peer" /\ d \notin Offered
    BY <1>1 DEF Ends, Offered
  <2>4. d \notin Accepted
    BY <2>3 DEF Accepted, IInv, Accepting, Reqs
  <2>5. \A e : e \in Offered' <=> e \in Offered \/ e = d
    BY <1>1 DEF Offered, IInv, TypeOK, Reqs
  <2>6. \A c \in Clients : pending'[c] = IF c = peer[d] THEN Append(pending[c], d) ELSE pending[c]
    BY <1>1, <1>3
  <2>7. Lane(pending', Clients, Offered', peer, Ends, "peer", Accepted)
    <3>1. Pushed(pending, pending', Dials, Clients, peer, d)
      BY <1>1, <1>3, <2>6 DEF Pushed
    <3>2. QED
      BY <2>1, <2>2, <2>3, <2>4, <2>5, <3>1, LanePush
  <2>8. Accepted' = Accepted /\ Ends' = Ends
    BY <1>2 DEF Accepted, Ends
  <2>9. QED
    BY <1>2, <2>7, <2>8 DEF OfferLane
<1>6. CarefulDial(d, "established")
  BY <1>1, <1>2 DEF CarefulDial, Open, IInv, InTables
<1>7. QED
  <2>1. UNCHANGED <<conn, got, channels, closed, closes, sweep>>
    BY <1>2 DEF channels, sweep
  <2>2. /\ \A k \in Reqs : k # d => client'[k] = client[k]
        /\ \A k \in Dials : k # d => peer'[k] = peer[k]
    BY <1>2
  <2>3. pc' = [pc EXCEPT ![d] = "established"]
    BY <1>1
  <2>4. QED
    BY <1>4, <1>5, <1>6, <2>1, <2>2, <2>3, DialMoves

LEMMA DialStepKeeps ==
    ASSUME IInv, NEW d \in Dials, DialLookup(d) \/ DialIntoPeer(d) \/ DialIntoCaller(d) \/ DialTimeout(d)
    PROVE  IInv'
<1> USE TcpAssumption
<1>1. /\ d \in Reqs /\ pc[d] \in {"caller", "got", "inPeer", "inBoth"}
      /\ client[d] \in Clients /\ peer[d] \in Clients
      /\ pc[d] \in Open /\ d \notin closed => d \in connections[peer[d]]
      /\ pc[d] = "inBoth" /\ d \notin closed => d \in connections[client[d]]
  BY DEF DialLookup, DialGetPeer, DialNoPeer, DialIntoPeer, DialIntoCaller, DialTimeout, Goto,
         IInv, DialsKnow, InTables, Open, Reqs
<1>2. /\ peer' = peer /\ client' = client /\ conn' = conn /\ got' = got
      /\ outgoing' = outgoing /\ incoming' = incoming /\ closed' = closed /\ closes' = closes
      /\ sweeping' = sweeping /\ todo' = todo /\ pending' = pending
      /\ stored' = stored /\ active' = active /\ idle' = idle /\ attempts' = attempts
  BY DEF DialLookup, DialGetPeer, DialNoPeer, DialIntoPeer, DialIntoCaller, DialTimeout,
         tables, states, channels, requests, sweep
<1>3. permissions' \in [Clients -> SUBSET Clients]
  <2>1. permissions \in [Clients -> SUBSET Clients]
    BY DEF IInv, TypeOK
  <2>2. CASE DialGetPeer(d)
    BY <1>1, <2>1, <2>2 DEF DialGetPeer
  <2>3. CASE ~DialGetPeer(d)
    BY <2>1, <2>3 DEF DialLookup, DialNoPeer, DialIntoPeer, DialIntoCaller, DialTimeout, tables
  <2>4. QED
    BY <2>2, <2>3
<1>4. \E to \in {"got", "refused", "inPeer", "inBoth", "timedOut"} :
        /\ pc' = [pc EXCEPT ![d] = to]
        /\ connections' \in [Clients -> SUBSET Dials]
        /\ CarefulDial(d, to)
  <2>1. CASE DialLookup(d)
    <3>1. pc[d] = "caller" /\ connections' = connections
      BY <2>1 DEF DialLookup, DialGetPeer, DialNoPeer, Goto, tables
    <3>2. \A c \in Clients : d \notin connections[c]
      BY <3>1 DEF IInv, InTables, Open
    <3>3. CarefulDial(d, "got") /\ CarefulDial(d, "refused")
      BY <1>1, <1>2, <3>1, <3>2 DEF CarefulDial, Open
    <3>4. QED
      BY <2>1, <3>1, <3>3 DEF DialLookup, DialGetPeer, DialNoPeer, Goto, IInv, TypeOK
  <2>2. CASE DialIntoPeer(d)
    <3>1. pc[d] = "got" /\ connections' = [connections EXCEPT ![peer[d]] = @ \cup {d}]
      BY <2>2 DEF DialIntoPeer, Goto
    <3>2. connections \in [Clients -> SUBSET Dials] /\ \A c \in Clients : d \notin connections[c]
      BY <3>1 DEF IInv, InTables, Open, TypeOK
    <3>3. CarefulDial(d, "inPeer")
      BY <1>1, <1>2, <3>1, <3>2 DEF CarefulDial, Open
    <3>4. QED
      BY <1>1, <2>2, <3>1, <3>2, <3>3 DEF DialIntoPeer, Goto
  <2>3. CASE DialIntoCaller(d)
    <3>1. pc[d] = "inPeer" /\ connections' = [connections EXCEPT ![client[d]] = @ \cup {d}]
      BY <2>3 DEF DialIntoCaller, Goto
    <3>2. connections \in [Clients -> SUBSET Dials]
      BY DEF IInv, TypeOK
    <3>3. CarefulDial(d, "inBoth")
      BY <1>1, <1>2, <3>1, <3>2 DEF CarefulDial, Open
    <3>4. QED
      BY <1>1, <2>3, <3>1, <3>2, <3>3 DEF DialIntoCaller, Goto
  <2>4. CASE DialTimeout(d)
    <3>1. pc[d] = "inBoth" /\ connections' = connections
      BY <2>4 DEF DialTimeout, Goto, tables
    <3>2. CarefulDial(d, "timedOut")
      BY <1>1, <1>2, <3>1 DEF CarefulDial, Open
    <3>3. QED
      BY <2>4, <3>1, <3>2 DEF DialTimeout, Goto, IInv, TypeOK
  <2>5. QED
    BY <2>1, <2>2, <2>3, <2>4
<1>5. TypeOK'
  <2>1. pc' \in [Reqs -> Steps]
    BY <1>1, <1>4 DEF IInv, TypeOK, Steps
  <2>2. QED
    BY <1>2, <1>3, <1>4, <2>1 DEF IInv, TypeOK
<1>6. QED
  <2>1. PICK to \in {"got", "refused", "inPeer", "inBoth", "timedOut"} :
          pc' = [pc EXCEPT ![d] = to] /\ CarefulDial(d, to)
    BY <1>4
  <2>2. UNCHANGED <<conn, got, pending, channels, closed, closes, sweep>>
    BY <1>2 DEF channels, sweep
  <2>3. QED
    BY <1>2, <1>5, <2>1, <2>2, DialGoesOn

LEMMA DialArrives ==
    ASSUME IInv, NEW d \in Dials, NEW c \in Clients, NEW p \in Clients,
           DialGetCaller(d, c, p) \/ DialNoCaller(d, c)
    PROVE  IInv'
<1> USE TcpAssumption
<1>1. pc[d] = "new" /\ d \in Reqs /\ \A b \in Clients : d \notin connections[b]
  BY DEF DialGetCaller, DialNoCaller, Goto, IInv, InTables, Open, Reqs
<1>2. /\ conn' = conn /\ got' = got /\ connections' = connections /\ pending' = pending
      /\ outgoing' = outgoing /\ incoming' = incoming /\ closed' = closed /\ closes' = closes
      /\ sweeping' = sweeping /\ todo' = todo /\ stored' = stored /\ permissions' = permissions
      /\ active' = active /\ idle' = idle /\ attempts' = attempts
  BY DEF DialGetCaller, DialNoCaller, tables, states, channels, requests, sweep
<1>3. CASE DialGetCaller(d, c, p)
  <2>1. /\ pc' = [pc EXCEPT ![d] = "caller"] /\ client' = [client EXCEPT ![d] = c]
        /\ peer' = [peer EXCEPT ![d] = p]
    BY <1>3 DEF DialGetCaller, Goto
  <2>2. /\ client' \in [Reqs -> Clients \cup {Nil}] /\ peer' \in [Dials -> Clients \cup {Nil}]
        /\ client'[d] = c /\ peer'[d] = p
        /\ \A k \in Reqs : k # d => client'[k] = client[k]
        /\ \A k \in Dials : k # d => peer'[k] = peer[k]
    BY <1>1, <2>1 DEF IInv, TypeOK
  <2>3. TypeOK'
    <3>1. pc' \in [Reqs -> Steps]
      BY <1>1, <2>1 DEF IInv, TypeOK, Steps
    <3>2. QED
      BY <1>2, <2>2, <3>1 DEF IInv, TypeOK
  <2>4. CarefulDial(d, "caller")
    BY <1>1, <1>2, <2>2 DEF CarefulDial, Open
  <2>5. UNCHANGED <<conn, got, pending, channels, closed, closes, sweep>>
    BY <1>2 DEF channels, sweep
  <2>6. QED
    BY <1>2, <2>1, <2>2, <2>3, <2>4, <2>5, DialGoesOn
<1>4. CASE DialNoCaller(d, c)
  <2>1. pc' = [pc EXCEPT ![d] = "refused"] /\ client' = client /\ peer' = peer
    BY <1>4 DEF DialNoCaller, Goto, requests
  <2>2. TypeOK'
    <3>1. pc' \in [Reqs -> Steps]
      BY <1>1, <2>1 DEF IInv, TypeOK, Steps
    <3>2. QED
      BY <1>2, <2>1, <3>1 DEF IInv, TypeOK
  <2>3. CarefulDial(d, "refused")
    BY <1>1, <1>2, <2>1 DEF CarefulDial, Open
  <2>4. UNCHANGED <<conn, got, pending, channels, closed, closes, sweep>>
    BY <1>2 DEF channels, sweep
  <2>5. QED
    BY <1>2, <2>1, <2>2, <2>3, <2>4, DialGoesOn
<1>5. QED
  BY <1>3, <1>4

---------------------------------------------------------------------------
(* Requests *)

\* A step of a request that moves nothing between the queues.
LEMMA RequestActs ==
    ASSUME IInv, NEW r \in Accepts \cup Posts \cup Gets, NEW to \in Steps,
           pc' = [pc EXCEPT ![r] = to],
           client' \in [Reqs -> Clients \cup {Nil}], conn' \in [Reqs -> Dials \cup {Nil}],
           \A k \in Reqs : k # r => client'[k] = client[k] /\ conn'[k] = conn[k],
           active' \subseteq Dials, idle' \subseteq Dials, attempts' \in [Posts -> 0..MaxAttempts],
           UNCHANGED <<tables, peer, got, channels, closed, closes, sweep>>,
           Careful(r, to)
    PROVE  IInv'
<1>1. UNCHANGED <<connections, pending, peer, got, channels, closed, closes, sweep>>
  BY DEF tables
<1>2. TypeOK'
  <2>1. pc' \in [Reqs -> Steps]
    BY DEF IInv, TypeOK
  <2>2. QED
    BY <2>1 DEF IInv, TypeOK, tables, channels, sweep
<1>3. QED
  BY <1>1, <1>2, RequestMoves

LEMMA RequestStays ==
    ASSUME IInv, NEW r \in Accepts \cup Posts \cup Gets, NEW to \in Steps,
           pc' = [pc EXCEPT ![r] = to],
           active' \subseteq Dials, idle' \subseteq Dials, attempts' \in [Posts -> 0..MaxAttempts],
           UNCHANGED <<tables, client, conn, peer, got, channels, closed, closes, sweep>>,
           Careful(r, to)
    PROVE  IInv'
<1>1. client' \in [Reqs -> Clients \cup {Nil}] /\ conn' \in [Reqs -> Dials \cup {Nil}]
  BY DEF IInv, TypeOK
<1>2. \A k \in Reqs : k # r => client'[k] = client[k] /\ conn'[k] = conn[k]
  OBVIOUS
<1>3. UNCHANGED <<tables, peer, got, channels, closed, closes, sweep>>
  OBVIOUS
<1>4. QED
  BY <1>1, <1>2, <1>3, RequestActs

LEMMA AcceptKeeps ==
    ASSUME IInv, NEW a \in Accepts, NEW c \in Clients,
           AcceptGet(a, c) \/ AcceptRefused(a, c) \/ AcceptTimeout(a)
    PROVE  IInv'
<1> USE TcpAssumption
<1>1. /\ a \in Reqs /\ a \notin Posts \cup Gets
      /\ pc[a] \in {"new", "polling"}
      /\ active' = active /\ idle' = idle /\ attempts' = attempts
      /\ conn' = conn
  BY DEF AcceptGet, AcceptRefused, AcceptTimeout, Goto, Reqs, states, requests
<1>2. active' \subseteq Dials /\ idle' \subseteq Dials /\ attempts' \in [Posts -> 0..MaxAttempts]
  BY <1>1 DEF IInv, TypeOK
<1>3. UNCHANGED <<tables, peer, got, channels, closed, closes, sweep>>
  BY DEF AcceptGet, AcceptRefused, AcceptTimeout, states, requests
<1>4. CASE AcceptGet(a, c)
  <2>1. pc' = [pc EXCEPT ![a] = "polling"] /\ client' = [client EXCEPT ![a] = c]
    BY <1>4 DEF AcceptGet, Goto
  <2>2. client \in [Reqs -> Clients \cup {Nil}] /\ conn' \in [Reqs -> Dials \cup {Nil}]
    BY <1>1 DEF IInv, TypeOK
  <2>3. client' \in [Reqs -> Clients \cup {Nil}] /\ client'[a] = c
    BY <1>1, <2>1, <2>2
  <2>4. \A k \in Reqs : k # a => client'[k] = client[k] /\ conn'[k] = conn[k]
    BY <1>1, <2>1, <2>2
  <2>5. Careful(a, "polling")
    BY <1>1, <2>3 DEF Careful
  <2>6. "polling" \in Steps
    BY DEF Steps
  <2>7. QED
    BY <1>2, <1>3, <2>1, <2>2, <2>3, <2>4, <2>5, <2>6, RequestActs
<1>5. CASE AcceptRefused(a, c) \/ AcceptTimeout(a)
  <2>1. pc' = [pc EXCEPT ![a] = "refused"] /\ client' = client
    BY <1>5 DEF AcceptRefused, AcceptTimeout, Goto, requests
  <2>2. UNCHANGED <<tables, client, conn, peer, got, channels, closed, closes, sweep>>
    BY <1>1, <1>3, <2>1
  <2>3. Careful(a, "refused")
    BY <1>1 DEF Careful
  <2>4. "refused" \in Steps
    BY DEF Steps
  <2>5. QED
    BY <1>2, <2>1, <2>2, <2>3, <2>4, RequestStays
<1>6. QED
  BY <1>4, <1>5

LEMMA RelayArrives ==
    ASSUME IInv, NEW c \in Clients, NEW d \in Dials, NEW r \in Posts \cup Gets,
           NEW to, to = IF r \in Posts THEN "sending" ELSE "polling",
           RelayGet(r, c, d, to) \/ RelayRefused(r, c, d)
    PROVE  IInv'
<1> USE TcpAssumption
<1>1. /\ r \in Reqs /\ r \notin Accepts /\ pc[r] = "new"
      /\ active' = active /\ idle' = idle /\ attempts' = attempts
  BY DEF RelayGet, RelayRefused, Goto, Reqs, states, requests
<1>2. active' \subseteq Dials /\ idle' \subseteq Dials /\ attempts' \in [Posts -> 0..MaxAttempts]
  BY <1>1 DEF IInv, TypeOK
<1>3. UNCHANGED <<tables, peer, got, channels, closed, closes, sweep>>
  BY DEF RelayGet, RelayRefused, states, requests
<1>4. r \in Gets => got[r] = Nil
  BY <1>1 DEF IInv, Getting
<1>5. CASE RelayGet(r, c, d, to)
  <2>1. /\ pc' = [pc EXCEPT ![r] = to] /\ client' = [client EXCEPT ![r] = c]
        /\ conn' = [conn EXCEPT ![r] = d] /\ pc[d] \in Open
    BY <1>5 DEF RelayGet, Goto, IInv, InTables
  <2>2. client \in [Reqs -> Clients \cup {Nil}] /\ conn \in [Reqs -> Dials \cup {Nil}]
    BY DEF IInv, TypeOK
  <2>3. /\ client' \in [Reqs -> Clients \cup {Nil}] /\ client'[r] = c
        /\ conn' \in [Reqs -> Dials \cup {Nil}] /\ conn'[r] = d
    BY <1>1, <2>1, <2>2
  <2>4. \A k \in Reqs : k # r => client'[k] = client[k] /\ conn'[k] = conn[k]
    BY <2>1, <2>2
  <2>5. Careful(r, to)
    BY <1>1, <1>4, <2>1, <2>3 DEF Careful
  <2>6. to \in Steps
    BY DEF Steps
  <2>7. pc' = [pc EXCEPT ![r] = to]
    BY <2>1
  <2>8. r \in Accepts \cup Posts \cup Gets
    OBVIOUS
  <2>9. QED
    BY <1>2, <1>3, <2>3, <2>4, <2>5, <2>6, <2>7, <2>8, RequestActs
<1>6. CASE RelayRefused(r, c, d)
  <2>1. pc' = [pc EXCEPT ![r] = "refused"]
    BY <1>6 DEF RelayRefused, Goto
  <2>2. UNCHANGED <<tables, client, conn, peer, got, channels, closed, closes, sweep>>
    BY <1>6 DEF RelayRefused, states, requests
  <2>3. Careful(r, "refused")
    BY <1>1, <1>4 DEF Careful
  <2>4. "refused" \in Steps
    BY DEF Steps
  <2>5. QED
    BY <1>2, <2>1, <2>2, <2>3, <2>4, RequestStays
<1>7. QED
  BY <1>5, <1>6

LEMMA PostKeeps ==
    ASSUME IInv, Trying, NEW q \in Posts, PostPanic(q) \/ PostBackoff(q) \/ PostTouch(q)
    PROVE  IInv'
<1> USE TcpAssumption
<1>1. /\ q \in Reqs /\ q \notin Accepts \cup Gets /\ pc[q] \in {"sending", "sent"}
      /\ client[q] \in Clients /\ conn[q] \in Dials /\ pc[conn[q]] \in Open
  BY DEF PostPanic, PostBackoff, PostTouch, Goto, Reqs, IInv, Relays
<1>2. UNCHANGED <<tables, client, conn, peer, got, channels, closed, closes, sweep>>
  BY DEF PostPanic, PostBackoff, PostTouch, Touch, states, requests
<1>3. active' \subseteq Dials /\ idle' \subseteq Dials
  BY <1>1 DEF PostPanic, PostBackoff, PostTouch, Touch, states, IInv, TypeOK
<1>4. attempts \in [Posts -> 0..MaxAttempts]
  BY DEF IInv, TypeOK
<1>5. CASE PostPanic(q)
  <2>1. pc[q] = "sending" /\ pc' = [pc EXCEPT ![q] = "panicked"] /\ attempts' = attempts
    BY <1>5 DEF PostPanic, Goto, requests
  <2>2. Careful(q, "panicked")
    BY <1>1, <1>2, <2>1 DEF Careful
  <2>3. "panicked" \in Steps
    BY DEF Steps
  <2>4. QED
    BY <1>2, <1>3, <1>4, <2>1, <2>2, <2>3, RequestStays
<1>6. CASE PostTouch(q)
  <2>1. pc[q] = "sent" /\ pc' = [pc EXCEPT ![q] = "ok"] /\ attempts' = attempts
    BY <1>6 DEF PostTouch, Goto, requests
  <2>2. Careful(q, "ok")
    BY <1>1, <1>2, <2>1 DEF Careful
  <2>3. "ok" \in Steps
    BY DEF Steps
  <2>4. QED
    BY <1>2, <1>3, <1>4, <2>1, <2>2, <2>3, RequestStays
<1>7. CASE PostBackoff(q)
  <2>1. /\ pc[q] = "sending" /\ attempts' = [attempts EXCEPT ![q] = @ + 1]
        /\ pc' = IF attempts'[q] = MaxAttempts THEN [pc EXCEPT ![q] = "tooMany"] ELSE pc
    BY <1>7 DEF PostBackoff
  <2>2. pc \in [Reqs -> Steps]
    BY DEF IInv, TypeOK
  <2>3. PICK to \in {"sending", "tooMany"} : pc' = [pc EXCEPT ![q] = to]
    BY <2>1, <2>2
  <2>4. Careful(q, to)
    BY <1>1, <1>2, <2>1 DEF Careful
  <2>5. to \in Steps
    BY DEF Steps
  <2>6. attempts' \in [Posts -> 0..MaxAttempts]
    <3>1. /\ attempts[q] \in 0..MaxAttempts /\ attempts[q] < MaxAttempts
          /\ MaxAttempts \in Nat
      BY <1>4, <2>1 DEF Trying
    <3>2. attempts[q] + 1 \in 0..MaxAttempts
      BY <3>1
    <3>3. QED
      BY <1>4, <2>1, <3>2
  <2>7. QED
    BY <1>2, <1>3, <2>3, <2>4, <2>5, <2>6, RequestStays
<1>8. QED
  BY <1>5, <1>6, <1>7

LEMMA GetKeeps ==
    ASSUME IInv, NEW g \in Gets, GetTouch(g) \/ GetGone(g) \/ GetTimeout(g)
    PROVE  IInv'
<1> USE TcpAssumption
<1>1. /\ g \in Reqs /\ g \notin Accepts \cup Posts /\ pc[g] \in {"polling", "taken"}
      /\ client[g] \in Clients /\ conn[g] \in Dials /\ pc[conn[g]] \in Open
      /\ pc[g] = "polling" => got[g] = Nil
  BY DEF GetTouch, GetGone, GetTimeout, Goto, Reqs, IInv, Relays, Getting
<1>2. UNCHANGED <<tables, client, conn, peer, got, channels, closed, closes, sweep>>
  BY DEF GetTouch, GetGone, GetTimeout, Touch, states, requests
<1>3. /\ active' \subseteq Dials /\ idle' \subseteq Dials
      /\ attempts' = attempts /\ attempts \in [Posts -> 0..MaxAttempts]
  BY <1>1 DEF GetTouch, GetGone, GetTimeout, Touch, states, requests, IInv, TypeOK
<1>4. CASE GetTouch(g)
  <2>1. pc[g] = "taken" /\ pc' = [pc EXCEPT ![g] = "data"]
    BY <1>4 DEF GetTouch, Goto
  <2>2. Careful(g, "data")
    BY <1>1, <1>2, <2>1 DEF Careful
  <2>3. "data" \in Steps
    BY DEF Steps
  <2>4. QED
    BY <1>2, <1>3, <2>1, <2>2, <2>3, RequestStays
<1>5. CASE GetGone(g)
  <2>1. /\ pc[g] = "polling" /\ pc' = [pc EXCEPT ![g] = "gone"]
        /\ closes[conn[g]] > 0 /\ Source(g) = <<>>
    BY <1>5 DEF GetGone, Goto
  <2>2. Source(g)' = Source(g)
    BY <1>2 DEF Source, IsOwner, channels
  <2>3. Careful(g, "gone")
    BY <1>1, <1>2, <2>1, <2>2 DEF Careful
  <2>4. "gone" \in Steps
    BY DEF Steps
  <2>5. QED
    BY <1>2, <1>3, <2>1, <2>3, <2>4, RequestStays
<1>6. CASE GetTimeout(g)
  <2>1. pc[g] = "polling" /\ pc' = [pc EXCEPT ![g] = "noContent"]
    BY <1>6 DEF GetTimeout, Goto
  <2>2. Careful(g, "noContent")
    BY <1>1, <1>2, <2>1 DEF Careful
  <2>3. "noContent" \in Steps
    BY DEF Steps
  <2>4. QED
    BY <1>2, <1>3, <2>1, <2>2, <2>3, RequestStays
<1>7. QED
  BY <1>4, <1>5, <1>6

LEMMA AcceptTakeKeeps == ASSUME IInv, NEW a \in Accepts, AcceptTake(a) PROVE IInv'
<1> DEFINE h == Head(pending[client[a]])
<1>1. /\ pc[a] = "polling" /\ client[a] \in Clients /\ a \in Reqs /\ conn[a] = Nil
      /\ pc' = [pc EXCEPT ![a] = "accepted"] /\ conn' = [conn EXCEPT ![a] = h]
      /\ pending' = [pending EXCEPT ![client[a]] = Tail(@)] /\ pending[client[a]] # <<>>
  BY DEF AcceptTake, Goto, IInv, Accepting, Reqs
<1>2. /\ connections' = connections /\ peer' = peer /\ got' = got /\ client' = client
      /\ outgoing' = outgoing /\ incoming' = incoming /\ closed' = closed /\ closes' = closes
      /\ sweeping' = sweeping /\ todo' = todo /\ stored' = stored /\ permissions' = permissions
      /\ active' = active /\ idle' = idle /\ attempts' = attempts
  BY DEF AcceptTake, states, channels, sweep
<1>3. pending \in [Clients -> Seq(Dials)] /\ \A c \in Clients : Len(pending[c]) <= PendingCap
  BY DEF IInv, TypeOK
<1>4. /\ pending[client[a]] \in Seq(Dials) /\ 1 \in 1..Len(pending[client[a]])
      /\ h = pending[client[a]][1] /\ h \in Dials
      /\ Tail(pending[client[a]]) \in Seq(Dials)
      /\ Len(Tail(pending[client[a]])) = Len(pending[client[a]]) - 1
      /\ Len(pending[client[a]]) \in Nat
  BY <1>1, <1>3, HeadTailProperties
<1>5. h \in Offered /\ h \notin Accepted /\ peer[h] = client[a]
  BY <1>1, <1>4 DEF IInv, OfferLane, Lane, Standing
<1>6. TypeOK'
  <2>1. pc' \in [Reqs -> Steps]
    BY <1>1 DEF IInv, TypeOK, Steps
  <2>2. conn' \in [Reqs -> Dials \cup {Nil}]
    BY <1>1, <1>4 DEF IInv, TypeOK
  <2>3. pending' \in [Clients -> Seq(Dials)]
    BY <1>1, <1>3, <1>4
  <2>4. \A c \in Clients : Len(pending'[c]) <= PendingCap
    <3>1. ASSUME NEW c \in Clients PROVE Len(pending'[c]) <= PendingCap
      <4>1. CASE c = client[a]
        <5>1. Len(pending'[c]) = Len(pending[c]) - 1 /\ Len(pending[c]) \in Nat
          BY <1>1, <1>3, <1>4, <4>1
        <5>2. Len(pending[c]) <= PendingCap /\ PendingCap \in Nat
          BY <1>3, TcpAssumption
        <5>3. QED
          BY <5>1, <5>2
      <4>2. CASE c # client[a]
        BY <1>1, <1>3, <4>2
      <4>3. QED
        BY <4>1, <4>2
    <3>2. QED
      BY <3>1
  <2>5. QED
    BY <1>2, <2>1, <2>2, <2>3, <2>4 DEF IInv, TypeOK
<1>7. /\ pc'[a] = "accepted" /\ conn'[a] = h
      /\ \A k \in Reqs : k # a => pc'[k] = pc[k] /\ conn'[k] = conn[k]
      /\ \A k \in Dials \cup Posts \cup Gets : k \in Reqs /\ k # a
      /\ \A k \in Accepts : k \in Reqs
  BY <1>1, TcpAssumption DEF IInv, TypeOK, Reqs
<1>8. DialsKnow' /\ InTables' /\ ClosedOnce'
  <2>1. \A c \in Clients : connections[c] \subseteq Dials
    BY DEF IInv, TypeOK
  <2>2. DialsKnow' /\ ClosedOnce'
    BY <1>2, <1>7 DEF IInv, DialsKnow, ClosedOnce
  <2>3. InTables'
    BY <1>2, <1>7, <2>1 DEF IInv, InTables
  <2>4. QED
    BY <2>2, <2>3
<1>9. Relays'
  BY <1>2, <1>7 DEF IInv, Relays
<1>10. Offered' = Offered
  BY <1>7 DEF Offered
<1>11. Accepting'
  <2>1. ASSUME NEW b \in Accepts
        PROVE  /\ pc'[b] = "polling" => client'[b] \in Clients
               /\ pc'[b] # "accepted" => conn'[b] = Nil
               /\ conn'[b] # Nil => conn'[b] \in Offered' /\ client'[b] = peer'[conn'[b]]
    <3>1. CASE b = a
      BY <1>2, <1>5, <1>7, <1>10, <3>1
    <3>2. CASE b # a
      BY <1>2, <1>7, <1>10, <3>2 DEF IInv, Accepting
    <3>3. QED
      BY <3>1, <3>2
  <2>2. ASSUME NEW b \in Accepts, NEW e \in Accepts, conn'[b] = conn'[e], conn'[b] # Nil PROVE b = e
    <3>1. \A k \in Accepts : conn[k] # h
      BY <1>5 DEF Accepted
    <3>2. QED
      BY <1>7, <2>2, <3>1 DEF IInv, Accepting
  <2>3. QED
    BY <2>1, <2>2 DEF Accepting
<1>12. Written' = Written
  BY <1>7 DEF Written
<1>13. Getting'
  BY <1>2, <1>7, <1>12 DEF IInv, Getting, Written, IsOwner
<1>14. OutLane' /\ InLane'
  <2>1. \A q \in Posts : pc'[q] \in {"sent", "ok"} <=> pc[q] \in {"sent", "ok"}
    BY <1>7
  <2>2. \A q \in Written : /\ conn'[q] = conn[q] /\ client'[q] = client[q]
                          /\ client'[conn[q]] = client[conn[q]]
    BY <1>2, <1>7 DEF Written
  <2>3. QED
    BY <1>2, <2>1, <2>2, ChannelsKeep DEF channels
<1>15. OfferLane'
  <2>1. Lane(pending, Clients, Offered, peer, Ends, "peer", Accepted)
    BY DEF IInv, OfferLane
  <2>2. \A e \in Offered : peer[e] \in Clients
    BY DEF Offered, IInv, DialsKnow, Open
  <2>3. Popped(pending, pending', Dials, Clients, client[a])
    BY <1>1, <1>3 DEF Popped
  <2>4. \A e \in Offered : e \in Accepted' <=> e \in Accepted \/ e = Head(pending[client[a]])
    <3>1. ASSUME NEW e \in Offered PROVE e \in Accepted' <=> e \in Accepted \/ e = h
      <4>1. e # Nil
        BY TcpAssumption DEF Offered, Reqs
      <4>2. QED
        BY <1>1, <1>7, <4>1 DEF Accepted
    <3>2. QED
      BY <3>1
  <2>5. Lane(pending', Clients, Offered, peer, Ends, "peer", Accepted')
    BY <2>1, <2>2, <2>3, <2>4, LaneTake
  <2>6. QED
    BY <1>2, <1>10, <2>5 DEF OfferLane, Ends
<1>16. GoneClosed'
  BY <1>2, <1>7 DEF IInv, GoneClosed, Relays, Source, IsOwner
<1>17. QED
  BY <1>2, <1>6, <1>8, <1>9, <1>11, <1>13, <1>14, <1>15, <1>16 DEF IInv

---------------------------------------------------------------------------
(* Data *)

LEMMA PostSendKeeps == ASSUME IInv, NEW q \in Posts, PostSend(q) PROVE IInv'
<1>1. /\ pc[q] = "sending" /\ q \in Reqs /\ pc' = [pc EXCEPT ![q] = "sent"]
      /\ client[q] \in Clients /\ conn[q] \in Dials
      /\ closes[conn[q]] = 0 /\ Len(Target(q)) < ChanCap /\ Enqueue(q)
  BY DEF PostSend, Goto, IInv, Relays, Reqs
<1>2. /\ connections' = connections /\ peer' = peer /\ got' = got /\ client' = client
      /\ conn' = conn /\ pending' = pending /\ closed' = closed /\ closes' = closes
      /\ sweeping' = sweeping /\ todo' = todo /\ stored' = stored /\ permissions' = permissions
      /\ active' = active /\ idle' = idle /\ attempts' = attempts
  BY DEF PostSend, tables, states, requests, sweep
<1>3. /\ outgoing \in [Dials -> Seq(Posts)] /\ incoming \in [Dials -> Seq(Posts)]
      /\ \A d \in Dials : Len(outgoing[d]) <= ChanCap /\ Len(incoming[d]) <= ChanCap
  BY DEF IInv, TypeOK
<1>4. /\ IsOwner(q) => /\ incoming' = incoming
                       /\ Pushed(outgoing, outgoing', Posts, Dials, conn, q)
                       /\ Len(outgoing[conn[q]]) < ChanCap
      /\ ~IsOwner(q) => /\ outgoing' = outgoing
                        /\ Pushed(incoming, incoming', Posts, Dials, conn, q)
                        /\ Len(incoming[conn[q]]) < ChanCap
  BY <1>1, <1>3 DEF Enqueue, Pushed, Target
<1>5. /\ outgoing' \in [Dials -> Seq(Posts)] /\ incoming' \in [Dials -> Seq(Posts)]
      /\ \A d \in Dials : Len(outgoing'[d]) <= ChanCap /\ Len(incoming'[d]) <= ChanCap
  <2>1. ASSUME NEW s \in Seq(Posts), Len(s) < ChanCap
        PROVE  Append(s, q) \in Seq(Posts) /\ Len(Append(s, q)) <= ChanCap
    <3>1. Len(Append(s, q)) = Len(s) + 1 /\ Len(s) \in Nat /\ ChanCap \in Nat
      BY TcpAssumption
    <3>2. QED
      BY <2>1, <3>1
  <2>2. CASE IsOwner(q)
    <3>1. outgoing' = [outgoing EXCEPT ![conn[q]] = Append(@, q)]
      BY <1>1, <2>2 DEF Enqueue
    <3>2. QED
      BY <1>1, <1>3, <1>4, <2>1, <2>2, <3>1
  <2>3. CASE ~IsOwner(q)
    <3>1. incoming' = [incoming EXCEPT ![conn[q]] = Append(@, q)]
      BY <1>1, <2>3 DEF Enqueue
    <3>2. QED
      BY <1>1, <1>3, <1>4, <2>1, <2>3, <3>1
  <2>4. QED
    BY <2>2, <2>3
<1>6. TypeOK'
  <2>1. pc' \in [Reqs -> Steps]
    BY <1>1 DEF IInv, TypeOK, Steps
  <2>2. QED
    BY <1>2, <1>5, <2>1 DEF IInv, TypeOK
<1>7. /\ pc'[q] = "sent"
      /\ \A k \in Reqs : k # q => pc'[k] = pc[k]
      /\ \A k \in Dials \cup Accepts \cup Gets : k \in Reqs /\ k # q
      /\ \A k \in Posts : k \in Reqs
  BY <1>1, TcpAssumption DEF IInv, TypeOK, Reqs
<1>8. DialsKnow' /\ InTables' /\ ClosedOnce'
  <2>1. \A c \in Clients : connections[c] \subseteq Dials
    BY DEF IInv, TypeOK
  <2>2. DialsKnow' /\ ClosedOnce'
    BY <1>2, <1>7 DEF IInv, DialsKnow, ClosedOnce
  <2>3. InTables'
    BY <1>2, <1>7, <2>1 DEF IInv, InTables
  <2>4. QED
    BY <2>2, <2>3
<1>9. Relays'
  BY <1>1, <1>2, <1>7 DEF IInv, Relays
<1>10. Accepting'
  BY <1>2, <1>7 DEF IInv, Accepting, Offered
<1>11. OfferLane'
  <2>1. \A d \in Dials : pc'[d] = "established" <=> pc[d] = "established"
    BY <1>7
  <2>2. QED
    BY <1>2, <2>1, OffersKeep
<1>12. /\ \A e : e \in Written' <=> e \in Written \/ e = q
       /\ q \notin Written /\ q \notin Read
       /\ Written \subseteq Posts /\ \A e \in Written : conn[e] \in Dials
       /\ Read' = Read /\ Sides' = Sides
  <2>1. q \notin Written
    BY <1>1 DEF Written
  <2>2. q \notin Read
    <3>1. q # Nil
      BY <1>1, TcpAssumption
    <3>2. QED
      BY <2>1, <3>1 DEF Read, IInv, Getting
  <2>3. QED
    BY <1>2, <1>7, <2>1, <2>2 DEF Written, Read, Sides, IsOwner, IInv, Relays
<1>13. Getting'
  BY <1>2, <1>7, <1>12 DEF IInv, Getting, IsOwner
<1>14. OutLane' /\ InLane'
  <2>1. /\ Lane(outgoing, Dials, Written, conn, Sides, "outgoing", Read)
        /\ Lane(incoming, Dials, Written, conn, Sides, "incoming", Read)
    BY DEF IInv, OutLane, InLane
  <2>2. CASE IsOwner(q)
    <3>1. Sides[q] = "outgoing" /\ Sides[q] # "incoming"
      BY <2>2 DEF Sides
    <3>2. Pushed(outgoing, outgoing', Posts, Dials, conn, q) /\ incoming' = incoming
      BY <1>4, <2>2
    <3>3. Lane(outgoing', Dials, Written', conn, Sides, "outgoing", Read)
      BY <1>12, <2>1, <3>1, <3>2, LanePush
    <3>4. \A e : (e \in Written' /\ Sides[e] = "incoming") <=> (e \in Written /\ Sides[e] = "incoming")
      BY <1>12, <3>1
    <3>5. Lane(incoming, Dials, Written', conn, Sides, "incoming", Read)
      BY <2>1, <3>4, LaneKeep
    <3>6. QED
      BY <1>2, <1>12, <3>2, <3>3, <3>5 DEF OutLane, InLane
  <2>3. CASE ~IsOwner(q)
    <3>1. Sides[q] = "incoming" /\ Sides[q] # "outgoing"
      BY <2>3 DEF Sides
    <3>2. Pushed(incoming, incoming', Posts, Dials, conn, q) /\ outgoing' = outgoing
      BY <1>4, <2>3
    <3>3. Lane(incoming', Dials, Written', conn, Sides, "incoming", Read)
      BY <1>12, <2>1, <3>1, <3>2, LanePush
    <3>4. \A e : (e \in Written' /\ Sides[e] = "outgoing") <=> (e \in Written /\ Sides[e] = "outgoing")
      BY <1>12, <3>1
    <3>5. Lane(outgoing, Dials, Written', conn, Sides, "outgoing", Read)
      BY <2>1, <3>4, LaneKeep
    <3>6. QED
      BY <1>2, <1>12, <3>2, <3>3, <3>5 DEF OutLane, InLane
  <2>4. QED
    BY <2>2, <2>3
<1>15. GoneClosed'
  <2> SUFFICES ASSUME NEW g \in Gets, pc'[g] = "gone" PROVE closes'[conn'[g]] > 0 /\ Source(g)' = <<>>
    BY DEF GoneClosed
  <2>1. pc[g] = "gone" /\ closes[conn[g]] > 0 /\ Source(g) = <<>> /\ conn[g] \in Dials
    BY <1>7 DEF IInv, GoneClosed, Relays
  <2>2. conn[g] # conn[q]
    BY <1>1, <2>1
  <2>3. outgoing'[conn[g]] = outgoing[conn[g]] /\ incoming'[conn[g]] = incoming[conn[g]]
    BY <1>4, <2>1, <2>2 DEF Pushed
  <2>4. QED
    BY <1>2, <2>1, <2>3 DEF Source, IsOwner
<1>16. QED
  BY <1>2, <1>6, <1>8, <1>9, <1>10, <1>11, <1>13, <1>14, <1>15 DEF IInv

LEMMA GetTakeKeeps == ASSUME IInv, NEW g \in Gets, GetTake(g) PROVE IInv'
<1> DEFINE m == Head(Source(g))
<1>1. /\ pc[g] = "polling" /\ g \in Reqs /\ pc' = [pc EXCEPT ![g] = "taken"]
      /\ client[g] \in Clients /\ conn[g] \in Dials /\ pc[conn[g]] \in Open
      /\ got[g] = Nil /\ got' = [got EXCEPT ![g] = m]
      /\ Source(g) # <<>> /\ Dequeue(g)
  BY DEF GetTake, Goto, IInv, Relays, Getting, Reqs
<1>2. /\ connections' = connections /\ peer' = peer /\ client' = client
      /\ conn' = conn /\ pending' = pending /\ closed' = closed /\ closes' = closes
      /\ sweeping' = sweeping /\ todo' = todo /\ stored' = stored /\ permissions' = permissions
      /\ active' = active /\ idle' = idle /\ attempts' = attempts
  BY DEF GetTake, tables, states, sweep
<1>3. /\ outgoing \in [Dials -> Seq(Posts)] /\ incoming \in [Dials -> Seq(Posts)]
      /\ \A d \in Dials : Len(outgoing[d]) <= ChanCap /\ Len(incoming[d]) <= ChanCap
  BY DEF IInv, TypeOK
<1>4. /\ IsOwner(g) => /\ outgoing' = outgoing
                       /\ Popped(incoming, incoming', Posts, Dials, conn[g])
                       /\ m = Head(incoming[conn[g]])
      /\ ~IsOwner(g) => /\ incoming' = incoming
                        /\ Popped(outgoing, outgoing', Posts, Dials, conn[g])
                        /\ m = Head(outgoing[conn[g]])
  BY <1>1, <1>3 DEF Dequeue, Popped, Source
<1>5. /\ outgoing' \in [Dials -> Seq(Posts)] /\ incoming' \in [Dials -> Seq(Posts)]
      /\ \A d \in Dials : Len(outgoing'[d]) <= ChanCap /\ Len(incoming'[d]) <= ChanCap
  <2>1. ASSUME NEW s \in Seq(Posts), s # <<>>, Len(s) <= ChanCap
        PROVE  Tail(s) \in Seq(Posts) /\ Len(Tail(s)) <= ChanCap
    <3>1. Tail(s) \in Seq(Posts) /\ Len(Tail(s)) = Len(s) - 1 /\ Len(s) \in Nat /\ ChanCap \in Nat
      BY <2>1, TcpAssumption, HeadTailProperties
    <3>2. QED
      BY <2>1, <3>1
  <2>2. CASE IsOwner(g)
    <3>1. incoming' = [incoming EXCEPT ![conn[g]] = Tail(@)] /\ incoming[conn[g]] # <<>>
      BY <1>1, <2>2 DEF Dequeue, Source
    <3>2. QED
      BY <1>1, <1>3, <1>4, <2>1, <2>2, <3>1
  <2>3. CASE ~IsOwner(g)
    <3>1. outgoing' = [outgoing EXCEPT ![conn[g]] = Tail(@)] /\ outgoing[conn[g]] # <<>>
      BY <1>1, <2>3 DEF Dequeue, Source
    <3>2. QED
      BY <1>1, <1>3, <1>4, <2>1, <2>3, <3>1
  <2>4. QED
    BY <2>2, <2>3
<1>6. /\ m \in Written /\ m \notin Read /\ conn[m] = conn[g]
      /\ Sides[m] = IF IsOwner(g) THEN "incoming" ELSE "outgoing"
  <2>1. ASSUME NEW s \in Seq(Posts), s # <<>> PROVE 1 \in 1..Len(s) /\ Head(s) = s[1]
    BY <2>1
  <2>2. CASE IsOwner(g)
    <3>1. incoming[conn[g]] \in Seq(Posts) /\ incoming[conn[g]] # <<>>
      BY <1>1, <1>3, <2>2 DEF Source
    <3>2. 1 \in 1..Len(incoming[conn[g]]) /\ m = incoming[conn[g]][1]
      BY <1>4, <2>1, <2>2, <3>1
    <3>3. QED
      BY <1>1, <2>2, <3>2 DEF IInv, InLane, Lane, Standing
  <2>3. CASE ~IsOwner(g)
    <3>1. outgoing[conn[g]] \in Seq(Posts) /\ outgoing[conn[g]] # <<>>
      BY <1>1, <1>3, <2>3 DEF Source
    <3>2. 1 \in 1..Len(outgoing[conn[g]]) /\ m = outgoing[conn[g]][1]
      BY <1>4, <2>1, <2>3, <3>1
    <3>3. QED
      BY <1>1, <2>3, <3>2 DEF IInv, OutLane, Lane, Standing
  <2>4. QED
    BY <2>2, <2>3
<1>7. m \in Posts /\ m # Nil
  BY <1>6, TcpAssumption DEF Written, Reqs
<1>8. TypeOK'
  <2>1. pc' \in [Reqs -> Steps]
    BY <1>1 DEF IInv, TypeOK, Steps
  <2>2. got' \in [Gets -> Posts \cup {Nil}]
    BY <1>1, <1>7 DEF IInv, TypeOK
  <2>3. QED
    BY <1>2, <1>5, <2>1, <2>2 DEF IInv, TypeOK
<1>9. /\ pc'[g] = "taken" /\ got'[g] = m
      /\ \A k \in Reqs : k # g => pc'[k] = pc[k]
      /\ \A k \in Gets : k # g => got'[k] = got[k]
      /\ \A k \in Dials \cup Accepts \cup Posts : k \in Reqs /\ k # g
      /\ \A k \in Gets : k \in Reqs
  BY <1>1, TcpAssumption DEF IInv, TypeOK, Reqs
<1>10. DialsKnow' /\ InTables' /\ ClosedOnce'
  <2>1. \A c \in Clients : connections[c] \subseteq Dials
    BY DEF IInv, TypeOK
  <2>2. DialsKnow' /\ ClosedOnce'
    BY <1>2, <1>9 DEF IInv, DialsKnow, ClosedOnce
  <2>3. InTables'
    BY <1>2, <1>9, <2>1 DEF IInv, InTables
  <2>4. QED
    BY <2>2, <2>3
<1>11. Relays'
  BY <1>1, <1>2, <1>9 DEF IInv, Relays
<1>12. Accepting'
  BY <1>2, <1>9 DEF IInv, Accepting, Offered
<1>13. OfferLane'
  <2>1. \A d \in Dials : pc'[d] = "established" <=> pc[d] = "established"
    BY <1>9
  <2>2. QED
    BY <1>2, <2>1, OffersKeep
<1>14. Written' = Written /\ Sides' = Sides
  BY <1>2, <1>9 DEF Written, Sides, IsOwner
<1>15. \A e \in Written : e \in Read' <=> e \in Read \/ e = m
  <2>1. ASSUME NEW e \in Written PROVE e # Nil
    BY TcpAssumption DEF Written, Reqs
  <2>2. QED
    BY <1>1, <1>9, <2>1 DEF Read
<1>16. Getting'
  <2>1. IsOwner(m) <=> ~IsOwner(g)
    BY <1>6, <1>7 DEF Sides
  <2>2. ASSUME NEW k \in Gets, got'[k] # Nil
        PROVE  /\ pc'[k] \in {"taken", "data"}
               /\ got'[k] \in Written' /\ conn'[got'[k]] = conn'[k]
               /\ IsOwner(got[k])' <=> ~IsOwner(k)'
    <3>1. CASE k = g
      BY <1>2, <1>6, <1>9, <1>14, <2>1, <3>1 DEF IsOwner
    <3>2. CASE k # g
      BY <1>2, <1>9, <1>14, <2>2, <3>2 DEF IInv, Getting, IsOwner
    <3>3. QED
      BY <3>1, <3>2
  <2>3. ASSUME NEW k \in Gets, NEW l \in Gets, got'[k] = got'[l], got'[k] # Nil PROVE k = l
    <3>1. \A x \in Gets : got[x] # m
      BY <1>6 DEF Read
    <3>2. QED
      BY <1>9, <2>3, <3>1 DEF IInv, Getting
  <2>4. QED
    BY <2>2, <2>3 DEF Getting
<1>17. OutLane' /\ InLane'
  <2>1. /\ Lane(outgoing, Dials, Written, conn, Sides, "outgoing", Read)
        /\ Lane(incoming, Dials, Written, conn, Sides, "incoming", Read)
        /\ \A e \in Written : conn[e] \in Dials
    BY DEF IInv, OutLane, InLane, Written, Relays
  <2>2. CASE IsOwner(g)
    <3>1. Sides[m] # "outgoing"
      BY <1>6, <2>2
    <3>2. /\ Popped(incoming, incoming', Posts, Dials, conn[g]) /\ outgoing' = outgoing
          /\ \A e \in Written : e \in Read' <=> e \in Read \/ e = Head(incoming[conn[g]])
      BY <1>4, <1>15, <2>2
    <3>3. Lane(incoming', Dials, Written, conn, Sides, "incoming", Read')
      BY <2>1, <3>2, LaneTake
    <3>4. \A e \in Written : Sides[e] = "outgoing" => (e \in Read' <=> e \in Read)
      BY <1>15, <3>1
    <3>5. Lane(outgoing, Dials, Written, conn, Sides, "outgoing", Read')
      BY <2>1, <3>4, LaneKeep
    <3>6. QED
      BY <1>2, <1>14, <3>2, <3>3, <3>5 DEF OutLane, InLane
  <2>3. CASE ~IsOwner(g)
    <3>1. Sides[m] # "incoming"
      BY <1>6, <2>3
    <3>2. /\ Popped(outgoing, outgoing', Posts, Dials, conn[g]) /\ incoming' = incoming
          /\ \A e \in Written : e \in Read' <=> e \in Read \/ e = Head(outgoing[conn[g]])
      BY <1>4, <1>15, <2>3
    <3>3. Lane(outgoing', Dials, Written, conn, Sides, "outgoing", Read')
      BY <2>1, <3>2, LaneTake
    <3>4. \A e \in Written : Sides[e] = "incoming" => (e \in Read' <=> e \in Read)
      BY <1>15, <3>1
    <3>5. Lane(incoming, Dials, Written, conn, Sides, "incoming", Read')
      BY <2>1, <3>4, LaneKeep
    <3>6. QED
      BY <1>2, <1>14, <3>2, <3>3, <3>5 DEF OutLane, InLane
  <2>4. QED
    BY <2>2, <2>3
<1>18. GoneClosed'
  <2> SUFFICES ASSUME NEW k \in Gets, pc'[k] = "gone" PROVE closes'[conn'[k]] > 0 /\ Source(k)' = <<>>
    BY DEF GoneClosed
  <2>1. pc[k] = "gone" /\ closes[conn[k]] > 0 /\ Source(k) = <<>> /\ conn[k] \in Dials
    BY <1>9 DEF IInv, GoneClosed, Relays
  <2>2. /\ outgoing[conn[k]] = <<>> => outgoing'[conn[k]] = <<>>
        /\ incoming[conn[k]] = <<>> => incoming'[conn[k]] = <<>>
    BY <1>4, <2>1 DEF Popped
  <2>3. QED
    BY <1>2, <2>1, <2>2 DEF Source, IsOwner
<1>19. QED
  BY <1>2, <1>8, <1>10, <1>11, <1>12, <1>13, <1>16, <1>17, <1>18 DEF IInv

---------------------------------------------------------------------------
(* Cleanup *)

LEMMA SweepVisitKeeps == ASSUME IInv, NEW c \in Clients, SweepVisit(c) PROVE IInv'
<1> DEFINE dead == {d \in connections[c] : TimedOut(d) /\ d \notin closed}
<1> HIDE DEF dead
<1>1. /\ c \in todo /\ todo' = todo \ {c} /\ closed' = closed \cup dead
      /\ closes' = [d \in Dials |-> IF d \in dead THEN closes[d] + 1 ELSE closes[d]]
      /\ connections' = [connections EXCEPT ![c] = @ \ dead]
  BY DEF SweepVisit, Close, dead
<1>2. /\ outgoing' = outgoing /\ incoming' = incoming /\ peer' = peer /\ client' = client
      /\ conn' = conn /\ pending' = pending /\ got' = got /\ pc' = pc
      /\ sweeping' = sweeping /\ stored' = stored /\ permissions' = permissions
      /\ active' = active /\ idle' = idle /\ attempts' = attempts
  BY DEF SweepVisit, Close, channels, requests
<1>3. dead \subseteq Dials /\ dead \cap closed = {}
  BY DEF dead, IInv, TypeOK
<1>4. closes \in [Dials -> Nat] /\ connections \in [Clients -> SUBSET Dials]
  BY DEF IInv, TypeOK
<1>5. /\ \A d \in Dials : closes'[d] = IF d \in dead THEN closes[d] + 1 ELSE closes[d]
      /\ \A b \in Clients : connections'[b] = IF b = c THEN connections[b] \ dead ELSE connections[b]
      /\ closes' \in [Dials -> Nat] /\ connections' \in [Clients -> SUBSET Dials]
  <2>1. \A d \in Dials : closes[d] \in Nat /\ closes[d] + 1 \in Nat
    BY <1>4
  <2>2. /\ closes' \in [Dials -> Nat]
        /\ \A d \in Dials : closes'[d] = IF d \in dead THEN closes[d] + 1 ELSE closes[d]
    BY <1>1, <2>1
  <2>3. /\ connections' \in [Clients -> SUBSET Dials]
        /\ \A b \in Clients : connections'[b] = IF b = c THEN connections[b] \ dead ELSE connections[b]
    BY <1>1, <1>4
  <2>4. QED
    BY <2>2, <2>3
<1>6. TypeOK' /\ (~sweeping' => todo' = {})
  BY <1>1, <1>2, <1>3, <1>5 DEF IInv, TypeOK
<1>7. DialsKnow' /\ Relays'
  BY <1>2 DEF IInv, DialsKnow, Relays
<1>8. InTables'
  <2>1. \A b \in Clients : \A d \in connections'[b] : pc'[d] \in Open
    BY <1>2, <1>5 DEF IInv, InTables
  <2>2. ASSUME NEW d \in Dials \ closed'
        PROVE  /\ pc'[d] \in Open => d \in connections'[peer'[d]]
               /\ pc'[d] \in Open \ {"inPeer"} => d \in connections'[client'[d]]
    <3>1. d \notin closed /\ d \notin dead
      BY <1>1
    <3>2. pc[d] \in Open => peer[d] \in Clients /\ client[d] \in Clients
      BY DEF IInv, DialsKnow
    <3>3. QED
      BY <1>2, <1>5, <3>1, <3>2 DEF IInv, InTables
  <2>3. QED
    BY <2>1, <2>2 DEF InTables
<1>9. Accepting' /\ Getting'
  BY <1>2 DEF IInv, Accepting, Offered, Getting, Written, IsOwner
<1>10. OutLane' /\ InLane' /\ OfferLane'
  BY <1>2 DEF IInv, OutLane, InLane, OfferLane, Written, Sides, IsOwner, Read, Offered, Accepted, Ends
<1>11. ClosedOnce'
  BY <1>1, <1>3, <1>5 DEF IInv, ClosedOnce
<1>12. GoneClosed'
  <2> SUFFICES ASSUME NEW g \in Gets, pc'[g] = "gone" PROVE closes'[conn'[g]] > 0 /\ Source(g)' = <<>>
    BY DEF GoneClosed
  <2>1. pc[g] = "gone" /\ closes[conn[g]] > 0 /\ Source(g) = <<>> /\ conn[g] \in Dials
    BY <1>2 DEF IInv, GoneClosed, Relays
  <2>2. closes'[conn[g]] > 0
    BY <1>4, <1>5, <2>1
  <2>3. QED
    BY <1>2, <2>1, <2>2 DEF Source, IsOwner
<1>13. QED
  BY <1>6, <1>7, <1>8, <1>9, <1>10, <1>11, <1>12 DEF IInv

LEMMA TableKeeps ==
    ASSUME IInv, Trying,
           \/ \E expired \in SUBSET stored : SweepStart(expired)
           \/ SweepEnd
           \/ \E c \in Clients : Leave(c) \/ Return(c)
           \/ \E d \in Dials : FiveMinutes(d)
    PROVE  IInv' /\ Trying'
<1>1. /\ connections' = connections /\ pending' = pending /\ peer' = peer /\ got' = got
      /\ outgoing' = outgoing /\ incoming' = incoming /\ closed' = closed /\ closes' = closes
      /\ pc' = pc /\ client' = client /\ conn' = conn
      /\ permissions' = permissions /\ active' = active /\ attempts' = attempts
  BY DEF SweepStart, SweepEnd, Leave, Return, FiveMinutes, tables, states, channels, requests
<1>2. /\ stored' \subseteq Clients /\ todo' \subseteq stored' /\ sweeping' \in BOOLEAN
      /\ idle' \subseteq Dials /\ (~sweeping' => todo' = {})
  BY DEF SweepStart, SweepEnd, Leave, Return, Found, Missing, FiveMinutes, tables, states, sweep, IInv, TypeOK
<1>3. TypeOK'
  BY <1>1, <1>2 DEF IInv, TypeOK
<1>4. UNCHANGED <<connections, pending, closed, closes, channels, pc, client, peer, conn, got>>
  BY <1>1 DEF channels
<1>5. IInv'
  BY <1>2, <1>3, <1>4, OthersKeep
<1>6. QED
  BY <1>1, <1>5 DEF Trying

---------------------------------------------------------------------------
(* Every step *)

LEMMA InitKeeps == Init => IInv /\ Trying
<1> SUFFICES ASSUME Init PROVE IInv /\ Trying
  OBVIOUS
<1> USE TcpAssumption
<1>1. /\ \A r \in Reqs : pc[r] = "new" /\ client[r] = Nil /\ conn[r] = Nil
      /\ \A c \in Clients : connections[c] = {} /\ pending[c] = <<>>
      /\ \A d \in Dials : outgoing[d] = <<>> /\ incoming[d] = <<>> /\ closes[d] = 0
      /\ \A g \in Gets : got[g] = Nil
      /\ \A q \in Posts : attempts[q] = 0
      /\ closed = {} /\ todo = {}
      /\ \A r \in Dials \cup Accepts \cup Posts \cup Gets : r \in Reqs
  BY DEF Init, Reqs
<1>2. TypeOK
  <2>1. /\ pending \in [Clients -> Seq(Dials)]
        /\ outgoing \in [Dials -> Seq(Posts)] /\ incoming \in [Dials -> Seq(Posts)]
    BY DEF Init
  <2>2. /\ \A c \in Clients : Len(pending[c]) <= PendingCap
        /\ \A d \in Dials : Len(outgoing[d]) <= ChanCap /\ Len(incoming[d]) <= ChanCap
    BY <1>1
  <2>3. pc \in [Reqs -> Steps]
    BY DEF Init, Steps
  <2>4. /\ attempts \in [Posts -> 0..MaxAttempts] /\ got \in [Gets -> Posts \cup {Nil}]
        /\ closes \in [Dials -> Nat]
    BY DEF Init
  <2>5. /\ permissions \in [Clients -> SUBSET Clients] /\ connections \in [Clients -> SUBSET Dials]
        /\ client \in [Reqs -> Clients \cup {Nil}] /\ peer \in [Dials -> Clients \cup {Nil}]
        /\ conn \in [Reqs -> Dials \cup {Nil}]
    BY DEF Init
  <2>6. QED
    BY <2>1, <2>2, <2>3, <2>4, <2>5 DEF Init, TypeOK
<1>3. DialsKnow /\ InTables /\ Relays /\ Accepting /\ Getting /\ ClosedOnce /\ GoneClosed /\ Trying
  BY <1>1 DEF DialsKnow, InTables, Relays, Accepting, Getting, ClosedOnce, GoneClosed, Trying, Open
<1>4. Written = {} /\ Offered = {}
  BY <1>1 DEF Written, Offered
<1>5. OutLane /\ InLane /\ OfferLane
  BY <1>1, <1>4 DEF OutLane, InLane, OfferLane, Lane, Standing, Apart, NoneLost
<1>6. QED
  BY <1>1, <1>2, <1>3, <1>5 DEF IInv

LEMMA TryingMoves ==
    ASSUME IInv, Trying, NEW r \in Reqs, NEW to, pc' = [pc EXCEPT ![r] = to], attempts' = attempts,
           r \in Posts => to \notin {"new", "sending"} \/ pc[r] \in {"new", "sending"}
    PROVE  Trying'
<1>1. \A q \in Posts : q \in Reqs
  BY DEF Reqs
<1>2. pc'[r] = to /\ \A q \in Reqs : q # r => pc'[q] = pc[q]
  BY DEF IInv, TypeOK
<1>3. QED
  BY <1>1, <1>2 DEF Trying

LEMMA StepKeeps == ASSUME IInv, Trying, Next PROVE IInv' /\ Trying'
<1> USE TcpAssumption
<1>1. ASSUME NEW d \in Dials, NEW c \in Clients, NEW p \in Clients,
             DialGetCaller(d, c, p) \/ DialNoCaller(d, c)
      PROVE  IInv' /\ Trying'
  <2>1. d \in Reqs /\ d \notin Posts /\ attempts' = attempts
    BY <1>1 DEF Reqs, DialGetCaller, DialNoCaller, requests
  <2>2. PICK to : pc' = [pc EXCEPT ![d] = to]
    BY <1>1 DEF DialGetCaller, DialNoCaller, Goto
  <2>3. QED
    BY <1>1, <2>1, <2>2, DialArrives, TryingMoves
<1>2. ASSUME NEW a \in Accepts, NEW c \in Clients, AcceptGet(a, c) \/ AcceptRefused(a, c)
      PROVE  IInv' /\ Trying'
  <2>1. a \in Reqs /\ a \notin Posts /\ attempts' = attempts
    BY <1>2 DEF Reqs, AcceptGet, AcceptRefused, requests
  <2>2. PICK to : pc' = [pc EXCEPT ![a] = to]
    BY <1>2 DEF AcceptGet, AcceptRefused, Goto
  <2>3. QED
    BY <1>2, <2>1, <2>2, AcceptKeeps, TryingMoves
<1>3. ASSUME NEW q \in Posts, NEW c \in Clients, NEW d \in Dials,
             RelayGet(q, c, d, "sending") \/ RelayRefused(q, c, d)
      PROVE  IInv' /\ Trying'
  <2>1. q \in Reqs /\ pc[q] = "new" /\ attempts' = attempts
    BY <1>3 DEF Reqs, RelayGet, RelayRefused, Goto, requests
  <2>2. PICK to : pc' = [pc EXCEPT ![q] = to]
    BY <1>3 DEF RelayGet, RelayRefused, Goto
  <2>3. Trying'
    BY <2>1, <2>2, TryingMoves
  <2>4. PICK way : way = IF q \in Posts THEN "sending" ELSE "polling"
    OBVIOUS
  <2>5. q \in Posts \cup Gets /\ (RelayGet(q, c, d, way) \/ RelayRefused(q, c, d))
    BY <1>3, <2>4
  <2>6. QED
    BY <2>3, <2>4, <2>5, RelayArrives
<1>4. ASSUME NEW g \in Gets, NEW c \in Clients, NEW d \in Dials,
             RelayGet(g, c, d, "polling") \/ RelayRefused(g, c, d)
      PROVE  IInv' /\ Trying'
  <2>1. g \in Reqs /\ g \notin Posts /\ attempts' = attempts
    BY <1>4 DEF Reqs, RelayGet, RelayRefused, requests
  <2>2. PICK to : pc' = [pc EXCEPT ![g] = to]
    BY <1>4 DEF RelayGet, RelayRefused, Goto
  <2>3. Trying'
    BY <2>1, <2>2, TryingMoves
  <2>4. PICK way : way = IF g \in Posts THEN "sending" ELSE "polling"
    OBVIOUS
  <2>5. g \in Posts \cup Gets /\ (RelayGet(g, c, d, way) \/ RelayRefused(g, c, d))
    BY <1>4, <2>1, <2>4
  <2>6. QED
    BY <2>3, <2>4, <2>5, RelayArrives
<1>5. ASSUME NEW d \in Dials, DialLookup(d) \/ DialStep(d) PROVE IInv' /\ Trying'
  <2>1. d \in Reqs /\ d \notin Posts /\ attempts' = attempts
    BY <1>5 DEF Reqs, DialLookup, DialStep, DialGetPeer, DialNoPeer, DialIntoPeer, DialIntoCaller,
                DialPush, DialTimeout, requests
  <2>2. PICK to : pc' = [pc EXCEPT ![d] = to]
    BY <1>5 DEF DialLookup, DialStep, DialGetPeer, DialNoPeer, DialIntoPeer, DialIntoCaller,
                DialPush, DialTimeout, Goto
  <2>3. Trying'
    BY <2>1, <2>2, TryingMoves
  <2>4. QED
    BY <1>5, <2>3, DialStepKeeps, DialPushKeeps DEF DialStep
<1>6. ASSUME NEW a \in Accepts, AcceptStep(a) PROVE IInv' /\ Trying'
  <2>1. a \in Reqs /\ a \notin Posts /\ attempts' = attempts
    BY <1>6 DEF Reqs, AcceptStep, AcceptTake, AcceptTimeout, requests
  <2>2. PICK to : pc' = [pc EXCEPT ![a] = to]
    BY <1>6 DEF AcceptStep, AcceptTake, AcceptTimeout, Goto
  <2>3. Trying'
    BY <2>1, <2>2, TryingMoves
  <2>4. CASE AcceptTake(a)
    BY <2>3, <2>4, AcceptTakeKeeps
  <2>5. CASE AcceptTimeout(a)
    <3>1. client[a] \in Clients
      BY <2>5 DEF AcceptTimeout, Goto, IInv, Accepting
    <3>2. QED
      BY <2>3, <2>5, <3>1, AcceptKeeps
  <2>6. QED
    BY <1>6, <2>4, <2>5 DEF AcceptStep
<1>7. ASSUME NEW q \in Posts, PostStep(q) PROVE IInv' /\ Trying'
  <2>1. q \in Reqs
    BY DEF Reqs
  <2>2. CASE PostPanic(q) \/ PostSend(q) \/ PostTouch(q)
    <3>1. attempts' = attempts
      BY <2>2 DEF PostPanic, PostSend, PostTouch, requests
    <3>2. PICK to \in {"panicked", "sent", "ok"} : pc' = [pc EXCEPT ![q] = to]
      BY <2>2 DEF PostPanic, PostSend, PostTouch, Goto
    <3>3. Trying'
      BY <2>1, <3>1, <3>2, TryingMoves
    <3>4. QED
      BY <2>2, <3>3, PostKeeps, PostSendKeeps
  <2>3. CASE PostBackoff(q)
    <3>1. /\ pc[q] = "sending" /\ attempts' = [attempts EXCEPT ![q] = @ + 1]
          /\ pc' = IF attempts'[q] = MaxAttempts THEN [pc EXCEPT ![q] = "tooMany"] ELSE pc
      BY <2>3 DEF PostBackoff
    <3>2. pc \in [Reqs -> Steps] /\ attempts \in [Posts -> 0..MaxAttempts] /\ MaxAttempts \in Nat
      BY DEF IInv, TypeOK
    <3>3. attempts[q] < MaxAttempts /\ attempts[q] \in 0..MaxAttempts /\ attempts'[q] = attempts[q] + 1
      BY <3>1, <3>2 DEF Trying
    <3>4. ASSUME NEW k \in Posts, pc'[k] \in {"new", "sending"} PROVE attempts'[k] < MaxAttempts
      <4>1. CASE k = q
        <5>1. attempts'[q] # MaxAttempts
          BY <2>1, <3>1, <3>2, <3>4, <4>1
        <5>2. QED
          BY <3>2, <3>3, <4>1, <5>1
      <4>2. CASE k # q
        BY <3>1, <3>2, <3>4, <4>2 DEF Trying, Reqs
      <4>3. QED
        BY <4>1, <4>2
    <3>5. Trying'
      BY <3>4 DEF Trying
    <3>6. QED
      BY <2>3, <3>5, PostKeeps
  <2>4. QED
    BY <1>7, <2>2, <2>3 DEF PostStep
<1>8. ASSUME NEW g \in Gets, GetStep(g) PROVE IInv' /\ Trying'
  <2>1. g \in Reqs /\ g \notin Posts /\ attempts' = attempts
    BY <1>8 DEF Reqs, GetStep, GetTake, GetTouch, GetGone, GetTimeout, requests
  <2>2. PICK to : pc' = [pc EXCEPT ![g] = to]
    BY <1>8 DEF GetStep, GetTake, GetTouch, GetGone, GetTimeout, Goto
  <2>3. Trying'
    BY <2>1, <2>2, TryingMoves
  <2>4. QED
    BY <1>8, <2>3, GetKeeps, GetTakeKeeps DEF GetStep
<1>9. ASSUME NEW c \in Clients, SweepVisit(c) PROVE IInv' /\ Trying'
  <2>1. pc' = pc /\ attempts' = attempts
    BY <1>9 DEF SweepVisit, Close, requests
  <2>2. QED
    BY <1>9, <2>1, SweepVisitKeeps DEF Trying
<1>10. CASE \/ \E expired \in SUBSET stored : SweepStart(expired)
            \/ SweepEnd
            \/ \E c \in Clients : Leave(c) \/ Return(c)
            \/ \E d \in Dials : FiveMinutes(d)
  BY <1>10, TableKeeps
<1>11. QED
  BY <1>1, <1>2, <1>3, <1>4, <1>5, <1>6, <1>7, <1>8, <1>9, <1>10 DEF Next, Arrive, Sweep

---------------------------------------------------------------------------
(* What it comes to *)

LEMMA SpotIs ==
    ASSUME NEW kind, NEW queues, NEW e, NEW p
    PROVE  p \in Spots(kind, queues, e) <=>
             \E o \in DOMAIN queues : \E i \in 1..Len(queues[o]) : queues[o][i] = e /\ p = <<kind, o, i>>
BY DEF Spots

Single(S) == \E p : S = {p}

\* An element of a lane stands in one spot, if it has been done and not been taken.
LEMMA LaneSpots ==
    ASSUME NEW q, NEW O, NEW dn, NEW of, NEW sd, NEW w, NEW tk, NEW kind, NEW e,
           Lane(q, O, dn, of, sd, w, tk), DOMAIN q = O, e \in dn => of[e] \in O
    PROVE  /\ (e \notin dn \/ sd[e] # w \/ e \in tk) => Spots(kind, q, e) = {}
           /\ (e \in dn /\ sd[e] = w /\ e \notin tk) => Single(Spots(kind, q, e))
<1>1. ASSUME e \notin dn \/ sd[e] # w \/ e \in tk PROVE Spots(kind, q, e) = {}
  <2>1. \A o \in O : \A i \in 1..Len(q[o]) : q[o][i] # e
    BY <1>1 DEF Lane, Standing
  <2>2. ASSUME NEW p \in Spots(kind, q, e) PROVE FALSE
    BY <2>1, <2>2, SpotIs
  <2>3. QED
    BY <2>2
<1>2. ASSUME e \in dn, sd[e] = w, e \notin tk PROVE Single(Spots(kind, q, e))
  <2>1. PICK i \in 1..Len(q[of[e]]) : q[of[e]][i] = e
    BY <1>2 DEF Lane, NoneLost
  <2>2. of[e] \in O
    BY <1>2
  <2>3. <<kind, of[e], i>> \in Spots(kind, q, e)
    BY <2>1, <2>2, SpotIs
  <2>4. ASSUME NEW p \in Spots(kind, q, e) PROVE p = <<kind, of[e], i>>
    <3>1. PICK o \in O : \E j \in 1..Len(q[o]) : q[o][j] = e /\ p = <<kind, o, j>>
      BY SpotIs
    <3>2. PICK j \in 1..Len(q[o]) : q[o][j] = e /\ p = <<kind, o, j>>
      BY <3>1
    <3>3. o = of[e]
      BY <3>2 DEF Lane, Standing
    <3>4. i = j
      BY <2>1, <2>2, <3>2, <3>3 DEF Lane, Apart
    <3>5. QED
      BY <3>2, <3>3, <3>4
  <2>5. QED
    BY <2>3, <2>4 DEF Single
<1>3. QED
  BY <1>1, <1>2

LEMMA OnePlace == IInv => SentExactlyOnce
<1> USE TcpAssumption
<1> SUFFICES ASSUME IInv, NEW q \in Posts
             PROVE  IF pc[q] \in {"sent", "ok"} THEN \E p \in Places(q) : Places(q) = {p}
                    ELSE Places(q) = {}
  BY DEF SentExactlyOnce
<1> DEFINE taken == {<<"got", g>> : g \in {h \in Gets : got[h] = q}}
<1>1. DOMAIN outgoing = Dials /\ DOMAIN incoming = Dials
  BY DEF IInv, TypeOK
<1>2. q \in Written => conn[q] \in Dials
  BY DEF IInv, Written, Relays
<1>3. /\ (q \notin Written \/ Sides[q] # "outgoing" \/ q \in Read) => Spots("outgoing", outgoing, q) = {}
      /\ (q \in Written /\ Sides[q] = "outgoing" /\ q \notin Read) =>
            Single(Spots("outgoing", outgoing, q))
  <2>1. Lane(outgoing, Dials, Written, conn, Sides, "outgoing", Read)
    BY DEF IInv, OutLane
  <2>2. DOMAIN outgoing = Dials
    BY <1>1
  <2>3. QED
    BY <1>2, <2>1, <2>2, LaneSpots
<1>4. /\ (q \notin Written \/ Sides[q] # "incoming" \/ q \in Read) => Spots("incoming", incoming, q) = {}
      /\ (q \in Written /\ Sides[q] = "incoming" /\ q \notin Read) =>
            Single(Spots("incoming", incoming, q))
  <2>1. Lane(incoming, Dials, Written, conn, Sides, "incoming", Read)
    BY DEF IInv, InLane
  <2>2. DOMAIN incoming = Dials
    BY <1>1
  <2>3. QED
    BY <1>2, <2>1, <2>2, LaneSpots
<1>5. /\ q \notin Read => taken = {}
      /\ q \in Read => q \in Written /\ Single(taken)
  <2>1. CASE q \notin Read
    BY <2>1 DEF Read
  <2>2. CASE q \in Read
    <3>1. PICK g \in Gets : got[g] = q
      BY <2>2 DEF Read
    <3>2. q # Nil
      BY DEF Reqs
    <3>3. q \in Written /\ \A h \in Gets : got[h] = q <=> h = g
      BY <3>1, <3>2 DEF IInv, Getting
    <3>4. taken = {<<"got", g>>}
      BY <3>3
    <3>5. QED
      BY <2>2, <3>3, <3>4 DEF Single
  <2>3. QED
    BY <2>1, <2>2
<1>6. /\ Places(q) = Spots("outgoing", outgoing, q) \cup Spots("incoming", incoming, q) \cup taken
      /\ q \in Written <=> pc[q] \in {"sent", "ok"}
      /\ Sides[q] = "outgoing" \/ Sides[q] = "incoming"
      /\ ~(Sides[q] = "outgoing" /\ Sides[q] = "incoming")
  BY DEF Places, Written, Sides
<1> HIDE DEF taken
<1>7. CASE q \notin Written
  BY <1>3, <1>4, <1>5, <1>6, <1>7
<1>8. CASE q \in Read
  <2>1. Places(q) = taken
    BY <1>3, <1>4, <1>6, <1>8
  <2>2. QED
    BY <1>5, <1>6, <1>8, <2>1 DEF Single
<1>9. CASE q \in Written /\ q \notin Read
  <2>1. PICK p : Places(q) = {p}
    BY <1>3, <1>4, <1>5, <1>6, <1>9 DEF Single
  <2>2. QED
    BY <1>6, <1>9, <2>1
<1>10. QED
  BY <1>7, <1>8, <1>9

LEMMA OneOffer == IInv => OfferedOnce
<1> USE TcpAssumption
<1> SUFFICES ASSUME IInv PROVE OfferedOnce
  OBVIOUS
<1>1. Lane(pending, Clients, Offered, peer, Ends, "peer", Accepted) /\ DOMAIN pending = Clients
  BY DEF IInv, OfferLane, TypeOK
<1>2. ASSUME NEW d \in Dials
      PROVE  IF pc[d] = "established" THEN \E p \in Offers(d) : Offers(d) = {p} ELSE Offers(d) = {}
  <2> DEFINE taken == {<<"accepted", a>> : a \in {b \in Accepts : conn[b] = d}}
  <2>1. /\ d \in Offered <=> pc[d] = "established"
        /\ Ends[d] = "peer" /\ (d \in Offered => peer[d] \in Clients)
    BY DEF Offered, Ends, IInv, DialsKnow, Open
  <2>2. /\ (d \notin Offered \/ d \in Accepted) => Spots("pending", pending, d) = {}
        /\ (d \in Offered /\ d \notin Accepted) => Single(Spots("pending", pending, d))
    BY <1>1, <2>1, LaneSpots
  <2>3. /\ d \notin Accepted => taken = {}
        /\ d \in Accepted => d \in Offered /\ Single(taken)
    <3>1. CASE d \notin Accepted
      BY <3>1 DEF Accepted
    <3>2. CASE d \in Accepted
      <4>1. PICK a \in Accepts : conn[a] = d
        BY <3>2 DEF Accepted
      <4>2. d # Nil
        BY DEF Reqs
      <4>3. d \in Offered /\ \A b \in Accepts : conn[b] = d <=> b = a
        BY <4>1, <4>2 DEF IInv, Accepting
      <4>4. taken = {<<"accepted", a>>}
        BY <4>3
      <4>5. QED
        BY <3>2, <4>3, <4>4 DEF Single
    <3>3. QED
      BY <3>1, <3>2
  <2>4. Offers(d) = Spots("pending", pending, d) \cup taken
    BY DEF Offers
  <2> HIDE DEF taken
  <2>5. CASE d \notin Offered
    BY <2>1, <2>2, <2>3, <2>4, <2>5
  <2>6. CASE d \in Offered
    <3>1. PICK p : Offers(d) = {p}
      BY <2>2, <2>3, <2>4, <2>6 DEF Single
    <3>2. QED
      BY <2>1, <2>6, <3>1
  <2>7. QED
    BY <2>5, <2>6
<1>3. \A c \in Clients : \A i \in 1..Len(pending[c]) : peer[pending[c][i]] = c
  BY <1>1 DEF Lane, Standing
<1>4. \A a \in Accepts : conn[a] # Nil => client[a] = peer[conn[a]]
  BY DEF IInv, Accepting
<1>5. QED
  BY <1>2, <1>3, <1>4 DEF OfferedOnce

LEMMA BothWays == IInv => ReadFromOtherEnd /\ Routable /\ GoneIsFinal
<1> SUFFICES ASSUME IInv PROVE ReadFromOtherEnd /\ Routable /\ GoneIsFinal
  OBVIOUS
<1>1. ReadFromOtherEnd
  BY DEF IInv, Getting, IsOwner, ReadFromOtherEnd
<1>2. Routable
  BY DEF IInv, InTables, Open, Used, Routable
<1>3. GoneIsFinal
  BY DEF IInv, GoneClosed, GoneIsFinal
<1>4. QED
  BY <1>1, <1>2, <1>3

\* The inductive invariant holds: tables hold what was dialled, and the queue of offers
\* and both channels hold what was put there and not taken (tcp_handler.go:156-200,
\* 402-458, 470-520).
THEOREM Invariance == Spec => [](IInv /\ Trying)
<1>1. Init => IInv /\ Trying
  BY InitKeeps
<1>2. (IInv /\ Trying) /\ [Next]_vars => (IInv /\ Trying)'
  <2> SUFFICES ASSUME IInv, Trying, [Next]_vars PROVE IInv' /\ Trying'
    OBVIOUS
  <2>1. CASE Next
    BY <2>1, StepKeeps
  <2>2. CASE UNCHANGED vars
    <3>1. /\ UNCHANGED <<connections, pending, closed, closes, channels, pc, client, peer, conn, got>>
          /\ UNCHANGED <<stored, permissions, active, idle, attempts, sweeping, todo>>
      BY <2>2 DEF vars, tables, states, requests, sweep
    <3>2. TypeOK' /\ (~sweeping' => todo' = {}) /\ Trying'
      BY <3>1 DEF IInv, TypeOK, Trying, channels
    <3>3. QED
      BY <3>1, <3>2, OthersKeep
  <2>3. QED
    BY <2>1, <2>2
<1>3. QED
  BY <1>1, <1>2, PTL DEF Spec

\* Every variable has its type: no queue is over its capacity, and a POST makes no more
\* than its ten attempts.
THEOREM TypeCorrect == Spec => []TypeOK
<1>1. IInv => TypeOK
  BY DEF IInv
<1>2. QED
  BY <1>1, Invariance, PTL

\* A datum whose POST was answered 200 is in one channel or was read by one GET, and
\* any other datum is nowhere (tcp_handler.go:402-458).
THEOREM SentExactlyOnceAlways == Spec => []SentExactlyOnce
BY OnePlace, Invariance, PTL

\* What a client reads was written to the same connection by the other end
\* (tcp_handler.go:353, 385-389, 470-474).
THEOREM ReadFromOtherEndAlways == Spec => []ReadFromOtherEnd
BY BothWays, Invariance, PTL

\* An established connection is offered to its peer once, any other never
\* (tcp_handler.go:184-193, 243).
THEOREM OfferedOnceAlways == Spec => []OfferedOnce
BY OneOffer, Invariance, PTL

\* Both clients of a connection that was stored twice and is not closed find it
\* (tcp_handler.go:166-189).
THEOREM RoutableAlways == Spec => []Routable
BY BothWays, Invariance, PTL

\* The channels of a connection are closed once, though cleanup meets it in two
\* allocations (memory.go:190-200).
THEOREM ClosedOnceAlways == Spec => []ClosedOnce
<1>1. IInv => ClosedOnce
  BY DEF IInv
<1>2. QED
  BY <1>1, Invariance, PTL

\* A GET that was answered 410 has left nothing behind (tcp_handler.go:404, 478-483).
THEOREM GoneIsFinalAlways == Spec => []GoneIsFinal
BY BothWays, Invariance, PTL

---------------------------------------------------------------------------
(* The clients' view: a pair of queues for each connection *)

Callers == Posts \cup Gets
Unheard == {"new", "refused"}

LEMMA AtSame ==
    ASSUME \A r \in Callers : /\ pc'[r] \in Unheard <=> pc[r] \in Unheard
                              /\ conn'[r] = conn[r] /\ (pc[r] \notin Unheard => (IsOwner(r)' <=> IsOwner(r)))
    PROVE  At' = At
<1>1. ASSUME NEW r \in Callers, pc[r] \notin Unheard
      PROVE  /\ pc'[r] \notin Unheard /\ conn'[r] = conn[r]
             /\ (client[r] = client[conn[r]])' <=> client[r] = client[conn[r]]
  BY <1>1 DEF IsOwner
<1>2. \A r \in Callers : pc[r] \in Unheard => pc'[r] \in Unheard
  OBVIOUS
<1>3. QED
  BY <1>1, <1>2 DEF At, Callers, Unheard, IsOwner

\* A change of who called, or of what handlers not yet heard of do, is not seen.
LEMMA Unseen ==
    ASSUME IInv, UNCHANGED channels, UNCHANGED <<closes, got>>,
           \A r \in Callers :
             /\ Outcome(pc'[r]) = Outcome(pc[r]) /\ (pc'[r] \in Unheard <=> pc[r] \in Unheard)
             /\ conn'[r] = conn[r] /\ client'[r] = client[r],
           \A d \in Dials : pc[d] \in Open => client'[d] = client[d]
    PROVE  UNCHANGED Connection!duplexVars
<1>1. UNCHANGED <<outgoing, incoming, closes, got>>
  BY DEF channels
<1>2. Pipe' = Pipe /\ Unclosed' = Unclosed
  BY <1>1 DEF Pipe, Unclosed
<1>3. State' = State
  BY DEF State, Callers
<1>4. ASSUME NEW r \in Callers, pc[r] \notin Unheard PROVE IsOwner(r)' <=> IsOwner(r)
  <2>1. conn[r] \in Dials /\ pc[conn[r]] \in Open
    BY <1>4 DEF IInv, Relays, Callers, Unheard
  <2>2. QED
    BY <2>1 DEF IsOwner
<1>5. At' = At
  BY <1>4, AtSame
<1>6. QED
  BY <1>1, <1>2, <1>3, <1>5 DEF Connection!duplexVars

\* A handler that goes on from where it has found its connection.
LEMMA GoesOn ==
    ASSUME IInv, NEW r \in Callers, NEW to, pc' = [pc EXCEPT ![r] = to], pc[r] \notin Unheard,
           to \notin Unheard, UNCHANGED <<client, conn>>
    PROVE  At' = At /\ State' = [State EXCEPT ![r] = Outcome(to)]
<1>1. \A k \in Callers : pc'[k] = IF k = r THEN to ELSE pc[k]
  BY DEF IInv, TypeOK, Callers, Reqs
<1>2. \A k \in Callers : IsOwner(k)' <=> IsOwner(k)
  BY DEF IsOwner
<1>3. At' = At
  BY <1>1, <1>2, AtSame
<1>4. State' = [State EXCEPT ![r] = Outcome(to)]
  <2>1. State' = [k \in Callers |-> Outcome(pc'[k])] /\ State = [k \in Callers |-> Outcome(pc[k])]
    BY DEF State, Callers
  <2>2. [State EXCEPT ![r] = Outcome(to)] = [k \in Callers |-> IF k = r THEN Outcome(to) ELSE State[k]]
    BY <2>1
  <2>3. \A k \in Callers : Outcome(pc'[k]) = IF k = r THEN Outcome(to) ELSE State[k]
    BY <1>1, <2>1
  <2>4. QED
    BY <2>1, <2>2, <2>3
<1>5. QED
  BY <1>3, <1>4

\* Where a handler that has found its connection stands.
LEMMA Stands ==
    ASSUME IInv, NEW r \in Callers, pc[r] \notin Unheard
    PROVE  /\ conn[r] \in Dials
           /\ At[r] = <<conn[r], IF IsOwner(r) THEN "owner" ELSE "peer">>
           /\ Connection!Far(At[r]) = <<conn[r], IF IsOwner(r) THEN "peer" ELSE "owner">>
           /\ Pipe[At[r]] = Source(r) /\ Pipe[Connection!Far(At[r])] = Target(r)
           /\ Connection!IsOpen(r) <=> closes[conn[r]] = 0
<1>1. conn[r] \in Dials
  BY DEF IInv, Relays, Callers, Unheard
<1>2. At[r] = <<conn[r], IF IsOwner(r) THEN "owner" ELSE "peer">>
  BY DEF At, Callers, Unheard
<1>3. Connection!Far(At[r]) = <<conn[r], IF IsOwner(r) THEN "peer" ELSE "owner">>
  BY <1>2 DEF Connection!Far
<1>4. Pipe[<<conn[r], "owner">>] = incoming[conn[r]] /\ Pipe[<<conn[r], "peer">>] = outgoing[conn[r]]
  BY <1>1 DEF Pipe
<1>5. Connection!IsOpen(r) <=> closes[conn[r]] = 0
  BY <1>1, <1>2 DEF Connection!IsOpen, Unclosed
<1>6. QED
  BY <1>1, <1>2, <1>3, <1>4, <1>5 DEF Source, Target

\* Side of connection d holds v from now on, and no other channel changes.
Rewritten(d, side, v) ==
    /\ side = "peer" => outgoing' = [outgoing EXCEPT ![d] = v] /\ UNCHANGED incoming
    /\ side = "owner" => incoming' = [incoming EXCEPT ![d] = v] /\ UNCHANGED outgoing

SeenAs(d, side, v) == Pipe' = [Pipe EXCEPT ![<<d, side>>] = v]

LEMMA PipeWritten ==
    ASSUME IInv, NEW d \in Dials, NEW v, NEW side \in {"owner", "peer"}, Rewritten(d, side, v)
    PROVE  SeenAs(d, side, v)
<1>0. /\ side = "peer" => outgoing' = [outgoing EXCEPT ![d] = v] /\ UNCHANGED incoming
      /\ side = "owner" => incoming' = [incoming EXCEPT ![d] = v] /\ UNCHANGED outgoing
  BY DEF Rewritten
<1>1. outgoing \in [Dials -> Seq(Posts)] /\ incoming \in [Dials -> Seq(Posts)]
  BY DEF IInv, TypeOK
<1> DEFINE ends == Dials \X {"owner", "peer"}
<1>2. ASSUME NEW e \in ends
      PROVE  Pipe'[e] = IF e = <<d, side>> THEN v ELSE Pipe[e]
  <2>1. PICK c \in Dials, s \in {"owner", "peer"} : e = <<c, s>>
    OBVIOUS
  <2>2. /\ Pipe'[e] = IF s = "owner" THEN incoming'[c] ELSE outgoing'[c]
        /\ Pipe[e] = IF s = "owner" THEN incoming[c] ELSE outgoing[c]
    BY <2>1 DEF Pipe
  <2>3. e = <<d, side>> <=> c = d /\ s = side
    BY <2>1
  <2>4. QED
    BY <1>0, <1>1, <2>1, <2>2, <2>3
<1>3. Pipe' = [e \in ends |-> Pipe'[e]] /\ Pipe = [e \in ends |-> Pipe[e]]
  BY DEF Pipe
<1>4. [Pipe EXCEPT ![<<d, side>>] = v] = [e \in ends |-> IF e = <<d, side>> THEN v ELSE Pipe[e]]
  BY <1>3
<1>5. QED
  BY <1>2, <1>3, <1>4 DEF SeenAs

\* A handler that goes on changes its state and nothing else, as the clients see it.
LEMMA GoesOnTo ==
    ASSUME IInv, NEW r \in Callers, NEW from, NEW to, Goto(r, from, to), from \notin Unheard,
           to \notin Unheard, UNCHANGED <<client, conn>>
    PROVE  /\ At' = At /\ State[r] = Outcome(from) /\ State' = [State EXCEPT ![r] = Outcome(to)]
           /\ pc[r] \notin Unheard
<1>1. pc[r] = from /\ pc' = [pc EXCEPT ![r] = to]
  BY DEF Goto
<1>2. State[r] = Outcome(pc[r])
  BY DEF State, Callers
<1>3. QED
  BY <1>1, <1>2, GoesOn

LEMMA CallSeen ==
    ASSUME IInv, NEW r \in Callers, NEW c \in Clients, NEW d \in Dials, NEW way \in {"sending", "polling"},
           RelayGet(r, c, d, way)
    PROVE  Connection!Call(r)
<1>1. /\ pc[r] = "new" /\ pc' = [pc EXCEPT ![r] = way]
      /\ client' = [client EXCEPT ![r] = c] /\ conn' = [conn EXCEPT ![r] = d]
      /\ UNCHANGED <<closes, outgoing, incoming, got>>
  BY DEF RelayGet, Goto, states, channels
<1>2. /\ pc \in [Reqs -> Steps] /\ conn \in [Reqs -> Dials \cup {Nil}]
      /\ client \in [Reqs -> Clients \cup {Nil}] /\ r \in Reqs
  BY DEF IInv, TypeOK, Callers, Reqs
<1>3. Pipe' = Pipe /\ Unclosed' = Unclosed
  BY <1>1 DEF Pipe, Unclosed
<1>4. /\ \A k \in Callers : pc'[k] = IF k = r THEN way ELSE pc[k]
      /\ pc'[r] = way /\ conn'[r] = d
  BY <1>1, <1>2 DEF Callers, Reqs
<1>5. State[r] = "new" /\ State' = [State EXCEPT ![r] = "called"]
  <2>1. State' = [k \in Callers |-> Outcome(pc'[k])] /\ State = [k \in Callers |-> Outcome(pc[k])]
    BY DEF State, Callers
  <2>2. Outcome("new") = "new" /\ Outcome(way) = "called"
    BY DEF Outcome
  <2>3. [State EXCEPT ![r] = "called"] = [k \in Callers |-> IF k = r THEN "called" ELSE State[k]]
    BY <2>1
  <2>4. \A k \in Callers : Outcome(pc'[k]) = IF k = r THEN "called" ELSE State[k]
    BY <1>4, <2>1, <2>2
  <2>5. QED
    BY <1>1, <2>1, <2>2, <2>3, <2>4
<1>6. PICK end \in Connection!Ends : end = At'[r]
  <2>1. At'[r] = <<d, IF IsOwner(r)' THEN "owner" ELSE "peer">>
    BY <1>4 DEF At, Callers
  <2>2. QED
    BY <2>1 DEF Connection!Ends
<1>7. At' = [At EXCEPT ![r] = end]
  <2>1. ASSUME NEW k \in Callers, k # r, pc[k] \notin Unheard
        PROVE  pc'[k] = pc[k] /\ conn'[k] = conn[k] /\ (IsOwner(k)' <=> IsOwner(k))
    <3>1. k \in Reqs /\ conn[k] \in Dials /\ conn[k] \in Reqs /\ conn[k] # r
      BY <2>1, TcpAssumption DEF IInv, Relays, Callers, Unheard, Reqs
    <3>2. conn'[k] = conn[k] /\ client'[k] = client[k] /\ client'[conn[k]] = client[conn[k]]
      BY <1>1, <1>2, <2>1, <3>1
    <3>3. QED
      BY <1>4, <2>1, <3>2 DEF IsOwner
  <2>2. ASSUME NEW k \in Callers PROVE At'[k] = IF k = r THEN end ELSE At[k]
    <3>1. CASE k = r
      BY <1>6, <3>1
    <3>2. CASE k # r /\ pc[k] \in Unheard
      BY <1>4, <3>2 DEF At, Callers, Unheard
    <3>3. CASE k # r /\ pc[k] \notin Unheard
      <4>1. At[k] = <<conn[k], IF IsOwner(k) THEN "owner" ELSE "peer">>
        BY <3>3 DEF At, Callers, Unheard
      <4>2. At'[k] = <<conn'[k], IF IsOwner(k)' THEN "owner" ELSE "peer">>
        BY <2>1, <3>3 DEF At, Callers, Unheard
      <4>3. QED
        BY <2>1, <3>3, <4>1, <4>2
    <3>4. QED
      BY <3>1, <3>2, <3>3
  <2>3. At' = [k \in Callers |-> At'[k]] /\ At = [k \in Callers |-> At[k]]
    BY DEF At, Callers
  <2> HIDE DEF At
  <2>4. [At EXCEPT ![r] = end] = [k \in Callers |-> IF k = r THEN end ELSE At[k]]
    BY <2>3
  <2>5. QED
    BY <2>2, <2>3, <2>4
<1>8. QED
  BY <1>1, <1>3, <1>5, <1>6, <1>7 DEF Connection!Call, Connection!Becomes

LEMMA RejectSeen ==
    ASSUME IInv, NEW r \in Callers, NEW c \in Clients, NEW d \in Dials, RelayRefused(r, c, d)
    PROVE  Connection!Reject(r)
<1>1. /\ pc[r] = "new" /\ pc' = [pc EXCEPT ![r] = "refused"]
      /\ UNCHANGED <<closes, outgoing, incoming, got, client, conn>>
  BY DEF RelayRefused, Goto, states, channels, requests
<1>2. \A k \in Callers : pc'[k] = IF k = r THEN "refused" ELSE pc[k]
  BY <1>1 DEF IInv, TypeOK, Callers, Reqs
<1>3. Pipe' = Pipe /\ Unclosed' = Unclosed
  BY <1>1 DEF Pipe, Unclosed
<1>4. At' = At
  <2>1. \A k \in Callers : pc'[k] \in Unheard <=> pc[k] \in Unheard
    BY <1>1, <1>2 DEF Unheard
  <2>2. \A k \in Callers : IsOwner(k)' <=> IsOwner(k)
    BY <1>1 DEF IsOwner
  <2>3. QED
    BY <1>1, <2>1, <2>2, AtSame
<1>5. State[r] = "new" /\ State' = [State EXCEPT ![r] = "rejected"]
  <2>1. State' = [k \in Callers |-> Outcome(pc'[k])] /\ State = [k \in Callers |-> Outcome(pc[k])]
    BY DEF State, Callers
  <2>2. Outcome("new") = "new" /\ Outcome("refused") = "rejected"
    BY DEF Outcome
  <2>3. [State EXCEPT ![r] = "rejected"] = [k \in Callers |-> IF k = r THEN "rejected" ELSE State[k]]
    BY <2>1
  <2>4. \A k \in Callers : Outcome(pc'[k]) = IF k = r THEN "rejected" ELSE State[k]
    BY <1>2, <2>1, <2>2
  <2>5. QED
    BY <1>1, <2>1, <2>2, <2>3, <2>4
<1>6. QED
  BY <1>1, <1>3, <1>4, <1>5 DEF Connection!Reject, Connection!Becomes

LEMMA WriteSeen == ASSUME IInv, NEW q \in Posts, PostSend(q) PROVE Connection!Write(q)
<1>1. /\ Goto(q, "sending", "sent") /\ q \in Callers
      /\ closes[conn[q]] = 0 /\ Len(Target(q)) < ChanCap /\ Enqueue(q)
      /\ UNCHANGED <<closes, got, client, conn>>
  BY DEF PostSend, Callers, states, requests
<1>2. /\ At' = At /\ State[q] = Outcome("sending") /\ State' = [State EXCEPT ![q] = Outcome("sent")]
      /\ pc[q] \notin Unheard
  BY <1>1, GoesOnTo DEF Unheard
<1>3. Outcome("sending") = "called" /\ Outcome("sent") = "written"
  BY DEF Outcome
<1>4. /\ conn[q] \in Dials /\ Connection!IsOpen(q)
      /\ Connection!Far(At[q]) = <<conn[q], IF IsOwner(q) THEN "peer" ELSE "owner">>
      /\ Pipe[Connection!Far(At[q])] = Target(q)
  BY <1>1, <1>2, Stands
<1> DEFINE v == Append(Target(q), q)
           side == IF IsOwner(q) THEN "peer" ELSE "owner"
<1>5. side \in {"owner", "peer"}
  OBVIOUS
<1>6. Rewritten(conn[q], side, v)
  BY <1>1 DEF Rewritten, Enqueue, Target
<1> HIDE DEF v, side
<1>7. SeenAs(conn[q], side, v)
  BY <1>4, <1>5, <1>6, PipeWritten
<1>8. Pipe' = [Pipe EXCEPT ![Connection!Far(At[q])] = Append(@, q)]
  <2> DEFINE far == Connection!Far(At[q])
  <2>1. far = <<conn[q], side>> /\ v = Append(Pipe[far], q)
    BY <1>4 DEF side, v
  <2> HIDE DEF far
  <2>2. Pipe' = [Pipe EXCEPT ![far] = Append(Pipe[far], q)]
    BY <1>7, <2>1 DEF SeenAs
  <2>3. QED
    BY <2>2 DEF far
<1>9. Unclosed' = Unclosed
  BY <1>1 DEF Unclosed
<1>10. QED
  BY <1>1, <1>2, <1>3, <1>4, <1>8, <1>9 DEF Connection!Write, Connection!Becomes

\* An attempt that is not the last is not seen; the last one is a refusal.
LEMMA RefusalSeen ==
    ASSUME IInv, NEW q \in Posts, PostBackoff(q)
    PROVE  Connection!Refuse(q) \/ UNCHANGED Connection!duplexVars
<1>1. /\ pc[q] = "sending" /\ q \in Callers /\ closes[conn[q]] = 0 /\ Len(Target(q)) = ChanCap
      /\ pc' = pc \/ pc' = [pc EXCEPT ![q] = "tooMany"]
      /\ UNCHANGED <<closes, got, client, conn, outgoing, incoming>>
  BY DEF PostBackoff, Callers, states, channels
<1>2. CASE pc' = pc
  BY <1>1, <1>2, Unseen DEF channels
<1>3. CASE pc' = [pc EXCEPT ![q] = "tooMany"]
  <2>1. Goto(q, "sending", "tooMany")
    BY <1>1, <1>3 DEF Goto
  <2>2. /\ At' = At /\ State[q] = Outcome("sending") /\ State' = [State EXCEPT ![q] = Outcome("tooMany")]
        /\ pc[q] \notin Unheard
    BY <1>1, <2>1, GoesOnTo DEF Unheard
  <2>3. Outcome("sending") = "called" /\ Outcome("tooMany") = "refused"
    BY DEF Outcome
  <2>4. Connection!IsOpen(q) /\ Pipe[Connection!Far(At[q])] = Target(q)
    BY <1>1, <2>2, Stands
  <2>5. Pipe' = Pipe /\ Unclosed' = Unclosed
    BY <1>1 DEF Pipe, Unclosed
  <2>6. QED
    BY <1>1, <2>2, <2>3, <2>4, <2>5 DEF Connection!Refuse, Connection!Becomes
<1>4. QED
  BY <1>1, <1>2, <1>3

LEMMA BreakSeen == ASSUME IInv, NEW q \in Posts, PostPanic(q) PROVE Connection!Break(q)
<1>1. /\ Goto(q, "sending", "panicked") /\ q \in Callers /\ closes[conn[q]] > 0
      /\ UNCHANGED <<closes, got, client, conn, outgoing, incoming>>
  BY DEF PostPanic, Callers, states, channels, requests
<1>2. /\ At' = At /\ State[q] = Outcome("sending") /\ State' = [State EXCEPT ![q] = Outcome("panicked")]
      /\ pc[q] \notin Unheard
  BY <1>1, GoesOnTo DEF Unheard
<1>3. Outcome("sending") = "called" /\ Outcome("panicked") = "broken"
  BY DEF Outcome
<1>4. ~Connection!IsOpen(q)
  BY <1>1, <1>2, Stands
<1>5. Pipe' = Pipe /\ Unclosed' = Unclosed
  BY <1>1 DEF Pipe, Unclosed
<1>6. QED
  BY <1>1, <1>2, <1>3, <1>4, <1>5 DEF Connection!Break, Connection!Becomes

LEMMA ReadSeen == ASSUME IInv, NEW g \in Gets, GetTake(g) PROVE Connection!Read(g)
<1>1. /\ Goto(g, "polling", "taken") /\ g \in Callers /\ Source(g) # <<>> /\ Dequeue(g)
      /\ got' = [got EXCEPT ![g] = Head(Source(g))]
      /\ UNCHANGED <<closes, client, conn>>
  BY DEF GetTake, Callers, states
<1>2. /\ At' = At /\ State[g] = Outcome("polling") /\ State' = [State EXCEPT ![g] = Outcome("taken")]
      /\ pc[g] \notin Unheard
  BY <1>1, GoesOnTo DEF Unheard
<1>3. Outcome("polling") = "called" /\ Outcome("taken") = "read"
  BY DEF Outcome
<1>4. /\ conn[g] \in Dials /\ At[g] = <<conn[g], IF IsOwner(g) THEN "owner" ELSE "peer">>
      /\ Pipe[At[g]] = Source(g)
  BY <1>1, <1>2, Stands
<1> DEFINE v == Tail(Source(g))
           side == IF IsOwner(g) THEN "owner" ELSE "peer"
<1>5. side \in {"owner", "peer"}
  OBVIOUS
<1>6. Rewritten(conn[g], side, v)
  BY <1>1 DEF Rewritten, Dequeue, Source
<1> HIDE DEF v, side
<1>7. SeenAs(conn[g], side, v)
  BY <1>4, <1>5, <1>6, PipeWritten
<1>8. Pipe' = [Pipe EXCEPT ![At[g]] = Tail(@)]
  <2> DEFINE end == At[g]
  <2>1. end = <<conn[g], side>> /\ v = Tail(Pipe[end])
    BY <1>4 DEF side, v
  <2> HIDE DEF end
  <2>2. Pipe' = [Pipe EXCEPT ![end] = Tail(Pipe[end])]
    BY <1>7, <2>1 DEF SeenAs
  <2>3. QED
    BY <2>2 DEF end
<1>9. Unclosed' = Unclosed
  BY <1>1 DEF Unclosed
<1>10. QED
  BY <1>1, <1>2, <1>3, <1>4, <1>8, <1>9 DEF Connection!Read, Connection!Becomes

LEMMA EndSeen == ASSUME IInv, NEW g \in Gets, GetGone(g) PROVE Connection!End(g)
<1>1. /\ Goto(g, "polling", "gone") /\ g \in Callers /\ closes[conn[g]] > 0 /\ Source(g) = <<>>
      /\ UNCHANGED <<closes, got, client, conn, outgoing, incoming>>
  BY DEF GetGone, Callers, states, channels, requests
<1>2. /\ At' = At /\ State[g] = Outcome("polling") /\ State' = [State EXCEPT ![g] = Outcome("gone")]
      /\ pc[g] \notin Unheard
  BY <1>1, GoesOnTo DEF Unheard
<1>3. Outcome("polling") = "called" /\ Outcome("gone") = "ended"
  BY DEF Outcome
<1>4. ~Connection!IsOpen(g) /\ Pipe[At[g]] = <<>>
  BY <1>1, <1>2, Stands
<1>5. Pipe' = Pipe /\ Unclosed' = Unclosed
  BY <1>1 DEF Pipe, Unclosed
<1>6. QED
  BY <1>1, <1>2, <1>3, <1>4, <1>5 DEF Connection!End, Connection!Becomes

LEMMA GiveUpSeen == ASSUME IInv, NEW g \in Gets, GetTimeout(g) PROVE Connection!GiveUp(g)
<1>1. /\ Goto(g, "polling", "noContent") /\ g \in Callers
      /\ UNCHANGED <<closes, got, client, conn, outgoing, incoming>>
  BY DEF GetTimeout, Callers, states, channels, requests
<1>2. /\ At' = At /\ State[g] = Outcome("polling") /\ State' = [State EXCEPT ![g] = Outcome("noContent")]
  BY <1>1, GoesOnTo DEF Unheard
<1>3. Outcome("polling") = "called" /\ Outcome("noContent") = "empty"
  BY DEF Outcome
<1>4. Pipe' = Pipe /\ Unclosed' = Unclosed
  BY <1>1 DEF Pipe, Unclosed
<1>5. QED
  BY <1>1, <1>2, <1>3, <1>4 DEF Connection!GiveUp, Connection!Becomes

\* What a visit closes was open: the Closed flag and the channels agree.
LEMMA CloseSeen ==
    ASSUME IInv, NEW c \in Clients, SweepVisit(c)
    PROVE  \E dead \in SUBSET Unclosed : Connection!Close(dead)
<1> DEFINE dead == {d \in connections[c] : TimedOut(d) /\ d \notin closed}
<1>1. /\ closes' = [d \in Dials |-> IF d \in dead THEN closes[d] + 1 ELSE closes[d]]
      /\ UNCHANGED <<got, client, conn, pc, outgoing, incoming>>
  BY DEF SweepVisit, Close, channels, requests
<1>2. \A d \in Dials : closes[d] = IF d \in closed THEN 1 ELSE 0
  BY DEF IInv, ClosedOnce
<1>3. dead \subseteq Dials /\ \A d \in dead : d \notin closed
  BY DEF IInv, TypeOK
<1> HIDE DEF dead
<1>4. dead \subseteq Unclosed
  BY <1>2, <1>3 DEF Unclosed
<1>5. Unclosed' = Unclosed \ dead
  <2>1. ASSUME NEW d \in Dials PROVE closes'[d] = 0 <=> closes[d] = 0 /\ d \notin dead
    BY <1>1, <1>2, <1>3
  <2>2. QED
    BY <2>1 DEF Unclosed
<1>6. Pipe' = Pipe /\ State' = State
  BY <1>1 DEF Pipe, State
<1>7. At' = At
  BY <1>1, AtSame DEF IsOwner
<1>8. Connection!Close(dead)
  BY <1>1, <1>5, <1>6, <1>7 DEF Connection!Close
<1>9. QED
  BY <1>4, <1>8

\* Dials and accepts, and what happens to allocations.
LEMMA OthersUnseen ==
    ASSUME IInv, NEW x \in Dials \cup Accepts, NEW from, NEW to, Goto(x, from, to),
           UNCHANGED channels, UNCHANGED <<closes, got>>,
           \/ client' = client
           \/ from = "new" /\ \E c : client' = [client EXCEPT ![x] = c],
           conn' = conn \/ (x \in Accepts /\ \E d : conn' = [conn EXCEPT ![x] = d])
    PROVE  UNCHANGED Connection!duplexVars
<1>1. /\ pc \in [Reqs -> Steps] /\ conn \in [Reqs -> Dials \cup {Nil}]
      /\ client \in [Reqs -> Clients \cup {Nil}]
  BY DEF IInv, TypeOK
<1>2. pc[x] = from /\ \A k \in Reqs : k # x => pc'[k] = pc[k]
  BY <1>1 DEF Goto
<1>3. \A r \in Callers : r \in Reqs /\ r # x
  BY TcpAssumption DEF Callers, Reqs
<1>4. \A r \in Callers : pc'[r] = pc[r] /\ conn'[r] = conn[r] /\ client'[r] = client[r]
  BY <1>1, <1>2, <1>3
<1>5. \A d \in Dials : pc[d] \in Open => client'[d] = client[d]
  BY <1>1, <1>2 DEF Open, Reqs
<1>6. QED
  BY <1>4, <1>5, Unseen

LEMMA DialUnseen ==
    ASSUME IInv, NEW d \in Dials,
           \/ \E c, p \in Clients : DialGetCaller(d, c, p) \/ DialNoCaller(d, c)
           \/ DialLookup(d) \/ DialStep(d)
    PROVE  UNCHANGED Connection!duplexVars
<1>1. ASSUME NEW c \in Clients, NEW p \in Clients, DialGetCaller(d, c, p)
      PROVE  UNCHANGED Connection!duplexVars
  BY <1>1, OthersUnseen DEF DialGetCaller, states
<1>2. ASSUME NEW c \in Clients, DialNoCaller(d, c) PROVE UNCHANGED Connection!duplexVars
  BY <1>2, OthersUnseen DEF DialNoCaller, states, requests
<1>3. CASE DialLookup(d)
  BY <1>3, OthersUnseen DEF DialLookup, DialGetPeer, DialNoPeer, states, requests
<1>4. CASE DialStep(d)
  BY <1>4, OthersUnseen
     DEF DialStep, DialIntoPeer, DialIntoCaller, DialPush, DialTimeout, states, requests
<1>5. QED
  BY <1>1, <1>2, <1>3, <1>4

LEMMA AcceptUnseen ==
    ASSUME IInv, NEW a \in Accepts,
           (\E c \in Clients : AcceptGet(a, c) \/ AcceptRefused(a, c)) \/ AcceptStep(a)
    PROVE  UNCHANGED Connection!duplexVars
<1>1. ASSUME NEW c \in Clients, AcceptGet(a, c) PROVE UNCHANGED Connection!duplexVars
  BY <1>1, OthersUnseen DEF AcceptGet, states
<1>2. ASSUME NEW c \in Clients, AcceptRefused(a, c) PROVE UNCHANGED Connection!duplexVars
  BY <1>2, OthersUnseen DEF AcceptRefused, states, requests
<1>3. CASE AcceptTake(a)
  BY <1>3, OthersUnseen DEF AcceptTake, states
<1>4. CASE AcceptTimeout(a)
  BY <1>4, OthersUnseen DEF AcceptTimeout, states, requests
<1>5. QED
  BY <1>1, <1>2, <1>3, <1>4 DEF AcceptStep

\* What a handler does after its effect: it sets LastActivity and answers.
LEMMA TouchUnseen ==
    ASSUME IInv, NEW r \in Callers, PostTouch(r) \/ GetTouch(r)
    PROVE  UNCHANGED Connection!duplexVars
<1>1. PICK from \in {"sent", "taken"}, to \in {"ok", "data"} :
        Goto(r, from, to) /\ Outcome(from) = Outcome(to)
  BY DEF PostTouch, GetTouch, Outcome
<1>2. UNCHANGED channels /\ UNCHANGED <<closes, got, client, conn>>
  BY DEF PostTouch, GetTouch, Touch, requests
<1>3. \A k \in Callers : pc'[k] = IF k = r THEN to ELSE pc[k]
  BY <1>1 DEF Goto, IInv, TypeOK, Callers, Reqs
<1>4. \A k \in Callers : Outcome(pc'[k]) = Outcome(pc[k]) /\ (pc'[k] \in Unheard <=> pc[k] \in Unheard)
  BY <1>1, <1>3 DEF Goto, Unheard
<1>5. QED
  BY <1>2, <1>4, Unseen

LEMMA TablesUnseen ==
    ASSUME IInv, UNCHANGED channels, UNCHANGED <<closes, pc, client, conn, got>>
    PROVE  UNCHANGED Connection!duplexVars
BY Unseen

Seen == Connection!DuplexNext \/ UNCHANGED Connection!duplexVars

\* The connections of the relay are pairs of queues, written and read by their two ends
\* only and in order: retries, long polls and the sweep of cleanup do not show
\* (tcp_handler.go:352-527, memory.go:167-212).
THEOREM RelayImplementsDuplex == Spec => ImplementsDuplex
<1>1. Init => Connection!DuplexInit
  <2> SUFFICES ASSUME Init PROVE Connection!DuplexInit
    OBVIOUS
  <2>1. Pipe = [e \in Connection!Ends |-> <<>>]
    BY DEF Init, Pipe, Connection!Ends
  <2>2. Unclosed = Dials
    BY DEF Init, Unclosed
  <2>3. \A r \in Callers : pc[r] = "new"
    BY DEF Init, Callers, Reqs
  <2>4. At = [r \in Connection!Calls |-> Nil]
    BY <2>3 DEF At, Connection!Calls, Callers
  <2>5. Outcome("new") = "new"
    BY DEF Outcome
  <2>6. State = [r \in Connection!Calls |-> "new"]
    BY <2>3, <2>5 DEF State, Connection!Calls, Callers
  <2>7. got = [g \in Gets |-> Nil]
    BY DEF Init
  <2>8. QED
    BY <2>1, <2>2, <2>4, <2>6, <2>7 DEF Connection!DuplexInit
<1>2. IInv /\ [Next]_vars => [Connection!DuplexNext]_(Connection!duplexVars)
  <2> SUFFICES ASSUME IInv, [Next]_vars
               PROVE  Seen
    BY DEF Seen
  <2>1. ASSUME NEW r \in Callers, Connection!Call(r) \/ Connection!Reject(r) PROVE Seen
    BY <2>1 DEF Seen, Connection!DuplexNext, Connection!Calls, Callers
  <2>2. CASE Arrive
    <3>1. ASSUME NEW d \in Dials, NEW c \in Clients, NEW p \in Clients,
                 DialGetCaller(d, c, p) \/ DialNoCaller(d, c)
          PROVE  Seen
      BY <3>1, DialUnseen DEF Seen
    <3>2. ASSUME NEW a \in Accepts, NEW c \in Clients, AcceptGet(a, c) \/ AcceptRefused(a, c)
          PROVE  Seen
      BY <3>2, AcceptUnseen DEF Seen
    <3>3. ASSUME NEW q \in Posts, NEW c \in Clients, NEW d \in Dials,
                 RelayGet(q, c, d, "sending") \/ RelayRefused(q, c, d)
          PROVE  Seen
      BY <2>1, <3>3, CallSeen, RejectSeen DEF Callers
    <3>4. ASSUME NEW g \in Gets, NEW c \in Clients, NEW d \in Dials,
                 RelayGet(g, c, d, "polling") \/ RelayRefused(g, c, d)
          PROVE  Seen
      BY <2>1, <3>4, CallSeen, RejectSeen DEF Callers
    <3>5. QED
      BY <2>2, <3>1, <3>2, <3>3, <3>4 DEF Arrive
  <2>3. ASSUME NEW d \in Dials, DialLookup(d) \/ DialStep(d) \/ FiveMinutes(d) PROVE Seen
    <3>1. CASE FiveMinutes(d)
      BY <3>1, TablesUnseen DEF Seen, FiveMinutes, requests
    <3>2. QED
      BY <2>3, <3>1, DialUnseen DEF Seen
  <2>4. ASSUME NEW a \in Accepts, AcceptStep(a) PROVE Seen
    BY <2>4, AcceptUnseen DEF Seen
  <2>5. ASSUME NEW q \in Posts, PostStep(q) PROVE Seen
    <3>1. CASE PostPanic(q)
      BY <3>1, BreakSeen DEF Seen, Connection!DuplexNext
    <3>2. CASE PostSend(q)
      BY <3>2, WriteSeen DEF Seen, Connection!DuplexNext
    <3>3. CASE PostBackoff(q)
      BY <3>3, RefusalSeen DEF Seen, Connection!DuplexNext
    <3>4. CASE PostTouch(q)
      BY <3>4, TouchUnseen DEF Callers, Seen
    <3>5. QED
      BY <2>5, <3>1, <3>2, <3>3, <3>4 DEF PostStep
  <2>6. ASSUME NEW g \in Gets, GetStep(g) PROVE Seen
    <3>1. CASE GetTake(g)
      BY <3>1, ReadSeen DEF Seen, Connection!DuplexNext
    <3>2. CASE GetTouch(g)
      BY <3>2, TouchUnseen DEF Callers, Seen
    <3>3. CASE GetGone(g)
      BY <3>3, EndSeen DEF Seen, Connection!DuplexNext
    <3>4. CASE GetTimeout(g)
      BY <3>4, GiveUpSeen DEF Seen, Connection!DuplexNext
    <3>5. QED
      BY <2>6, <3>1, <3>2, <3>3, <3>4 DEF GetStep
  <2>7. CASE Sweep
    <3>1. ASSUME NEW expired \in SUBSET stored, SweepStart(expired) PROVE Seen
      BY <3>1, TablesUnseen DEF Seen, SweepStart, states, requests
    <3>2. ASSUME NEW c \in Clients, SweepVisit(c) PROVE Seen
      <4>1. PICK dead \in SUBSET Unclosed : Connection!Close(dead)
        BY <3>2, CloseSeen
      <4>2. QED
        BY <4>1 DEF Seen, Connection!DuplexNext
    <3>3. CASE SweepEnd
      BY <3>3, TablesUnseen DEF Seen, SweepEnd, states, requests
    <3>4. QED
      BY <2>7, <3>1, <3>2, <3>3 DEF Sweep
  <2>8. ASSUME NEW c \in Clients, Leave(c) \/ Return(c) PROVE Seen
    BY <2>8, TablesUnseen DEF Seen, Leave, Return, states, requests
  <2>9. CASE UNCHANGED vars
    BY <2>9, TablesUnseen DEF Seen, vars, states, requests
  <2>10. CASE Next
    BY <2>2, <2>3, <2>4, <2>5, <2>6, <2>7, <2>8, <2>10 DEF Next
  <2>11. QED
    BY <2>9, <2>10
<1>3. QED
  BY <1>1, <1>2, Invariance, PTL DEF Spec, ImplementsDuplex, Connection!DuplexSpec
====
