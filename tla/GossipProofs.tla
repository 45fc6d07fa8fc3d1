----------------------------- MODULE GossipProofs -----------------------------
(***************************************************************************)
(* For any network of nodes, links and opinions about the membership of    *)
(* the cluster, with packets lost, delayed and overtaken and items         *)
(* expiring: a payload is delivered to a node at most once per lifetime,   *)
(* never to the node that issued it, and a trace is a path of the cluster. *)
(* Until the first item can expire, no trace visits a node twice.          *)
(*                                                                         *)
(* Four invariants on top of the type invariant. Apart says how long ago   *)
(* the last delivery of a payload was, seen from the item of the payload   *)
(* or from its absence. Rooted follows the issuing node through the        *)
(* traces. Routed follows the hops: what an announcement, a request and a  *)
(* datum know of the two nodes they go between. Visited says that the      *)
(* nodes of a trace still have the payload, so that the next one, which    *)
(* has not, is none of them.                                               *)
(***************************************************************************)
EXTENDS Gossip, TLAPS

\* Leaves go to Zenon, with time to spare, unless they name the SMT solver.
USE ZenonT(30)

\* Only a request can carry something else than the hash of a payload.
Hashed == \A p \in net : p.type # "REQUEST" => p.hash \in Msgs

\* Only the issuer, a member of a cluster it knows, announces unasked.
Issuers == \A n \in Nodes, h \in Msgs : h \in announce[n] => n = Origin[h] /\ n \in Knows

Typed == TypeOK /\ Hashed /\ Issuers

-----------------------------------------------------------------------------
\* What a step can do to the item of a payload at a node.
Kept(n, h) == table'[n][h] = table[n][h] /\ calls'[n][h] = calls[n][h]

Dropped(n, h) ==
  /\ table[n][h] # NoItem /\ table[n][h].timestamp + Lifetime < now
  /\ table'[n][h] = NoItem
  /\ calls'[n][h] = calls[n][h]

Started(n, h) ==
  /\ table[n][h] = NoItem
  /\ table'[n][h] \in Item
  /\ table'[n][h].timestamp = now
  /\ table'[n][h].with_payload => n = Origin[h] /\ table'[n][h].trace = <<n>>
  /\ ~table'[n][h].with_payload =>
        /\ table'[n][h].trace = <<>>
        /\ \E p \in net : p.type = "HASH" /\ p.to = n /\ p.hash = h
  /\ calls'[n][h] = calls[n][h]

Given(n, h) ==
  /\ Waits(n, h)
  /\ table'[n][h] \in Item
  /\ table'[n][h].timestamp = table[n][h].timestamp
  /\ table'[n][h].with_payload
  /\ \E p \in net :
        /\ p.type = "DATA" /\ p.to = n /\ p.hash = h
        /\ table'[n][h].trace = Append(p.trace, n)
        /\ n \in Knows => p.from \in Members[n]
  /\ calls'[n][h] \in {calls[n][h], Append(calls[n][h], table[n][h].timestamp)}

CellStep(n, h) == Kept(n, h) \/ Dropped(n, h) \/ Started(n, h) \/ Given(n, h)

\* A step of the cells: at one time, or of the clock alone.
Cells ==
  /\ table' \in [Nodes -> [Msgs -> Item \cup {NoItem}]]
  /\ calls' \in [Nodes -> [Msgs -> Seq(Nat)]]
  /\ now' \in Nat
  /\ now' = now \/ (now' > now /\ table' = table /\ calls' = calls)
  /\ \A n \in Nodes, h \in Msgs : CellStep(n, h)

\* A step that leaves the items alone.
LEMMA CellsKept ==
  ASSUME TypeOK, table' = table, calls' = calls, now' \in Nat, now' >= now
  PROVE  Cells
<1>1. \A n \in Nodes, h \in Msgs : CellStep(n, h)
  BY DEF CellStep, Kept
<1>2. now \in Nat /\ (now' = now \/ now' > now)
  BY SMTT(30) DEF TypeOK
<1> QED BY <1>1, <1>2 DEF Cells, TypeOK

\* A step that changes one item and delivers nothing.
LEMMA CellsOne ==
  ASSUME TypeOK, NEW n \in Nodes, NEW h \in Msgs, NEW x \in Item \cup {NoItem},
         table' = [table EXCEPT ![n][h] = x], calls' = calls, now' = now,
         table'[n][h] = x /\ calls'[n][h] = calls[n][h] => CellStep(n, h)
  PROVE  Cells
<1>1. table \in [Nodes -> [Msgs -> Item \cup {NoItem}]] /\ now \in Nat
      /\ calls \in [Nodes -> [Msgs -> Seq(Nat)]]
  BY DEF TypeOK
<1>2. table' \in [Nodes -> [Msgs -> Item \cup {NoItem}]]
  BY <1>1
<1>3. table'[n][h] = x
  BY <1>1
<1>4. ASSUME NEW m \in Nodes, NEW g \in Msgs PROVE CellStep(m, g)
  <2>1. CASE m = n /\ g = h
    BY <1>3, <2>1
  <2>2. CASE ~(m = n /\ g = h)
    <3>1. table'[m][g] = table[m][g]
      BY <1>1, <2>2
    <3> QED BY <3>1 DEF CellStep, Kept
  <2> QED BY <2>1, <2>2
<1> QED BY <1>1, <1>2, <1>4 DEF Cells

\* Items are not NULL.
LEMMA ItemIs ==
  ASSUME TypeOK, NEW n \in Nodes, NEW h \in Msgs, table[n][h] # NoItem
  PROVE  table[n][h] \in Item
  BY DEF TypeOK

\* s_stream_ch_packet_in on one packet.
LEMMA PacketCells == ASSUME Typed, NEW p \in net, PacketIn(p) PROVE Cells
<1>1. /\ p \in Packet /\ TypeOK /\ now \in Nat
      /\ table \in [Nodes -> [Msgs -> Item \cup {NoItem}]]
      /\ calls \in [Nodes -> [Msgs -> Seq(Nat)]]
  BY DEF Typed, TypeOK
<1> DEFINE n == p.to
           h == p.hash
<1>2. n \in Nodes /\ p.from \in Nodes /\ p.trace \in Seq(Nodes)
  BY <1>1 DEF Packet
<1>3. CASE DropDerelict(p)
  <2>1. h \in Msgs /\ table[n][h] # NoItem /\ table[n][h].timestamp + Lifetime < now
    BY <1>3 DEF DropDerelict, Found, Derelict
  <2>2. table' = [table EXCEPT ![n][h] = NoItem] /\ calls' = calls /\ now' = now
    BY <1>3 DEF DropDerelict
  <2> QED BY <1>1, <1>2, <2>1, <2>2, CellsOne DEF CellStep, Dropped
<1>4. CASE SendData(p) \/ Ignore(p) \/ AskAnother(p)
  <2>1. table' = table /\ calls' = calls /\ now' = now
    BY <1>4 DEF SendData, Ignore, AskAnother
  <2> QED BY <1>1, <2>1, CellsKept, SMTT(30)
<1>5. CASE SendRequest(p)
  <2> DEFINE x == [timestamp |-> now, with_payload |-> FALSE, trace |-> <<>>]
  <2>1. h \in Msgs
    BY <1>5 DEF SendRequest, Typed, Hashed
  <2>2. table[n][h] = NoItem /\ p.type = "HASH"
    BY <1>5, <2>1 DEF SendRequest, Found
  <2>3. table' = [table EXCEPT ![n][h] = x] /\ calls' = calls /\ now' = now
    BY <1>5 DEF SendRequest
  <2>4. x \in Item /\ x.timestamp = now /\ ~x.with_payload /\ x.trace = <<>>
    BY <1>1, SMTT(30) DEF Item
  <2> HIDE DEF x
  <2>5. table'[n][h] = x /\ calls'[n][h] = calls[n][h] => CellStep(n, h)
    BY <2>2, <2>4 DEF CellStep, Started
  <2> QED BY <1>1, <1>2, <2>1, <2>3, <2>4, <2>5, CellsOne
<1>6. CASE DropData(p)
  <2>1. h \in Msgs /\ calls' = calls /\ now' = now
    BY <1>6 DEF DropData, Typed, Hashed
  <2>2. CASE table' = table
    BY <1>1, <2>1, <2>2, CellsKept, SMTT(30)
  <2>3. CASE Waits(n, h) /\ Derelict(n, h) /\ table' = [table EXCEPT ![n][h] = NoItem]
    <3>1. table[n][h] # NoItem /\ table[n][h].timestamp + Lifetime < now
      BY <2>1, <2>3 DEF Waits, Derelict, Found
    <3> QED BY <1>1, <1>2, <2>1, <2>3, <3>1, CellsOne DEF CellStep, Dropped
  <2> QED BY <1>6, <2>2, <2>3 DEF DropData
<1>7. CASE Accept(p)
  <2> DEFINE i == table[n][h]
             t == Traced(n, p.trace)
             x == [[i EXCEPT !.with_payload = TRUE] EXCEPT !.trace = t]
             c == IF n \in Listening THEN Append(calls[n][h], i.timestamp) ELSE calls[n][h]
  <2>1. h \in Msgs /\ Waits(n, h)
    BY <1>7 DEF Accept, Wanted, Typed, Hashed
  <2>2. i \in Item
    BY <1>1, <1>2, <2>1, ItemIs DEF Waits
  <2>3. t \in Seq(Nodes)
    BY <1>2, SMTT(30) DEF Traced
  <2> HIDE DEF t
  <2>4. /\ table' = [table EXCEPT ![n][h] = x]
        /\ calls' = [calls EXCEPT ![n][h] = c]
        /\ now' = now
    <3>1. table' = [table EXCEPT ![n][h].with_payload = TRUE, ![n][h].trace = t]
      BY <1>7 DEF Accept, t
    <3>2. table' = [table EXCEPT ![n][h] = x]
      BY <1>1, <1>2, <2>1, <2>2, <3>1 DEF Item
    <3>3. calls' = [calls EXCEPT ![n][h] = c] /\ now' = now
      BY <1>7 DEF Accept
    <3> QED BY <3>2, <3>3
  <2> HIDE DEF i
  <2>5. x \in Item /\ x.timestamp = i.timestamp /\ x.with_payload /\ x.trace = t
    BY <2>2, <2>3 DEF Item
  <2>6. i.timestamp \in Nat
    BY <2>2 DEF Item
  <2>7. c \in Seq(Nat) /\ c \in {calls[n][h], Append(calls[n][h], i.timestamp)}
    BY <1>1, <1>2, <2>1, <2>6, SMTT(30)
  <2> HIDE DEF x, c
  <2>8. /\ table' \in [Nodes -> [Msgs -> Item \cup {NoItem}]]
        /\ calls' \in [Nodes -> [Msgs -> Seq(Nat)]]
    BY <1>1, <1>2, <2>1, <2>4, <2>5, <2>7
  <2>9. ASSUME NEW m \in Nodes, NEW g \in Msgs PROVE CellStep(m, g)
    <3>1. CASE m = n /\ g = h
      <4>1. table'[n][h] = x /\ calls'[n][h] = c
        BY <1>1, <1>2, <2>1, <2>4
      <4>2. p.type = "DATA" /\ (n \in Knows => p.from \in Members[n])
        BY <1>7 DEF Accept, Wanted, MayAccept
      <4>3. t = Append(p.trace, n)
        BY DEF t, Traced
      <4>4. \E o \in net :
              /\ o.type = "DATA" /\ o.to = n /\ o.hash = h
              /\ table'[n][h].trace = Append(o.trace, n)
              /\ n \in Knows => o.from \in Members[n]
        BY <2>5, <4>1, <4>2, <4>3
      <4>5. Given(n, h)
        BY <2>1, <2>5, <2>7, <4>1, <4>4 DEF Given, i
      <4> QED BY <3>1, <4>5 DEF CellStep
    <3>2. CASE ~(m = n /\ g = h)
      <4>1. table'[m][g] = table[m][g] /\ calls'[m][g] = calls[m][g]
        BY <1>1, <1>2, <2>1, <2>4, <3>2
      <4> QED BY <4>1 DEF CellStep, Kept
    <3> QED BY <3>1, <3>2
  <2> QED BY <1>1, <2>4, <2>8, <2>9 DEF Cells
<1> QED BY <1>3, <1>4, <1>5, <1>6, <1>7 DEF PacketIn

\* Every step is a step of the cells.
LEMMA NextCells == ASSUME Typed, [Next]_vars PROVE Cells
<1>1. /\ TypeOK /\ now \in Nat
      /\ table \in [Nodes -> [Msgs -> Item \cup {NoItem}]]
  BY DEF Typed, TypeOK
<1>2. CASE Tick
  BY <1>1, <1>2, CellsKept, SMTT(30) DEF Tick
<1>3. ASSUME NEW n \in Nodes, NEW h \in Msgs, Issue(n, h) PROVE Cells
  <2> DEFINE x == [timestamp |-> now, with_payload |-> TRUE, trace |-> <<n>>]
  <2>1. /\ table[n][h] = NoItem /\ n = Origin[h]
        /\ table' = [table EXCEPT ![n][h] = x] /\ calls' = calls /\ now' = now
    BY <1>3 DEF Issue
  <2>2. x \in Item /\ x.timestamp = now /\ x.with_payload /\ x.trace = <<n>>
    BY <1>1, SMTT(30) DEF Item
  <2> HIDE DEF x
  <2>3. table'[n][h] = x /\ calls'[n][h] = calls[n][h] => CellStep(n, h)
    BY <2>1, <2>2 DEF CellStep, Started
  <2> QED BY <1>1, <2>1, <2>2, <2>3, CellsOne
<1>4. CASE Announcing
  <2>1. table' = table /\ calls' = calls /\ now' = now
    BY <1>4 DEF Announcing, Announce
  <2> QED BY <1>1, <2>1, CellsKept, SMTT(30)
<1>5. ASSUME NEW n \in Nodes, Maintenance(n) PROVE Cells
  <2>1. calls' = calls /\ now' = now
    BY <1>5 DEF Maintenance
  <2>2. table' \in [Nodes -> [Msgs -> Item \cup {NoItem}]]
    BY <1>1, <1>5 DEF Maintenance
  <2>3. ASSUME NEW m \in Nodes, NEW g \in Msgs PROVE CellStep(m, g)
    <3>1. CASE table'[m][g] = table[m][g]
      BY <2>1, <3>1 DEF CellStep, Kept
    <3>2. CASE table'[m][g] # table[m][g]
      <4>1. m = n
        BY <1>1, <1>5, <3>2 DEF Maintenance
      <4>2. table'[n][g] = IF table[n][g] # NoItem /\ Derelict(n, g) THEN NoItem ELSE table[n][g]
        BY <1>1, <1>5 DEF Maintenance
      <4>3. table[n][g] # NoItem /\ Derelict(n, g) /\ table'[n][g] = NoItem
        BY <3>2, <4>1, <4>2
      <4> QED BY <2>1, <4>1, <4>3 DEF CellStep, Dropped, Derelict, Found
    <3> QED BY <3>1, <3>2
  <2> QED BY <1>1, <2>1, <2>2, <2>3 DEF Cells, TypeOK
<1>6. CASE Deliver
  BY <1>6, PacketCells DEF Deliver
<1>7. ASSUME NEW p \in net, Lose(p) PROVE Cells
  <2>1. table' = table /\ calls' = calls /\ now' = now
    BY <1>7 DEF Lose
  <2> QED BY <1>1, <2>1, CellsKept, SMTT(30)
<1>8. CASE UNCHANGED vars
  BY <1>1, <1>8, CellsKept, SMTT(30) DEF vars
<1> QED BY <1>2, <1>3, <1>4, <1>5, <1>6, <1>7, <1>8 DEF Next

-----------------------------------------------------------------------------
\* The packets a broadcast makes.
LEMMA BroadcastOK ==
  ASSUME NEW n \in Nodes, NEW h \in Msgs, NEW e, NEW q \in Broadcast(n, h, e)
  PROVE  /\ q \in Packet /\ q.type = "HASH" /\ q.from = n /\ q.hash = h
         /\ q.to \in Members[n] /\ q.to \notin e /\ <<n, q.to>> \in Links
<1>1. PICK m \in {k \in Members[n] : k \notin e /\ <<n, k>> \in Links} :
        q = [type |-> "HASH", from |-> n, to |-> m, hash |-> h, trace |-> <<>>]
  BY DEF Broadcast
<1>2. m \in Nodes
  BY GossipAssumption
<1> QED BY <1>1, <1>2, SMTT(30) DEF Packet

\* The packets that a step adds, and what it made them from.
Announced(q) ==
  /\ q.type = "HASH" /\ q.hash \in Msgs /\ q.from \in Knows
  /\ q.to \in Members[q.from] /\ <<q.from, q.to>> \in Links
  /\ \/ q.hash \in announce[q.from] /\ q.to # q.from
     \/ /\ table'[q.from][q.hash] # NoItem /\ table'[q.from][q.hash].with_payload
        /\ q.to \notin Range(table'[q.from][q.hash].trace)

Requested(q) ==
  /\ q.type = "REQUEST"
  /\ q.hash \in Msgs =>
        \E p \in net : p.type = "HASH" /\ p.hash = q.hash /\ p.from = q.to /\ p.to = q.from

Answered(q) ==
  /\ q.type = "DATA" /\ q.hash \in Msgs
  /\ table[q.from][q.hash] # NoItem /\ table[q.from][q.hash].with_payload
  /\ q.trace = table[q.from][q.hash].trace
  /\ \E p \in net : p.type = "REQUEST" /\ p.hash = q.hash /\ p.from = q.to /\ p.to = q.from

NewPackets ==
  \A q \in net' : q \in net \/ (q \in Packet /\ (Announced(q) \/ Requested(q) \/ Answered(q)))

\* s_stream_ch_packet_in makes no other packets.
LEMMA PacketPackets == ASSUME Typed, NEW p \in net, PacketIn(p) PROVE NewPackets
<1> DEFINE n == p.to
           h == p.hash
<1>1. /\ p \in Packet /\ TypeOK /\ net \subseteq Packet
      /\ table \in [Nodes -> [Msgs -> Item \cup {NoItem}]]
  BY DEF Typed, TypeOK
<1>2. /\ n \in Nodes /\ p.from \in Nodes /\ p.trace \in Seq(Nodes)
      /\ h \in Msgs \cup {Header}
  BY <1>1 DEF Packet
<1>3. CASE DropDerelict(p) \/ Ignore(p) \/ DropData(p)
  <2>1. net' \subseteq net
    BY <1>3 DEF DropDerelict, Ignore, DropData
  <2> QED BY <2>1 DEF NewPackets
<1>4. CASE SendData(p)
  <2> DEFINE q == [type |-> "DATA", from |-> n, to |-> p.from, hash |-> h,
                   trace |-> Found(n, h).trace]
  <2>1. /\ p.type = "REQUEST" /\ Found(n, h) # NoItem /\ Found(n, h).with_payload
        /\ net' = (net \ {p}) \cup {q}
    BY <1>4 DEF SendData
  <2>2. h \in Msgs /\ Found(n, h) = table[n][h]
    BY <2>1 DEF Found
  <2>3. table[n][h] \in Item
    BY <1>1, <1>2, <2>1, <2>2, ItemIs
  <2>4. table[n][h].trace \in Seq(Nodes)
    BY <2>3 DEF Item
  <2>5. /\ q \in Packet /\ q.type = "DATA" /\ q.from = n /\ q.to = p.from /\ q.hash = h
        /\ q.trace = table[n][h].trace
    BY <1>2, <2>2, <2>4 DEF Packet
  <2> HIDE DEF q
  <2>6. Answered(q)
    BY <2>1, <2>2, <2>5 DEF Answered
  <2> QED BY <2>1, <2>5, <2>6 DEF NewPackets
<1>5. CASE SendRequest(p)
  <2> DEFINE q == [type |-> "REQUEST", from |-> n, to |-> p.from, hash |-> h, trace |-> <<>>]
  <2>1. p.type = "HASH" /\ net' = (net \ {p}) \cup {q}
    BY <1>5 DEF SendRequest
  <2>2. q \in Packet /\ q.type = "REQUEST" /\ q.from = n /\ q.to = p.from /\ q.hash = h
    BY <1>2, SMTT(30) DEF Packet
  <2> HIDE DEF q
  <2>3. Requested(q)
    BY <2>1, <2>2 DEF Requested
  <2> QED BY <2>1, <2>2, <2>3 DEF NewPackets
<1>6. CASE AskAnother(p)
  <2>1. ASSUME NEW q \in net', q \notin net PROVE q \in Packet /\ Requested(q)
    <3>1. PICK k \in Nodes :
            q = [type |-> "REQUEST", from |-> n, to |-> k, hash |-> Header, trace |-> <<>>]
      BY <1>6, <2>1 DEF AskAnother
    <3>2. q \in Packet /\ q.type = "REQUEST" /\ q.hash = Header
      BY <1>2, <3>1, SMTT(30) DEF Packet
    <3> QED BY <3>2, HeaderAssumption DEF Requested
  <2> QED BY <2>1 DEF NewPackets
<1>7. CASE Accept(p)
  <2> DEFINE t == Traced(n, p.trace)
  <2>1. h \in Msgs /\ Waits(n, h)
    BY <1>7 DEF Accept, Wanted, Typed, Hashed
  <2>2. table[n][h] \in Item
    BY <1>1, <1>2, <2>1, ItemIs DEF Waits
  <2>3. t \in Seq(Nodes)
    BY <1>2, SMTT(30) DEF Traced
  <2>4. /\ table' = [table EXCEPT ![n][h].with_payload = TRUE, ![n][h].trace = t]
        /\ net' = (net \ {p}) \cup (IF n \in Knows THEN Broadcast(n, h, Range(t)) ELSE {})
    BY <1>7 DEF Accept
  <2> HIDE DEF t
  <2>5. table'[n][h].with_payload /\ table'[n][h].trace = t /\ table'[n][h] \in Item
    BY <1>1, <1>2, <2>1, <2>2, <2>3, <2>4 DEF Item
  <2>6. table'[n][h] # NoItem
    BY <2>5, NoItemAssumption
  <2>7. ASSUME NEW q \in net', q \notin net PROVE q \in Packet /\ Announced(q)
    <3>1. q \in Broadcast(n, h, Range(t)) /\ n \in Knows
      BY <2>4, <2>7
    <3>2. /\ q \in Packet /\ q.type = "HASH" /\ q.from = n /\ q.hash = h
          /\ q.to \in Members[n] /\ q.to \notin Range(t) /\ <<n, q.to>> \in Links
      BY <1>2, <2>1, <3>1, BroadcastOK, SMTT(30)
    <3> QED BY <2>1, <2>5, <2>6, <3>1, <3>2 DEF Announced
  <2> QED BY <2>7 DEF NewPackets
<1> QED BY <1>3, <1>4, <1>5, <1>6, <1>7 DEF PacketIn

\* Nor does any other step.
LEMMA NextPackets == ASSUME Typed, [Next]_vars PROVE NewPackets
<1>1. ASSUME NEW n \in Nodes, NEW h \in Msgs, Announce(n, h) PROVE NewPackets
  <2>1. h \in announce[n] /\ net' = net \cup Broadcast(n, h, {n}) /\ n \in Knows
    BY <1>1 DEF Announce, Typed, Issuers
  <2>2. ASSUME NEW q \in net', q \notin net PROVE q \in Packet /\ Announced(q)
    <3>1. /\ q \in Packet /\ q.type = "HASH" /\ q.from = n /\ q.hash = h
          /\ q.to \in Members[n] /\ q.to \notin {n} /\ <<n, q.to>> \in Links
      BY <2>1, <2>2, BroadcastOK
    <3> QED BY <2>1, <3>1 DEF Announced
  <2> QED BY <2>2 DEF NewPackets
<1>2. CASE Announcing
  BY <1>1, <1>2 DEF Announcing
<1>3. CASE Deliver
  BY <1>3, PacketPackets DEF Deliver
<1>4. CASE net' \subseteq net
  BY <1>4 DEF NewPackets
<1>5. ~Announcing /\ ~Deliver => net' \subseteq net
  BY DEF Next, Tick, Issue, Maintenance, Lose, vars
<1> QED BY <1>2, <1>3, <1>4, <1>5

\* What Typed says is kept.
LEMMA TypedStep == ASSUME Typed, [Next]_vars PROVE Typed'
<1>1. Cells /\ NewPackets
  BY NextCells, NextPackets
<1>2. net' \subseteq Packet
  <2>1. net \subseteq Packet
    BY DEF Typed, TypeOK
  <2> QED BY <1>1, <2>1 DEF NewPackets
<1>3. Hashed'
  <2> SUFFICES ASSUME NEW q \in net', q.type # "REQUEST" PROVE q.hash \in Msgs
    BY DEF Hashed
  <2>1. CASE q \in net
    BY <2>1 DEF Typed, Hashed
  <2>2. CASE q \notin net
    BY <1>1, <2>2 DEF NewPackets, Announced, Requested, Answered
  <2> QED BY <2>1, <2>2
<1>4. announce' \in [Nodes -> SUBSET Msgs] /\ Issuers'
  <2>1. announce \in [Nodes -> SUBSET Msgs]
    BY DEF Typed, TypeOK
  <2>2. ASSUME NEW n \in Nodes, NEW h \in Msgs, Issue(n, h)
        PROVE  announce' \in [Nodes -> SUBSET Msgs] /\ Issuers'
    <3>1. announce' = [announce EXCEPT ![n] = announce[n] \cup {h}] /\ n = Origin[h] /\ n \in Knows
      BY <2>2 DEF Issue
    <3> QED BY <2>1, <3>1 DEF Typed, Issuers
  <2>3. ASSUME NEW n \in Nodes, NEW h \in Msgs, Announce(n, h)
        PROVE  announce' \in [Nodes -> SUBSET Msgs] /\ Issuers'
    <3>1. announce' = [announce EXCEPT ![n] = announce[n] \ {h}]
      BY <2>3 DEF Announce
    <3> QED BY <2>1, <3>1 DEF Typed, Issuers
  <2>4. CASE announce' = announce
    BY <2>1, <2>4 DEF Typed, Issuers
  <2>5. \/ \E n \in Nodes, h \in Msgs : Issue(n, h) \/ Announce(n, h)
        \/ announce' = announce
    BY
       DEF Next, Tick, Announcing, Maintenance, Deliver, PacketIn, DropDerelict, SendData,
           SendRequest, Ignore, DropData, AskAnother, Accept, Lose, vars
  <2> QED BY <2>2, <2>3, <2>4, <2>5
<1> QED BY <1>1, <1>2, <1>3, <1>4 DEF Typed, TypeOK, Cells

-----------------------------------------------------------------------------
\* The last delivery of h at n is more than a lifetime before t.
LongBefore(c, t) == c # <<>> => c[Len(c)] + Lifetime < t

ApartAt(item, c, t) ==
  IF item = NoItem THEN LongBefore(c, t)
  ELSE /\ item.timestamp <= t
       /\ IF item.with_payload THEN c # <<>> => c[Len(c)] <= item.timestamp
          ELSE LongBefore(c, item.timestamp)

Spaced(c) == \A i \in 1..(Len(c) - 1) : c[i] + Lifetime < c[i + 1]

Apart ==
  \A n \in Nodes, h \in Msgs :
    ApartAt(table[n][h], calls[n][h], now) /\ Spaced(calls[n][h])

\* A delivery that comes long after the last one keeps them spaced.
LEMMA SpacedAppend ==
  ASSUME NEW c \in Seq(Nat), Spaced(c), NEW t \in Nat, LongBefore(c, t)
  PROVE  /\ Spaced(Append(c, t)) /\ Append(c, t) # <<>>
         /\ Append(c, t)[Len(Append(c, t))] = t
<1> DEFINE d == Append(c, t)
<1>1. /\ Len(c) \in Nat /\ Len(d) = Len(c) + 1 /\ d[Len(c) + 1] = t
      /\ \A i \in 1..Len(c) : d[i] = c[i]
  BY SMTT(30)
<1>2. d # <<>> /\ d[Len(d)] = t
  BY <1>1, SMTT(30)
<1> HIDE DEF d
<1>3. ASSUME NEW i \in 1..(Len(d) - 1) PROVE d[i] + Lifetime < d[i + 1]
  <2>1. i \in 1..Len(c)
    BY <1>1, SMTT(30)
  <2>2. CASE i = Len(c)
    <3>1. c # <<>> /\ d[i] = c[Len(c)] /\ d[i + 1] = t
      BY <1>1, <2>1, <2>2, SMTT(30)
    <3> QED BY <3>1 DEF LongBefore
  <2>3. CASE i # Len(c)
    <3>1. i \in 1..(Len(c) - 1) /\ i + 1 \in 1..Len(c)
      BY <1>1, <2>1, <2>3, SMTT(30)
    <3> QED BY <1>1, <2>1, <3>1 DEF Spaced
  <2> QED BY <2>2, <2>3
<1>4. Spaced(d)
  BY <1>3 DEF Spaced
<1> QED BY <1>2, <1>4 DEF d

\* The with_payload test and the two expiry tests keep deliveries apart.
LEMMA ApartStep == ASSUME Typed, Apart, Cells PROVE Apart'
<1> SUFFICES ASSUME NEW n \in Nodes, NEW h \in Msgs
             PROVE  ApartAt(table'[n][h], calls'[n][h], now') /\ Spaced(calls'[n][h])
  BY DEF Apart
<1> DEFINE i == table[n][h]
           j == table'[n][h]
           c == calls[n][h]
           d == calls'[n][h]
<1>1. /\ now \in Nat /\ now' \in Nat /\ c \in Seq(Nat) /\ Lifetime \in Nat
      /\ ApartAt(i, c, now) /\ Spaced(c)
  BY GossipAssumption DEF Typed, TypeOK, Cells, Apart
<1>2. i # NoItem => i \in Item /\ i.timestamp \in Nat
  <2>1. i # NoItem => i \in Item
    BY DEF Typed, TypeOK
  <2> QED BY <2>1 DEF Item
<1>3. c # <<>> => c[Len(c)] \in Nat
  BY <1>1, SMTT(30)
<1>4. CASE now' # now
  <2>1. now' > now /\ j = i /\ d = c
    BY <1>4 DEF Cells
  <2> HIDE DEF i, j, c, d
  <2>2. ApartAt(i, c, now')
    BY <1>1, <1>2, <1>3, <2>1, SMTT(30) DEF ApartAt, LongBefore
  <2> QED BY <1>1, <2>1, <2>2 DEF j, d
<1>5. CASE now' = now /\ Kept(n, h)
  <2>1. j = i /\ d = c
    BY <1>5 DEF Kept
  <2> QED BY <1>1, <1>5, <2>1
<1>6. CASE now' = now /\ Dropped(n, h)
  <2>1. i # NoItem /\ i.timestamp + Lifetime < now /\ j = NoItem /\ d = c
    BY <1>6 DEF Dropped
  <2> HIDE DEF i, j, c, d
  <2>2. LongBefore(c, now)
    BY <1>1, <1>2, <1>3, <2>1, SMTT(30) DEF ApartAt, LongBefore
  <2> QED BY <1>1, <1>6, <2>1, <2>2 DEF ApartAt, j, d
<1>7. CASE now' = now /\ Started(n, h)
  <2>1. i = NoItem /\ j \in Item /\ j.timestamp = now /\ d = c
    BY <1>7 DEF Started
  <2>2. j # NoItem
    BY <2>1, NoItemAssumption
  <2> HIDE DEF i, j, c, d
  <2>3. LongBefore(c, now)
    BY <1>1, <2>1 DEF ApartAt
  <2>4. ApartAt(j, c, now)
    BY <1>1, <1>3, <2>1, <2>2, <2>3, SMTT(30) DEF ApartAt, LongBefore
  <2> QED BY <1>1, <1>7, <2>1, <2>4 DEF j, d
<1>8. CASE now' = now /\ Given(n, h)
  <2>1. /\ i # NoItem /\ ~i.with_payload /\ j \in Item /\ j.timestamp = i.timestamp
        /\ j.with_payload /\ d \in {c, Append(c, i.timestamp)}
    BY <1>8 DEF Given, Waits
  <2>2. j # NoItem
    BY <2>1, NoItemAssumption
  <2> HIDE DEF i, j, c, d
  <2>3. i.timestamp <= now /\ LongBefore(c, i.timestamp) /\ i.timestamp \in Nat
    BY <1>1, <1>2, <2>1 DEF ApartAt
  <2>4. Spaced(d) /\ (d # <<>> => d[Len(d)] <= i.timestamp)
    <3>1. CASE d = c
      BY <1>1, <1>3, <2>3, <3>1, SMTT(30) DEF LongBefore
    <3>2. CASE d = Append(c, i.timestamp)
      BY <1>1, <2>3, <3>2, SpacedAppend, SMTT(30)
    <3> QED BY <2>1, <3>1, <3>2
  <2>5. ApartAt(j, d, now)
    BY <2>1, <2>2, <2>3, <2>4 DEF ApartAt
  <2> QED BY <1>8, <2>4, <2>5 DEF j, d
<1>9. CellStep(n, h)
  BY DEF Cells
<1> QED BY <1>4, <1>5, <1>6, <1>7, <1>8, <1>9 DEF CellStep

-----------------------------------------------------------------------------
\* The issuer of h is in every trace of it and is never told of it.
ItemRooted(n, h) ==
  table[n][h] # NoItem =>
    /\ table[n][h].with_payload => Origin[h] \in Range(table[n][h].trace)
    /\ n = Origin[h] => table[n][h].with_payload

PacketRooted(p) ==
  /\ p.type = "HASH" => p.to # Origin[p.hash]
  /\ p.type = "DATA" => Origin[p.hash] \in Range(p.trace)

Rooted ==
  /\ \A n \in Nodes, h \in Msgs : ItemRooted(n, h)
  /\ \A p \in net : PacketRooted(p)
  /\ OriginNotTold

\* Appending keeps what is in a sequence.
LEMMA RangeAppend ==
  ASSUME NEW S, NEW t \in Seq(S), NEW n \in S
  PROVE  Range(t) \subseteq Range(Append(t, n)) /\ n \in Range(Append(t, n))
<1>1. /\ Len(t) \in Nat /\ Len(Append(t, n)) = Len(t) + 1
      /\ DOMAIN t = 1..Len(t) /\ DOMAIN Append(t, n) = 1..(Len(t) + 1)
      /\ \A i \in 1..Len(t) : Append(t, n)[i] = t[i]
      /\ Append(t, n)[Len(t) + 1] = n
  BY SMTT(30)
<1>2. ASSUME NEW i \in 1..Len(t) PROVE t[i] \in Range(Append(t, n))
  <2>1. i \in DOMAIN Append(t, n)
    BY <1>1, SMTT(30)
  <2> QED BY <1>1, <2>1 DEF Range
<1>3. n \in Range(Append(t, n))
  <2>1. Len(t) + 1 \in DOMAIN Append(t, n)
    BY <1>1, SMTT(30)
  <2> QED BY <1>1, <2>1 DEF Range
<1> QED BY <1>1, <1>2, <1>3 DEF Range

\* The broadcast of dap_gossip_msg_issue excludes the issuer, every later one
\* the trace with the issuer in it.
LEMMA RootedStep == ASSUME Typed, Rooted, Cells, NewPackets PROVE Rooted'
<1>1. ASSUME NEW n \in Nodes, NEW h \in Msgs
      PROVE  ItemRooted(n, h)' /\ (n = Origin[h] => calls'[n][h] = <<>>)
  <2>1. ItemRooted(n, h) /\ (n = Origin[h] => calls[n][h] = <<>>)
    BY DEF Rooted, OriginNotTold
  <2>2. CASE Kept(n, h)
    BY <2>1, <2>2 DEF Kept, ItemRooted
  <2>3. CASE Dropped(n, h)
    BY <2>1, <2>3 DEF Dropped, ItemRooted
  <2>4. CASE Started(n, h)
    <3>1. calls'[n][h] = calls[n][h]
      BY <2>4 DEF Started
    <3>2. CASE table'[n][h].with_payload
      <4>1. n = Origin[h] /\ table'[n][h].trace = <<n>>
        BY <2>4, <3>2 DEF Started
      <4>2. n \in Range(<<n>>)
        BY SMTT(30) DEF Range
      <4> QED BY <2>1, <3>1, <3>2, <4>1, <4>2 DEF ItemRooted
    <3>3. CASE ~table'[n][h].with_payload
      <4>1. PICK p \in net : p.type = "HASH" /\ p.to = n /\ p.hash = h
        BY <2>4, <3>3 DEF Started
      <4>2. n # Origin[h]
        BY <4>1 DEF Rooted, PacketRooted
      <4> QED BY <3>3, <4>2 DEF ItemRooted
    <3> QED BY <3>2, <3>3
  <2>5. CASE Given(n, h)
    <3>1. n # Origin[h]
      BY <2>1, <2>5 DEF Given, Waits, ItemRooted
    <3>2. PICK p \in net : p.type = "DATA" /\ p.hash = h /\ table'[n][h].trace = Append(p.trace, n)
      BY <2>5 DEF Given
    <3>3. p.trace \in Seq(Nodes) /\ Origin[h] \in Range(p.trace)
      BY <3>2 DEF Typed, TypeOK, Packet, Rooted, PacketRooted
    <3>4. Origin[h] \in Range(table'[n][h].trace)
      BY <3>2, <3>3, RangeAppend
    <3> QED BY <3>1, <3>4 DEF ItemRooted
  <2>6. CellStep(n, h)
    BY DEF Cells
  <2> QED BY <2>2, <2>3, <2>4, <2>5, <2>6 DEF CellStep
<1>2. ASSUME NEW q \in net' PROVE PacketRooted(q)
  <2>1. CASE q \in net
    BY <2>1 DEF Rooted
  <2>2. CASE q \in Packet /\ Announced(q)
    <3>1. q.type = "HASH" /\ q.hash \in Msgs /\ q.from \in Nodes
      BY <2>2 DEF Announced, Packet
    <3>2. CASE q.hash \in announce[q.from] /\ q.to # q.from
      BY <3>1, <3>2, SMTT(30) DEF Typed, Issuers, PacketRooted
    <3>3. CASE /\ table'[q.from][q.hash] # NoItem /\ table'[q.from][q.hash].with_payload
               /\ q.to \notin Range(table'[q.from][q.hash].trace)
      <4>1. ItemRooted(q.from, q.hash)'
        BY <1>1, <3>1
      <4>2. Origin[q.hash] \in Range(table'[q.from][q.hash].trace)
        BY <3>3, <4>1 DEF ItemRooted
      <4> QED BY <3>1, <3>3, <4>2 DEF PacketRooted
    <3> QED BY <2>2, <3>2, <3>3 DEF Announced
  <2>3. CASE Requested(q)
    BY <2>3 DEF Requested, PacketRooted
  <2>4. CASE q \in Packet /\ Answered(q)
    <3>1. q.from \in Nodes
      BY <2>4 DEF Packet
    <3> QED BY <2>4, <3>1 DEF Answered, PacketRooted, Rooted, ItemRooted
  <2> QED BY <2>1, <2>2, <2>3, <2>4 DEF NewPackets
<1>3. OriginNotTold'
  BY <1>1, GossipAssumption DEF OriginNotTold
<1>4. \A q \in net' : PacketRooted(q)'
  BY <1>2 DEF PacketRooted
<1> QED BY <1>1, <1>3, <1>4 DEF Rooted

-----------------------------------------------------------------------------
\* A hop: n announced to m over a stream, and m may accept from n.
Told(n, m) == <<n, m>> \in Links /\ n \in Knows /\ m \in Members[n]

Hop(n, m) == Told(n, m) /\ (m \in Knows => n \in Members[m])

Path(t) == \A i \in 1..(Len(t) - 1) : Hop(t[i], t[i + 1])

\* A trace that ends at n.
PathTo(t, n) == t # <<>> /\ t[Len(t)] = n /\ Path(t)

ItemRouted(n, h) ==
  table[n][h] # NoItem =>
    IF table[n][h].with_payload THEN PathTo(table[n][h].trace, n)
    ELSE table[n][h].trace = <<>>

PacketRouted(p) ==
  /\ p.type = "HASH" => Told(p.from, p.to)
  /\ p.type = "REQUEST" /\ p.hash \in Msgs => Told(p.to, p.from)
  /\ p.type = "DATA" => Told(p.from, p.to) /\ PathTo(p.trace, p.from)

Routed ==
  /\ \A n \in Nodes, h \in Msgs : ItemRouted(n, h)
  /\ \A p \in net : PacketRouted(p)

\* One more hop.
LEMMA PathAppend ==
  ASSUME NEW t \in Seq(Nodes), NEW n \in Nodes, NEW m \in Nodes, PathTo(t, n), Hop(n, m)
  PROVE  PathTo(Append(t, m), m)
<1> DEFINE u == Append(t, m)
<1>1. /\ Len(t) \in Nat /\ Len(u) = Len(t) + 1 /\ u[Len(t) + 1] = m /\ u # <<>>
      /\ \A i \in 1..Len(t) : u[i] = t[i]
  BY SMTT(30)
<1> HIDE DEF u
<1>2. ASSUME NEW i \in 1..(Len(u) - 1) PROVE Hop(u[i], u[i + 1])
  <2>1. i \in 1..Len(t)
    BY <1>1, SMTT(30)
  <2>2. CASE i = Len(t)
    BY <1>1, <2>1, <2>2 DEF PathTo
  <2>3. CASE i # Len(t)
    <3>1. i \in 1..(Len(t) - 1) /\ i + 1 \in 1..Len(t)
      BY <1>1, <2>1, <2>3, SMTT(30)
    <3> QED BY <1>1, <2>1, <3>1 DEF PathTo, Path
  <2> QED BY <2>2, <2>3
<1>3. PathTo(u, m)
  BY <1>1, <1>2 DEF PathTo, Path
<1> QED BY <1>3 DEF u

\* An announcement, the request it brings and the data that answers it go
\* between the same two nodes.
LEMMA RoutedStep == ASSUME Typed, Routed, Cells, NewPackets PROVE Routed'
<1>1. ASSUME NEW n \in Nodes, NEW h \in Msgs PROVE ItemRouted(n, h)'
  <2>1. ItemRouted(n, h)
    BY DEF Routed
  <2>2. CASE Kept(n, h)
    BY <2>1, <2>2 DEF Kept, ItemRouted
  <2>3. CASE Dropped(n, h)
    BY <2>3 DEF Dropped, ItemRouted
  <2>4. CASE Started(n, h)
    <3>1. CASE table'[n][h].with_payload
      <4>1. table'[n][h].trace = <<n>>
        BY <2>4, <3>1 DEF Started
      <4>2. PathTo(<<n>>, n)
        BY SMTT(30) DEF PathTo, Path
      <4> QED BY <3>1, <4>1, <4>2 DEF ItemRouted
    <3>2. CASE ~table'[n][h].with_payload
      BY <2>4, <3>2 DEF Started, ItemRouted
    <3> QED BY <3>1, <3>2
  <2>5. CASE Given(n, h)
    <3>1. PICK p \in net :
            /\ p.type = "DATA" /\ p.to = n /\ table'[n][h].trace = Append(p.trace, n)
            /\ n \in Knows => p.from \in Members[n]
      BY <2>5 DEF Given
    <3>2. p.trace \in Seq(Nodes) /\ p.from \in Nodes
      BY DEF Typed, TypeOK, Packet
    <3>3. Told(p.from, n) /\ PathTo(p.trace, p.from)
      BY <3>1 DEF Routed, PacketRouted
    <3>4. Hop(p.from, n)
      BY <3>1, <3>3 DEF Hop
    <3>5. PathTo(table'[n][h].trace, n)
      BY <3>1, <3>2, <3>3, <3>4, PathAppend
    <3>6. table'[n][h].with_payload
      BY <2>5 DEF Given
    <3> QED BY <3>5, <3>6 DEF ItemRouted
  <2>6. CellStep(n, h)
    BY DEF Cells
  <2> QED BY <2>2, <2>3, <2>4, <2>5, <2>6 DEF CellStep
<1>2. ASSUME NEW q \in net' PROVE PacketRouted(q)
  <2>1. CASE q \in net
    BY <2>1 DEF Routed
  <2>2. CASE Announced(q)
    BY <2>2 DEF Announced, PacketRouted, Told
  <2>3. CASE Requested(q)
    BY <2>3 DEF Requested, PacketRouted, Routed
  <2>4. CASE q \in Packet /\ Answered(q)
    <3>1. q.from \in Nodes /\ q.type = "DATA" /\ q.hash \in Msgs
      BY <2>4 DEF Packet, Answered
    <3>2. PathTo(q.trace, q.from)
      BY <2>4, <3>1 DEF Answered, Routed, ItemRouted
    <3>3. Told(q.from, q.to)
      BY <2>4, <3>1 DEF Answered, Routed, PacketRouted
    <3> QED BY <3>1, <3>2, <3>3 DEF PacketRouted
  <2> QED BY <2>1, <2>2, <2>3, <2>4 DEF NewPackets
<1>3. \A q \in net' : PacketRouted(q)'
  BY <1>2 DEF PacketRouted
<1> QED BY <1>1, <1>3 DEF Routed

-----------------------------------------------------------------------------
IInv == Typed /\ Apart /\ Rooted /\ Routed

\* No item, no packet and no delivery at first.
LEMMA InitOK == Init => IInv
<1> SUFFICES ASSUME Init PROVE IInv
  OBVIOUS
<1>1. Typed
  BY SMTT(30) DEF Init, Typed, TypeOK, Hashed, Issuers
<1>2. Apart
  BY SMTT(30) DEF Init, Apart, ApartAt, LongBefore, Spaced
<1>3. Rooted
  BY GossipAssumption DEF Init, Rooted, ItemRooted, OriginNotTold
<1>4. Routed
  BY DEF Init, Routed, ItemRouted
<1> QED BY <1>1, <1>2, <1>3, <1>4 DEF IInv

\* Every step keeps the four.
LEMMA NextOK == IInv /\ [Next]_vars => IInv'
<1> SUFFICES ASSUME IInv, [Next]_vars PROVE IInv'
  OBVIOUS
<1>1. Cells /\ NewPackets
  BY NextCells, NextPackets DEF IInv
<1> QED BY <1>1, TypedStep, ApartStep, RootedStep, RoutedStep DEF IInv

\* For any cluster, clock, loss and delay: s_stream_ch_packet_in hands a
\* payload to the callback of a node at most once per DAP_GOSSIP_LIFETIME, and
\* never at the node that issued it.
THEOREM GossipDelivery == Spec => [](DeliveriesSpaced /\ OriginNotTold)
<1>1. IInv => DeliveriesSpaced
  BY DEF IInv, Apart, Spaced, DeliveriesSpaced
<1>2. IInv => OriginNotTold
  BY DEF IInv, Rooted
<1> QED BY <1>1, <1>2, InitOK, NextOK, PTL DEF Spec

\* For any links and any opinions about the membership: the addresses a trace
\* lists are a path along which each node told the next one as a member.
THEOREM GossipPaths == Spec => []TraceIsPath
<1>1. IInv => TraceIsPath
  <2> SUFFICES ASSUME IInv, NEW t \in Traces, NEW i \in 1..(Len(t) - 1)
               PROVE  Hop(t[i], t[i + 1])
    BY DEF TraceIsPath, Hop, Told
  <2>1. CASE \E p \in net : p.type = "DATA" /\ t = p.trace
    BY <2>1 DEF IInv, Routed, PacketRouted, PathTo, Path
  <2>2. ASSUME NEW n \in Nodes, NEW h \in Msgs, table[n][h] # NoItem, t = table[n][h].trace
        PROVE  Hop(t[i], t[i + 1])
    <3>1. CASE table[n][h].with_payload
      BY <2>2, <3>1 DEF IInv, Routed, ItemRouted, PathTo, Path
    <3>2. CASE ~table[n][h].with_payload
      BY <2>2, <3>2, SMTT(30) DEF IInv, Routed, ItemRouted
    <3> QED BY <3>1, <3>2
  <2> QED BY <2>1, <2>2 DEF Traces
<1> QED BY <1>1, InitOK, NextOK, PTL DEF Spec
-----------------------------------------------------------------------------
\* A node that has the payload of h in the table T.
Has(T, n, h) == T[n][h] # NoItem /\ T[n][h].with_payload

Simple(t) == \A i, j \in DOMAIN t : t[i] = t[j] => i = j

\* A trace of h without repetition, whose nodes all have the payload.
Been(T, h, t) == Simple(t) /\ \A i \in DOMAIN t : Has(T, t[i], h)

Visited ==
  /\ \A n \in Nodes, h \in Msgs : table[n][h] # NoItem => Been(table, h, table[n][h].trace)
  /\ \A p \in net : p.type = "DATA" => Been(table, p.hash, p.trace)

\* While nothing expires: visited so far.
VisitedYet == now <= Lifetime => Visited

\* A node that does not have the payload is not in the trace, and can be added.
LEMMA BeenAppend ==
  ASSUME NEW h \in Msgs, NEW t \in Seq(Nodes), NEW n \in Nodes, Been(table, h, t), ~Has(table, n, h)
  PROVE  Simple(Append(t, n))
<1> DEFINE u == Append(t, n)
<1>1. /\ Len(t) \in Nat /\ DOMAIN t = 1..Len(t) /\ DOMAIN u = 1..(Len(t) + 1)
      /\ \A i \in 1..Len(t) : u[i] = t[i]
      /\ u[Len(t) + 1] = n
  BY SMTT(30)
<1>2. \A i \in 1..Len(t) : t[i] # n
  BY <1>1 DEF Been
<1> HIDE DEF u
<1>3. Simple(u)
  BY <1>1, <1>2, SMTT(30) DEF Been, Simple
<1> QED BY <1>3 DEF u

\* Within the first lifetime no item is dropped: who has a payload keeps it.
LEMMA VisitedStep == ASSUME Typed, VisitedYet, Cells, NewPackets PROVE VisitedYet'
<1> SUFFICES ASSUME now' <= Lifetime PROVE Visited'
  BY DEF VisitedYet
<1>1. now \in Nat /\ now <= Lifetime
  <2>1. now \in Nat /\ now' \in Nat /\ now <= now'
    BY SMTT(30) DEF Typed, TypeOK, Cells
  <2> QED BY <2>1, GossipAssumption, SMTT(30)
<1>2. Visited
  BY <1>1 DEF VisitedYet
<1>3. ASSUME NEW n \in Nodes, NEW h \in Msgs PROVE ~Dropped(n, h)
  <2>1. table[n][h] # NoItem => table[n][h].timestamp \in Nat
    BY ItemIs DEF Typed, Item
  <2> QED BY <1>1, <2>1, GossipAssumption, SMTT(30) DEF Dropped
<1>4. ASSUME NEW n \in Nodes, NEW h \in Msgs, Has(table, n, h) PROVE Has(table', n, h) /\ Kept(n, h)
  BY <1>3, <1>4, SMTT(30) DEF Has, Cells, CellStep, Kept, Started, Given, Waits
<1>5. ASSUME NEW h \in Msgs, NEW t \in Seq(Nodes), Been(table, h, t) PROVE Been(table', h, t)
  <2>1. \A i \in DOMAIN t : t[i] \in Nodes
    BY SMTT(30)
  <2> QED BY <1>4, <1>5, <2>1 DEF Been
<1>6. ASSUME NEW n \in Nodes, NEW h \in Msgs, table'[n][h] # NoItem
      PROVE  Been(table', h, table'[n][h].trace)
  <2>1. CASE Kept(n, h)
    <3>1. table[n][h] \in Item /\ table'[n][h] = table[n][h] /\ Been(table, h, table[n][h].trace)
      BY <1>2, <1>6, <2>1, ItemIs DEF Kept, Typed, Visited
    <3>2. table[n][h].trace \in Seq(Nodes)
      BY <3>1 DEF Item
    <3>3. Been(table', h, table[n][h].trace)
      BY <1>5, <3>1, <3>2 DEF Been, Has
    <3> QED BY <3>1, <3>3 DEF Been, Has
  <2>2. CASE Started(n, h)
    <3>1. CASE table'[n][h].with_payload
      <4>1. table'[n][h].trace = <<n>> /\ Has(table', n, h)
        BY <1>6, <2>2, <3>1 DEF Started, Has
      <4> QED BY <4>1, SMTT(30) DEF Been, Simple
    <3>2. CASE ~table'[n][h].with_payload
      BY <2>2, <3>2, SMTT(30) DEF Started, Been, Simple
    <3> QED BY <3>1, <3>2
  <2>3. CASE Given(n, h)
    <3>1. PICK p \in net : p.type = "DATA" /\ p.hash = h /\ table'[n][h].trace = Append(p.trace, n)
      BY <2>3 DEF Given
    <3> DEFINE t == p.trace
               u == table'[n][h].trace
    <3>2. t \in Seq(Nodes) /\ Been(table, h, t)
      BY <1>2, <3>1 DEF Typed, TypeOK, Packet, Visited
    <3>3. ~Has(table, n, h) /\ Has(table', n, h)
      BY <1>6, <2>3 DEF Given, Waits, Has
    <3>4. u = Append(t, n)
      BY <3>1
    <3> HIDE DEF t, u
    <3>5. Simple(u)
      BY <3>2, <3>3, <3>4, BeenAppend
    <3>6. /\ DOMAIN t = 1..Len(t) /\ Len(t) \in Nat /\ DOMAIN u = 1..(Len(t) + 1)
          /\ \A i \in 1..Len(t) : u[i] = t[i] /\ t[i] \in Nodes
          /\ u[Len(t) + 1] = n
      BY <3>2, <3>4, SMTT(30)
    <3>7. \A i \in DOMAIN u : Has(table', u[i], h)
      <4>1. \A i \in 1..Len(t) : Has(table', t[i], h)
        BY <1>4, <3>2, <3>6 DEF Been
      <4> QED BY <3>3, <3>6, <4>1, SMTT(30)
    <3> QED BY <3>5, <3>7 DEF Been, u
  <2> QED BY <1>3, <2>1, <2>2, <2>3 DEF Cells, CellStep
<1>7. ASSUME NEW q \in net', q.type = "DATA" PROVE Been(table', q.hash, q.trace)
  <2>1. CASE q \in net
    <3>1. q.hash \in Msgs /\ q.trace \in Seq(Nodes) /\ Been(table, q.hash, q.trace)
      BY <1>2, <1>7, <2>1 DEF Typed, TypeOK, Hashed, Packet, Visited
    <3> QED BY <1>5, <3>1
  <2>2. CASE q \in Packet /\ Answered(q)
    <3>1. q.from \in Nodes /\ q.trace \in Seq(Nodes) /\ q.hash \in Msgs
      BY <2>2 DEF Packet, Answered
    <3>2. Been(table, q.hash, q.trace)
      BY <1>2, <2>2, <3>1 DEF Answered, Visited
    <3> QED BY <1>5, <3>1, <3>2
  <2> QED BY <1>7, <2>1, <2>2 DEF NewPackets, Announced, Requested
<1> QED BY <1>6, <1>7 DEF Visited, Been, Has

\* For any cluster and any loss and delay: as long as the clock has not run for
\* more than DAP_GOSSIP_LIFETIME, so that no item can have expired, no message
\* visits a node twice.
THEOREM GossipTraces == Spec => [](now <= Lifetime => TraceSimple)
<1>1. Init => VisitedYet
  BY SMTT(30) DEF Init, VisitedYet, Visited
<1>2. IInv /\ VisitedYet /\ [Next]_vars => VisitedYet'
  BY NextCells, NextPackets, VisitedStep DEF IInv
<1>3. VisitedYet => (now <= Lifetime => TraceSimple)
  BY SMTT(30) DEF VisitedYet, Visited, Been, Simple, TraceSimple, Traces
<1> QED BY <1>1, <1>2, <1>3, InitOK, NextOK, PTL DEF Spec

===============================================================================
