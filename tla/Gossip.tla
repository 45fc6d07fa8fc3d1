-------------------------------- MODULE Gossip --------------------------------
(***************************************************************************)
(* The epidemic broadcast of net/stream/ch/dap_stream_ch_gossip.c.  A node *)
(* announces the hash of a payload to its links of a cluster; a node that  *)
(* does not know the hash asks the announcer for the data, hands it to the *)
(* callback of its channel, adds itself to the trace of the message and    *)
(* announces the hash to its own links outside the trace.  The table       *)
(* s_gossip_last_msgs remembers a hash for DAP_GOSSIP_LIFETIME.            *)
(*                                                                         *)
(* A critical section of s_gossip_lock is one action.  The announcement    *)
(* that dap_gossip_msg_issue makes after it released the lock is an action *)
(* of its own.  Packets come from nodes that run this code: the checks of  *)
(* sizes, version and alignment always pass.  They can be overtaken, since *)
(* some are written by the worker of the stream and others queued to it,   *)
(* and they are lost with their stream.                                    *)
(***************************************************************************)
EXTENDS Naturals, Sequences, FiniteSets, Functions

CONSTANTS Nodes,      \* node addresses
          Msgs,       \* payload hashes
          Origin,     \* the node that issues a payload
          Links,      \* <<n, m>>: n has an authorized stream to m
          Members,    \* the members of the cluster in the eyes of a node
          Knows,      \* the nodes where dap_cluster_find finds the cluster
          ZeroId,     \* the payloads issued with a zero cluster id
          Listening,  \* the nodes with a callback for the payload's channel
          Lifetime,   \* DAP_GOSSIP_LIFETIME
          MayLose,    \* streams may break
          Header,     \* the first bytes of a dap_gossip_msg_t read as a hash
          MaxTime,    \* bound: the clock stops here
          NoItem      \* NULL

ASSUME GossipAssumption ==
  /\ Origin \in [Msgs -> Nodes]
  /\ Links \subseteq Nodes \X Nodes
  /\ Members \in [Nodes -> SUBSET Nodes]
  /\ Lifetime \in Nat /\ MaxTime \in Nat

Item == [timestamp : Nat, with_payload : BOOLEAN, trace : Seq(Nodes)]

ASSUME NoItemAssumption == NoItem \notin Item

ASSUME HeaderAssumption == Header \notin Msgs

VARIABLES now,       \* dap_nanotime_now
          table,     \* s_gossip_last_msgs of every node
          announce,  \* hashes added by dap_gossip_msg_issue, not yet announced
          net,       \* packets under way
          calls      \* history: timestamps of the items whose payload was
                     \* handed to callback_payload

vars == <<now, table, announce, net, calls>>

Packet == [type : {"HASH", "REQUEST", "DATA"}, from : Nodes, to : Nodes,
           hash : Msgs \cup {Header}, trace : Seq(Nodes)]

(* One type invariant for the hash table, the packets and the history. *)
TypeOK ==
  /\ now \in Nat
  /\ table \in [Nodes -> [Msgs -> Item \cup {NoItem}]]
  /\ announce \in [Nodes -> SUBSET Msgs]
  /\ net \subseteq Packet
  /\ calls \in [Nodes -> [Msgs -> Seq(Nat)]]

Init ==
  /\ now = 0
  /\ table = [n \in Nodes |-> [h \in Msgs |-> NoItem]]
  /\ announce = [n \in Nodes |-> {}]
  /\ net = {}
  /\ calls = [n \in Nodes |-> [h \in Msgs |-> <<>>]]

Tick == now < MaxTime /\ now' = now + 1 /\ UNCHANGED <<table, announce, net, calls>>

(* HASH_FIND: bytes that are not the hash of a payload are never found. *)
Found(n, h) == IF h \in Msgs THEN table[n][h] ELSE NoItem

(* Mutant: an item is dropped one unit of time too early. *)
DerelictEarly(n, h) == Found(n, h).timestamp + Lifetime <= now

(* An item older than DAP_GOSSIP_LIFETIME. *)
Derelict(n, h) == Found(n, h).timestamp + Lifetime < now

(* The item of h waits for its payload. *)
Waits(n, h) == table[n][h] # NoItem /\ ~table[n][h].with_payload

(* Mutant: the loop is left at the first excluded member. *)
BroadcastBreak(n, h, exclude) ==
  {[type |-> "HASH", from |-> n, to |-> m, hash |-> h, trace |-> <<>>] :
     m \in {k \in Members[n] : Members[n] \cap exclude = {} /\ <<n, k>> \in Links}}

(* The packets of dap_cluster_broadcast: one to every member outside the   *)
(* excluded addresses.  dap_stream_ch_pkt_send_by_addr needs a stream.     *)
Broadcast(n, h, exclude) ==
  {[type |-> "HASH", from |-> n, to |-> m, hash |-> h, trace |-> <<>>] :
     m \in {k \in Members[n] : k \notin exclude /\ <<n, k>> \in Links}}

(* dap_gossip_msg_issue: the new item with this node as its trace. *)
Issue(n, h) ==
  /\ n = Origin[h] /\ n \in Knows
  /\ Members[n] # {}
  /\ table[n][h] = NoItem
  /\ table' = [table EXCEPT ![n][h] =
       [timestamp |-> now, with_payload |-> TRUE, trace |-> <<n>>]]
  /\ announce' = [announce EXCEPT ![n] = @ \cup {h}]
  /\ UNCHANGED <<now, net, calls>>

(* The broadcast at the end of dap_gossip_msg_issue. *)
Announce(n, h) ==
  /\ h \in announce[n]
  /\ announce' = [announce EXCEPT ![n] = @ \ {h}]
  /\ net' = net \cup Broadcast(n, h, {n})
  /\ UNCHANGED <<now, table, calls>>

(* s_callback_hashtable_maintenance, once a second. *)
Maintenance(n) ==
  /\ table' = [table EXCEPT ![n] = [h \in Msgs |->
       IF @[h] # NoItem /\ Derelict(n, h) THEN NoItem ELSE @[h]]]
  /\ UNCHANGED <<now, announce, net, calls>>

(* A GOSSIP_HASH or a GOSSIP_REQUEST meets a derelict item. *)
DropDerelict(p) ==
  /\ p.type \in {"HASH", "REQUEST"}
  /\ Found(p.to, p.hash) # NoItem /\ Derelict(p.to, p.hash)
  /\ table' = [table EXCEPT ![p.to][p.hash] = NoItem]
  /\ net' = net \ {p}
  /\ UNCHANGED <<now, announce, calls>>

(* GOSSIP_REQUEST for a payload that is here: answer with the data. *)
SendData(p) ==
  LET n == p.to  h == p.hash IN
  /\ p.type = "REQUEST"
  /\ Found(n, h) # NoItem /\ ~Derelict(n, h) /\ Found(n, h).with_payload
  /\ net' = (net \ {p}) \cup
       {[type |-> "DATA", from |-> n, to |-> p.from, hash |-> h,
         trace |-> Found(n, h).trace]}
  /\ UNCHANGED <<now, table, announce, calls>>

(* Mutant: the hash is not looked up. *)
SendRequestAlways(p) ==
  LET n == p.to  h == p.hash IN
  /\ p.type = "HASH"
  /\ table' = [table EXCEPT ![n][h] =
       [timestamp |-> now, with_payload |-> FALSE, trace |-> <<>>]]
  /\ net' = (net \ {p}) \cup
       {[type |-> "REQUEST", from |-> n, to |-> p.from, hash |-> h, trace |-> <<>>]}
  /\ UNCHANGED <<now, announce, calls>>

(* GOSSIP_HASH of an unknown payload: remember it and ask for the data. *)
SendRequest(p) ==
  LET n == p.to  h == p.hash IN
  /\ p.type = "HASH" /\ Found(n, h) = NoItem
  /\ table' = [table EXCEPT ![n][h] =
       [timestamp |-> now, with_payload |-> FALSE, trace |-> <<>>]]
  /\ net' = (net \ {p}) \cup
       {[type |-> "REQUEST", from |-> n, to |-> p.from, hash |-> h, trace |-> <<>>]}
  /\ UNCHANGED <<now, announce, calls>>

(* GOSSIP_HASH of a known payload, GOSSIP_REQUEST of one that is not here. *)
Ignore(p) ==
  LET item == Found(p.to, p.hash) IN
  /\ p.type \in {"HASH", "REQUEST"}
  /\ IF item = NoItem THEN p.type = "REQUEST"
     ELSE ~Derelict(p.to, p.hash) /\ ~(p.type = "REQUEST" /\ item.with_payload)
  /\ net' = net \ {p}
  /\ UNCHANGED <<now, table, announce, calls>>

(* GOSSIP_DATA nobody asked for, doubled, for an item that is derelict or  *)
(* of a cluster this node does not have.                                   *)
DropData(p) ==
  LET n == p.to  h == p.hash IN
  /\ p.type = "DATA"
  /\ \/ ~Waits(n, h) /\ UNCHANGED table
     \/ /\ Waits(n, h) /\ Derelict(n, h)
        /\ table' = [table EXCEPT ![n][h] = NoItem]
     \/ /\ Waits(n, h) /\ ~Derelict(n, h)
        /\ n \notin Knows /\ h \notin ZeroId
        /\ UNCHANGED table
  /\ net' = net \ {p}
  /\ UNCHANGED <<now, announce, calls>>

(* GOSSIP_DATA for an item that waits for it. *)
Wanted(p) ==
  p.type = "DATA" /\ Waits(p.to, p.hash) /\ ~Derelict(p.to, p.hash)

(* The sender is not a member of the cluster: ask a random member instead. *)
(* The request carries the first bytes of the packet, which are the header *)
(* of the message and not the payload's hash.                              *)
AskAnother(p) ==
  LET n == p.to IN
  /\ Wanted(p) /\ n \in Knows /\ p.from \notin Members[n]
  /\ \/ /\ Members[n] = {}
        /\ net' = net \ {p}
     \/ \E m \in Members[n] :
          net' = (net \ {p}) \cup
            {[type |-> "REQUEST", from |-> n, to |-> k, hash |-> Header, trace |-> <<>>] :
               k \in {m} \cap {l \in Nodes : <<n, l>> \in Links}}
  /\ UNCHANGED <<now, table, announce, calls>>

(* Mutant: the address overwrites the trace instead of extending it. *)
TracedAlone(n, trace) == <<n>>

(* The trace with this node appended. *)
Traced(n, trace) == Append(trace, n)

(* Mutant: whether the sender is a member is not looked at. *)
MayAcceptAnyone(p) == p.to \in Knows \/ p.hash \in ZeroId

(* The sender is a member of the cluster, or the message has no cluster. *)
MayAccept(p) ==
  IF p.to \in Knows THEN p.from \in Members[p.to] ELSE p.hash \in ZeroId

(* The data is stored, announced to the members outside the trace and      *)
(* handed to the callback of its channel.                                  *)
Accept(p) ==
  LET n == p.to  h == p.hash  trace == Traced(n, p.trace) IN
  /\ Wanted(p) /\ MayAccept(p)
  /\ table' = [table EXCEPT ![n][h].with_payload = TRUE, ![n][h].trace = trace]
  /\ net' = (net \ {p}) \cup
       (IF n \in Knows THEN Broadcast(n, h, Range(trace)) ELSE {})
  /\ calls' = [calls EXCEPT ![n][h] =
       IF n \in Listening THEN Append(@, table[n][h].timestamp) ELSE @]
  /\ UNCHANGED <<now, announce>>

(* A stream breaks with the packet in it. *)
Lose(p) ==
  /\ MayLose
  /\ net' = net \ {p}
  /\ UNCHANGED <<now, table, announce, calls>>

(* s_stream_ch_packet_in *)
PacketIn(p) ==
  \/ DropDerelict(p) \/ SendData(p) \/ SendRequest(p) \/ Ignore(p)
  \/ DropData(p) \/ AskAnother(p) \/ Accept(p)

Deliver == \E p \in net : PacketIn(p)

Announcing == \E n \in Nodes, h \in Msgs : Announce(n, h)

Next ==
  \/ Tick
  \/ \E n \in Nodes, h \in Msgs : Issue(n, h)
  \/ Announcing
  \/ \E n \in Nodes : Maintenance(n)
  \/ Deliver
  \/ \E p \in net : Lose(p)

Spec == Init /\ [][Next]_vars

(* The worker threads keep reading the packets of their streams. *)
FairSpec == Spec /\ WF_vars(Deliver) /\ WF_vars(Announcing)

-------------------------------------------------------------------------------
(* However packets are delayed, lost or overtaken, and however the items   *)
(* expire, one payload is handed to the callback of a node at most once    *)
(* per lifetime: the items of two deliveries are more than                 *)
(* DAP_GOSSIP_LIFETIME apart (the with_payload test of GOSSIP_DATA and the *)
(* two expiry tests together).                                             *)
DeliveriesSpaced ==
  \A n \in Nodes, h \in Msgs :
    \A i \in 1..(Len(calls[n][h]) - 1) : calls[n][h][i] + Lifetime < calls[n][h][i + 1]

(* A payload never comes back to the node that issued it, even after its   *)
(* item expired there: every announcement excludes the whole trace.        *)
OriginNotTold == \A h \in Msgs : calls[Origin[h]][h] = <<>>

Traces == {p.trace : p \in {q \in net : q.type = "DATA"}}
          \cup UNION {{table[n][h].trace : h \in {g \in Msgs : table[n][g] # NoItem}} :
                        n \in Nodes}

(* While no item expires a message visits no node twice: its trace has no  *)
(* repetition, in the tables and in the data under way.                    *)
TraceSimple ==
  \A t \in Traces : \A i, j \in DOMAIN t : t[i] = t[j] => i = j

(* A trace is a path of the cluster, whatever the nodes think of it: every *)
(* hop was announced over a stream by a node that counts the next one as a *)
(* member, and accepted by one that counts the sender as a member or does  *)
(* not know the cluster (the checks of GOSSIP_DATA before it is stored).   *)
TraceIsPath ==
  \A t \in Traces : \A i \in 1..(Len(t) - 1) :
    /\ <<t[i], t[i + 1]>> \in Links
    /\ t[i] \in Knows /\ t[i + 1] \in Members[t[i]]
    /\ t[i + 1] \in Knows => t[i] \in Members[t[i + 1]]

(* Every node the links of the cluster reach gets an issued payload        *)
(* although it asks only the first node that announces it.                 *)
EveryoneTold ==
  \A h \in Msgs : (table[Origin[h]][h] # NoItem) ~>
    \A n \in Nodes \ {Origin[h]} : calls[n][h] # <<>>

===============================================================================
