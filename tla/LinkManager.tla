---------------------------- MODULE LinkManager ----------------------------
(***************************************************************************)
(* The link manager (net/link_manager/dap_link_manager.c): for each remote *)
(* node it keeps a link, which may own a client to dial the node with (an  *)
(* uplink), and the clusters the node belongs to while a stream is up.     *)
(*                                                                         *)
(* Its callbacks run on different threads.  What the streams and clients   *)
(* report is queued for one processing thread, high priority before        *)
(* normal (see ProcThread); a timer dials the links that are wanted; the   *)
(* networks enable and disable their clusters on threads of their own.     *)
(* Each handler holds links_lock from its first to its last access of a    *)
(* link and is one step, unless it makes the node a member of clusters:    *)
(* dap_cluster_member_add releases members_lock before it calls back, so   *)
(* that HASH_ADD and the callback are two steps, and the lock is held      *)
(* until the last (Unlocked).  Two things take no lock: before it comes to *)
(* the links dap_link_manager_set_net_condition deletes the members of one *)
(* cluster after the other, and s_client_connected_callback writes its     *)
(* link from the client's worker.  dap_list_append and dap_list_remove are *)
(* taken to be atomic.                                                     *)
(*                                                                         *)
(* A client is what ClientService promises of it (ClientFsm implements     *)
(* that): at rest, trying, up, or failed, always_reconnect being off.      *)
(* Streams are those of one node, the first being the primary one (see     *)
(* StreamTable).                                                           *)
(*                                                                         *)
(* Fields of node[a]:                                                      *)
(*   known            the link is in s_link_manager->links                 *)
(*   client           uplink.client # NULL                                 *)
(*   state, nets      uplink.state, uplink.associated_nets                 *)
(*   delay            uplink.start_after lies ahead                        *)
(*   ready, port      uplink.ready; the client has an address to dial      *)
(*   attempts         uplink.attempts_count                                *)
(*   is_uplink, static_clusters, stream_is_destroyed                       *)
(*   active_clusters  how often each cluster is in the list                *)
(*   members          the clusters whose hashtable of members holds a      *)
(*   joins, called    clusters the handler that holds the lock has still   *)
(*                    to add the node to; the one of them whose HASH_ADD   *)
(*                    is done and whose callback is not                    *)
(*   stale            clusters the callback was made for with a member     *)
(*                    that was deleted by then (history)                   *)
(*   asks, asked      go_stage requests the client's worker has still to   *)
(*                    run; the last one made                               *)
(*   update           a link_update_callback is queued                     *)
(*   orphan           a deleted client's worker has still to delete it     *)
(***************************************************************************)
EXTENDS Naturals, Sequences, FiniteSets

CONSTANTS
    Addrs,              \* addresses of remote nodes
    Nets,               \* managed networks
    Clusters,           \* link clusters
    MainCluster,        \* net -> the first of its link_clusters
    Associates,         \* net -> the others (dap_link_manager_add_net_associate)
    max_attempts_num,   \* link_manager.max_attempts_num
    MaxQueue,           \* bound: requests queued when a stream or client reports
    MaxAsks,            \* bound: requests queued for a client when the timer runs
    MaxStreams,         \* bound: streams of a node at a time
    MaxOps              \* bound: events from networks, roles and peers

ASSUME LinkAssumption ==
    /\ MainCluster \in [Nets -> Clusters]
    /\ Associates \in [Nets -> SUBSET Clusters]
    /\ \A n, m \in Nets :
          n # m => (Associates[n] \cup {MainCluster[n]}) \cap
                       (Associates[m] \cup {MainCluster[m]}) = {}
    /\ max_attempts_num \in Nat \ {0}
    /\ {MaxQueue, MaxAsks, MaxStreams, MaxOps} \subseteq Nat

VARIABLES
    node,       \* address -> its link, its memberships and its client's queue
    client,     \* address -> the client: phase, said (see ClientService)
    streams,    \* address -> directions of its streams, TRUE is an uplink
    active,     \* the nets with the flag active
    leaving,    \* the nets that are being deactivated
    enabled,    \* the clusters with status DAP_CLUSTER_STATUS_ENABLED
    high,       \* requests for s_query_thread, priority HIGH
    normal,     \* the same, priority NORMAL
    wakeup,     \* l_wakeup_mode of s_update_states
    ops         \* events so far

vars == <<node, client, streams, active, leaving, enabled, high, normal, wakeup, ops>>

LinkClusters(n) == Associates[n] \cup {MainCluster[n]}

\* The links clusters of type AUTONOMIC, whose roles are static links
\* (dap_global_db_cluster.c); a net's own cluster is not one.
Autonomic == UNION {Associates[n] : n \in Nets}

NoLink ==
    [known |-> FALSE, client |-> FALSE, state |-> "DISCONNECTED", nets |-> {},
     delay |-> FALSE, ready |-> FALSE, port |-> FALSE, attempts |-> 0,
     is_uplink |-> FALSE, static_clusters |-> {}, stream_is_destroyed |-> FALSE,
     active_clusters |-> [c \in Clusters |-> 0], members |-> {},
     joins |-> {}, called |-> {}, stale |-> {},
     asks |-> <<>>, asked |-> "begin", update |-> FALSE, orphan |-> FALSE]

NewClient == [phase |-> "rest", said |-> "nothing"]

Init ==
    /\ node = [a \in Addrs |-> NoLink]
    /\ client = [a \in Addrs |-> NewClient]
    /\ streams = [a \in Addrs |-> <<>>]
    /\ active = Nets
    /\ leaving = {}
    /\ enabled = UNION {LinkClusters(n) : n \in Nets}
    /\ high = <<>>
    /\ normal = <<>>
    /\ wakeup = FALSE
    /\ ops = 0

-----------------------------------------------------------------------------
(***************************************************************************)
(* What the handlers are made of: operators from a link to a link          *)
(***************************************************************************)
InUse(l) == \E c \in Clusters : l.active_clusters[c] > 0

\* Mutant: the callback is made for a member that is already there.
HashAddAgain(l, c) ==
    [l EXCEPT !.joins = @ \ {c}, !.members = @ \cup {c}, !.called = {c}]

\* dap_cluster_member_add up to the callback: HASH_ADD of a new member.
HashAdd(l, c) ==
    IF c \in l.members THEN [l EXCEPT !.joins = @ \ {c}]
    ELSE [l EXCEPT !.joins = @ \ {c}, !.members = @ \cup {c}, !.called = {c}]

\* The callback, dap_link_manager_add_links_cluster.  The member it is given
\* may have been freed, with its cluster deleted from under it; then what
\* it reads is there still, or is not.
AddCallback(l, c) ==
    {[l EXCEPT !.called = {}, !.active_clusters[c] = @ + 1,
               !.stale = IF c \in l.members THEN @ ELSE @ \cup {c}]}
    \cup IF c \in l.members THEN {} ELSE {[l EXCEPT !.called = {}]}

\* dap_cluster_member_delete in each of cs, which calls
\* dap_link_manager_remove_links_cluster for one that was there.
MemberDelete(l, cs) ==
    [l EXCEPT
        !.members = @ \ cs,
        !.active_clusters =
            [c \in Clusters |->
                IF c \in cs \cap l.members /\ @[c] > 0 THEN @[c] - 1 ELSE @[c]]]

Listed(l) == {c \in Clusters : l.active_clusters[c] > 0}

\* dap_client_go_stage(STAGE_BEGIN); a link without a client asks nobody.
AskBegin(l) ==
    IF l.client THEN [l EXCEPT !.asks = Append(@, "begin"), !.asked = "begin"] ELSE l

\* s_link_connect.
LinkConnect(l) ==
    [l EXCEPT !.state = "CONNECTING",
              !.asks = Append(@, "stream"), !.asked = "stream"]

\* The link is freed and its client deleted; the clusters stay.
Freed(l) ==
    [NoLink EXCEPT !.members = l.members, !.update = l.update,
                   !.orphan = l.orphan \/ l.client]

\* s_link_delete with a_force unset.  The downlinks it tells to close may end
\* at any time (StreamEnds), whether they are told or not.  Clusters listed
\* without a member stay listed, against the assertion.
LinkDelete(link, a_client_preserve) ==
    LET l == MemberDelete(link, Listed(link))
        preserve == a_client_preserve \/ l.static_clusters # {}
    IN  IF ~preserve THEN Freed(l)
        ELSE IF l.stream_is_destroyed \/ ~l.client THEN l
        ELSE IF l.state = "DISCONNECTED" THEN [l EXCEPT !.nets = {}]
        ELSE [AskBegin(l) EXCEPT !.nets = {}, !.state = "DISCONNECTED"]

\* s_link_drop(a_disconnected = TRUE); `permanent' are the nets whose
\* disconnected() callback keeps the link.
LinkDropLast(link, permanent) ==
    LET l == [link EXCEPT !.state = "DISCONNECTED", !.delay = TRUE, !.attempts = @ + 1]
        m == [l EXCEPT !.nets = @ \cap active \cap permanent, !.attempts = 0]
    IN  IF l.attempts < max_attempts_num THEN AskBegin(l)
        ELSE IF ~InUse(m) /\ m.nets = {} /\ m.static_clusters = {}
             THEN LinkDelete(m, FALSE)
             ELSE AskBegin(m)

\* Mutant: the client of a link that is given up is not stopped.
LinkDropErrorUnasked(l) ==
    IF l.state = "ESTABLISHED"
    THEN LinkDelete([l EXCEPT !.stream_is_destroyed = TRUE], TRUE)
    ELSE IF InUse(l) THEN [l EXCEPT !.state = "DISCONNECTED"]
    ELSE l

\* s_link_drop(a_disconnected = FALSE).
LinkDropError(l) ==
    IF l.state = "ESTABLISHED"
    THEN LinkDelete([l EXCEPT !.stream_is_destroyed = TRUE], TRUE)
    ELSE IF InUse(l) THEN [AskBegin(l) EXCEPT !.state = "DISCONNECTED"]
    ELSE l

\* s_link_drop_callback: the link found is the one the address has now.
LinkDrop(l, last) ==
    IF ~l.known THEN {l}
    ELSE IF last THEN {LinkDropLast(l, permanent) : permanent \in SUBSET Nets}
    ELSE {LinkDropError(l)}

\* s_stream_add_callback: a downlink makes a link, an uplink has one.  The
\* node is added next to the static clusters that are enabled.
StreamAdd(l, up) ==
    LET m == [l EXCEPT !.known = TRUE]
    IN  IF (~l.known /\ up) \/ InUse(l) THEN l
        ELSE [m EXCEPT !.joins = l.static_clusters \cap enabled, !.is_uplink = up]

\* s_stream_replace_callback: a downlink in the place of the uplink stops
\* the client.
StreamReplace(l, up) ==
    IF ~l.known \/ ~InUse(l) THEN l
    ELSE IF l.is_uplink /\ ~up
         THEN [AskBegin(l) EXCEPT !.state = "DISCONNECTED", !.is_uplink = up]
         ELSE [l EXCEPT !.is_uplink = up]

\* s_stream_delete_callback.
StreamDelete(link) ==
    LET l == MemberDelete([link EXCEPT !.stream_is_destroyed = TRUE], Listed(link))
    IN  IF ~link.known \/ ~InUse(link) THEN link
        ELSE IF l.client THEN l
        ELSE LinkDelete(l, FALSE)

\* s_link_accounting_callback with no_error: the node joins the main cluster
\* of the net and those of the others it has a static role in.
AccountingJoin(l, n) ==
    IF l.known
    THEN [l EXCEPT !.joins = {MainCluster[n]} \cup (Associates[n] \cap l.static_clusters)]
    ELSE l

\* The same without: the node leaves, and unless the net keeps the link it
\* is associated no more.
AccountingLeave(link, n, permanent) ==
    LET l == [MemberDelete(link, LinkClusters(n)) EXCEPT !.delay = TRUE]
        m == [l EXCEPT !.nets = @ \ {n}]
    IN  IF ~link.known THEN link
        ELSE IF permanent THEN l
        ELSE IF m.client /\ m.nets = {} /\ m.static_clusters = {}
             THEN LinkDelete(m, FALSE)
             ELSE m

-----------------------------------------------------------------------------
(***************************************************************************)
(* The processing thread                                                   *)
(***************************************************************************)
Room(k) == Len(high) + Len(normal) + k <= MaxQueue

Request(op, a, flag) == [op |-> op, addr |-> a, flag |-> flag]

\* No handler is adding members, so links_lock is free.
Unlocked == \A a \in Addrs : node[a].joins = {} /\ node[a].called = {}

\* The link has no client, or a new one, after its client is deleted.
Settle(a, l) ==
    /\ node' = [node EXCEPT ![a] = l]
    /\ client' = IF l.client THEN client ELSE [client EXCEPT ![a] = NewClient]

Handled(l, r) ==
    CASE r.op = "drop" -> LinkDrop(l, r.flag)
      [] r.op = "add" -> {StreamAdd(l, r.flag)}
      [] r.op = "replace" -> {StreamReplace(l, r.flag)}
      [] r.op = "delete" -> {StreamDelete(l)}

\* s_link_drop_callback and the three s_stream_*_callback.
RunHigh ==
    /\ Unlocked
    /\ high # <<>>
    /\ LET r == Head(high)
       IN  \E l \in Handled(node[r.addr], r) : Settle(r.addr, l)
    /\ high' = Tail(high)
    /\ UNCHANGED <<streams, active, leaving, enabled, normal, wakeup, ops>>

\* s_link_accounting_callback.
RunNormal ==
    /\ Unlocked
    /\ high = <<>>
    /\ normal # <<>>
    /\ LET r == Head(normal)
           l == node[r.addr]
       IN  \/ r.ok /\ Settle(r.addr, AccountingJoin(l, r.net))
           \/ ~r.ok /\ \E permanent \in BOOLEAN :
                           Settle(r.addr, AccountingLeave(l, r.net, permanent))
    /\ normal' = Tail(normal)
    /\ UNCHANGED <<streams, active, leaving, enabled, high, wakeup, ops>>

\* The loop of s_stream_add_callback or s_link_accounting_callback.
Joins(a) ==
    /\ \/ /\ node[a].called = {}
          /\ \E c \in node[a].joins : node' = [node EXCEPT ![a] = HashAdd(@, c)]
       \/ \E c \in node[a].called : \E l \in AddCallback(node[a], c) :
             node' = [node EXCEPT ![a] = l]
    /\ UNCHANGED <<client, streams, active, leaving, enabled, high, normal, wakeup, ops>>

-----------------------------------------------------------------------------
(***************************************************************************)
(* The timer                                                               *)
(***************************************************************************)
\* A link the timer has a reason to dial.
Wanted(l) ==
    /\ l.client
    /\ ~InUse(l)
    /\ l.state = "DISCONNECTED"
    /\ l.nets # {} \/ l.static_clusters \cap enabled # {}

\* One link of s_links_wake_up.  The callback fill_net_info (of the network,
\* external) has the link dialled with the address it has, if any, or marks
\* it ready and finds out the address.
WakeUp(a) ==
    LET l == node[a]
    IN  IF ~Wanted(l) \/ l.delay THEN {l}
        ELSE IF client[a].phase # "rest" THEN {AskBegin(l)}
        ELSE {[l EXCEPT !.ready = TRUE]}
             \cup IF l.port THEN {LinkConnect(l)}
                  ELSE {LinkDropLast(l, permanent) : permanent \in SUBSET Nets}

\* s_update_states: in turn s_links_wake_up and s_links_request.  What the
\* latter asks the networks for is LinkCreate.
UpdateStates ==
    /\ wakeup' = ~wakeup
    /\ \A a \in Addrs : Len(node[a].asks) < MaxAsks
    /\ IF wakeup
       THEN /\ Unlocked
            /\ node' \in [Addrs -> UNION {WakeUp(a) : a \in Addrs}]
            /\ \A a \in Addrs : node'[a] \in WakeUp(a)
            /\ client' = [a \in Addrs |-> IF node'[a].client THEN client[a] ELSE NewClient]
       ELSE UNCHANGED <<node, client>>
    /\ UNCHANGED <<streams, active, leaving, enabled, high, normal, ops>>

\* start_after is reached.
DelayPasses(a) ==
    /\ node[a].delay
    /\ node' = [node EXCEPT ![a].delay = FALSE]
    /\ UNCHANGED <<client, streams, active, leaving, enabled, high, normal, wakeup, ops>>

\* dap_link_manager_link_update, by which the network (external) answers
\* fill_net_info, sooner or later or never.
LinkUpdateCalled(a) ==
    /\ node[a].ready
    /\ ~node[a].update
    /\ node' = [node EXCEPT ![a].update = TRUE]
    /\ UNCHANGED <<client, streams, active, leaving, enabled, high, normal, wakeup, ops>>

\* Mutant: the mark is cleared before it is tested.
LinkUpdateUnready(a) ==
    LET l == [node[a] EXCEPT !.update = FALSE, !.ready = FALSE]
    IN  /\ Unlocked
        /\ node[a].update
        /\ node' = [node EXCEPT ![a] =
              IF ~l.client \/ l.state # "DISCONNECTED" THEN l
              ELSE [l EXCEPT !.port = TRUE]]
        /\ UNCHANGED <<client, streams, active, leaving, enabled, high, normal, wakeup, ops>>

\* s_link_update_callback.
LinkUpdate(a) ==
    LET l == [node[a] EXCEPT !.update = FALSE]
        m == [l EXCEPT !.port = TRUE, !.ready = FALSE]
    IN  /\ Unlocked
        /\ node[a].update
        /\ node' = [node EXCEPT ![a] =
              IF ~l.client THEN l
              ELSE IF l.state # "DISCONNECTED" THEN [l EXCEPT !.ready = FALSE]
              ELSE IF l.ready THEN LinkConnect(m)
              ELSE m]
        /\ UNCHANGED <<client, streams, active, leaving, enabled, high, normal, wakeup, ops>>

-----------------------------------------------------------------------------
(***************************************************************************)
(* Streams and clients                                                     *)
(***************************************************************************)
\* s_stream_add_to_hashtable: only the first stream of a node is reported.
StreamOpened(a, up) ==
    /\ Len(streams[a]) < MaxStreams
    /\ streams' = [streams EXCEPT ![a] = Append(@, up)]
    /\ high' = IF streams[a] = <<>> THEN Append(high, Request("add", a, up)) ELSE high

Without(s, i) == SubSeq(s, 1, i - 1) \o SubSeq(s, i + 1, Len(s))

\* s_stream_delete_from_list: what the link manager is told.
Reports(a, i) ==
    LET rest == Without(streams[a], i)
    IN  IF rest = <<>> THEN <<Request("delete", a, FALSE)>>
        ELSE IF i = 1
             THEN <<Request("add", a, rest[1]), Request("replace", a, rest[1])>>
             ELSE <<Request("replace", a, rest[1])>>

StreamClosed(a, i, before) ==
    /\ streams' = [streams EXCEPT ![a] = Without(@, i)]
    /\ high' = high \o before \o Reports(a, i)

Uplinks(a) == {i \in DOMAIN streams[a] : streams[a][i]}

\* A node dials us.
DownlinkComes(a) ==
    /\ ops < MaxOps
    /\ Room(1)
    /\ StreamOpened(a, FALSE)
    /\ ops' = ops + 1
    /\ UNCHANGED <<node, client, active, leaving, enabled, normal, wakeup>>

\* A downlink ends, or the stream of a client that is being deleted.
StreamEnds(a, i) ==
    /\ i \in DOMAIN streams[a]
    /\ streams[a][i] => client[a].phase # "up"
    /\ Room(Len(Reports(a, i)))
    /\ StreamClosed(a, i, <<>>)
    /\ UNCHANGED <<node, client, active, leaving, enabled, normal, wakeup, ops>>

\* s_client_connected_callback, on the client's worker and without a lock.
ClientConnected(a) ==
    /\ client[a].phase = "trying"
    /\ Uplinks(a) = {}
    /\ Room(1)
    /\ StreamOpened(a, TRUE)
    /\ client' = [client EXCEPT ![a] = [phase |-> "up", said |-> "connected"]]
    /\ node' = [node EXCEPT ![a].state = "ESTABLISHED", ![a].attempts = 0]
    /\ UNCHANGED <<active, leaving, enabled, normal, wakeup, ops>>

\* s_client_error_callback: the first failure of a round, or the last.
ClientError(a, last) ==
    /\ client[a].phase = "trying"
    /\ ~last => client[a].said = "nothing"
    /\ Room(1)
    /\ high' = Append(high, Request("drop", a, last))
    /\ client' = [client EXCEPT ![a] =
                    IF last THEN [phase |-> "failed", said |-> "last"]
                    ELSE [phase |-> "trying", said |-> "error"]]
    /\ UNCHANGED <<node, streams, active, leaving, enabled, normal, wakeup, ops>>

\* The attempt ends in one of the ways nobody is told of.
ClientFails(a) ==
    /\ client[a].phase = "trying"
    /\ client' = [client EXCEPT ![a].phase = "failed"]
    /\ UNCHANGED <<node, streams, active, leaving, enabled, high, normal, wakeup, ops>>

\* The stream breaks; the client reports the error, deletes what is left of
\* the stream and tries again.
ClientBreaks(a) ==
    /\ client[a].phase = "up"
    /\ \E i \in Uplinks(a) :
          /\ Room(Len(Reports(a, i)) + 1)
          /\ StreamClosed(a, i, <<Request("drop", a, FALSE)>>)
    /\ client' = [client EXCEPT ![a] = [phase |-> "trying", said |-> "error"]]
    /\ UNCHANGED <<node, active, leaving, enabled, normal, wakeup, ops>>

\* s_go_stage_on_client_worker_unsafe: a client that is up and asked for the
\* stream calls back again, one at rest starts; any other goes back to the
\* beginning, whatever it was asked for.
ClientGoes(a) ==
    LET ask == Head(node[a].asks)
        l == [node[a] EXCEPT !.asks = Tail(@)]
    IN  /\ node[a].asks # <<>>
        /\ \/ /\ ask = "stream" /\ client[a].phase = "up"
              /\ node' = [node EXCEPT ![a] =
                             [l EXCEPT !.state = "ESTABLISHED", !.attempts = 0]]
              /\ UNCHANGED <<client, streams, high>>
           \/ /\ ask = "begin" \/ client[a].phase # "up"
              /\ client' = [client EXCEPT ![a] =
                     [phase |-> IF ask = "stream" /\ client[a].phase = "rest"
                                THEN "trying" ELSE "rest",
                      said |-> "nothing"]]
              /\ node' = [node EXCEPT ![a] = l]
              /\ IF client[a].phase = "up"
                 THEN \E i \in Uplinks(a) : StreamClosed(a, i, <<>>)
                 ELSE UNCHANGED <<streams, high>>
        /\ UNCHANGED <<active, leaving, enabled, normal, wakeup, ops>>

\* A client deleted with its link (dap_client_delete queues the deletion) may
\* still make one callback before its worker comes to s_client_delete_on_worker.
\* The callback finds the freed link: what s_client_connected_callback writes
\* there is lost, and s_client_error_callback reads the address, or no more.
OrphanDeleted(a) ==
    /\ node[a].orphan
    /\ node' = [node EXCEPT ![a].orphan = FALSE]
    /\ \/ UNCHANGED <<streams, high>>
       \/ Uplinks(a) = {} /\ Room(1) /\ StreamOpened(a, TRUE)
       \/ /\ Room(1)
          /\ \E last \in BOOLEAN : high' = Append(high, Request("drop", a, last))
          /\ UNCHANGED streams
    /\ UNCHANGED <<client, active, leaving, enabled, normal, wakeup, ops>>

-----------------------------------------------------------------------------
(***************************************************************************)
(* Networks and roles                                                      *)
(***************************************************************************)
Event ==
    /\ ops < MaxOps
    /\ ops' = ops + 1

\* dap_link_manager_accounting_link_in_net, when the node has answered for
\* the net over a stream (the answer is external).
Account(a, n, ok) ==
    /\ Event
    /\ streams[a] # <<>>
    /\ Room(1)
    /\ normal' = Append(normal, [addr |-> a, net |-> n, ok |-> ok])
    /\ UNCHANGED <<node, client, streams, active, leaving, enabled, high, wakeup>>

\* dap_link_manager_link_create.
LinkCreate(a, n) ==
    /\ Event
    /\ Unlocked
    /\ node' = [node EXCEPT ![a].known = TRUE, ![a].client = TRUE, ![a].nets = @ \cup {n}]
    /\ UNCHANGED <<client, streams, active, leaving, enabled, high, normal, wakeup>>

\* dap_link_manager_add_static_links_cluster: a new link gets a client, a
\* downlink's goes without.
AddStatic(a, c) ==
    LET l == IF node[a].known THEN node[a]
             ELSE [node[a] EXCEPT !.known = TRUE, !.client = TRUE]
    IN  /\ Event
        /\ Unlocked
        /\ c \notin l.static_clusters
        /\ node' = [node EXCEPT ![a] = [l EXCEPT !.static_clusters = @ \cup {c}]]
        /\ UNCHANGED <<client, streams, active, leaving, enabled, high, normal, wakeup>>

\* dap_link_manager_remove_static_links_cluster.
RemoveStatic(a, c) ==
    LET l == [node[a] EXCEPT !.static_clusters = @ \ {c}]
    IN  /\ Event
        /\ Unlocked
        /\ c \in node[a].static_clusters
        /\ Settle(a, IF l.static_clusters = {} /\ ~InUse(l) THEN LinkDelete(l, TRUE) ELSE l)
        /\ UNCHANGED <<streams, active, leaving, enabled, high, normal, wakeup>>

\* dap_link_manager_set_net_condition(TRUE).
NetOn(n) ==
    /\ Event
    /\ n \notin active \cup leaving
    /\ active' = active \cup {n}
    /\ enabled' = enabled \cup LinkClusters(n)
    /\ UNCHANGED <<node, client, streams, leaving, high, normal, wakeup>>

\* dap_link_manager_set_net_condition(FALSE).
NetOff(n) ==
    /\ Event
    /\ n \in active
    /\ active' = active \ {n}
    /\ leaving' = leaving \cup {n}
    /\ UNCHANGED <<node, client, streams, enabled, high, normal, wakeup>>

\* Its loop: dap_cluster_delete_all_members for each cluster of the net,
\* whoever holds links_lock.
ClusterOff(n, c) ==
    /\ n \in leaving
    /\ c \in LinkClusters(n) \cap enabled
    /\ enabled' = enabled \ {c}
    /\ node' = [a \in Addrs |-> MemberDelete(node[a], {c})]
    /\ UNCHANGED <<client, streams, active, leaving, high, normal, wakeup, ops>>

\* The rest of it: the links lose the net, and those that have no other go.
NetForgotten(l, n) ==
    LET m == [l EXCEPT !.nets = @ \ {n}]
    IN  IF n \in l.nets /\ m.nets = {} THEN LinkDelete(m, FALSE) ELSE m

NetLeft(n) ==
    /\ n \in leaving
    /\ LinkClusters(n) \cap enabled = {}
    /\ Unlocked
    /\ leaving' = leaving \ {n}
    /\ node' = [a \in Addrs |-> NetForgotten(node[a], n)]
    /\ client' = [a \in Addrs |-> IF node'[a].client THEN client[a] ELSE NewClient]
    /\ UNCHANGED <<streams, active, enabled, high, normal, wakeup, ops>>

-----------------------------------------------------------------------------
Next ==
    \/ RunHigh
    \/ RunNormal
    \/ UpdateStates
    \/ \E a \in Addrs :
          \/ Joins(a)
          \/ DelayPasses(a)
          \/ LinkUpdateCalled(a)
          \/ LinkUpdate(a)
          \/ DownlinkComes(a)
          \/ \E i \in 1..MaxStreams : StreamEnds(a, i)
          \/ ClientConnected(a)
          \/ \E last \in BOOLEAN : ClientError(a, last)
          \/ ClientFails(a)
          \/ ClientBreaks(a)
          \/ ClientGoes(a)
          \/ OrphanDeleted(a)
          \/ \E n \in Nets : LinkCreate(a, n) \/ \E ok \in BOOLEAN : Account(a, n, ok)
          \/ \E c \in Autonomic : AddStatic(a, c) \/ RemoveStatic(a, c)
    \/ \E n \in Nets :
          \/ NetOn(n)
          \/ NetOff(n)
          \/ \E c \in Clusters : ClusterOff(n, c)
          \/ NetLeft(n)

Spec == Init /\ [][Next]_vars

\* The threads and the timer run, time passes.
FairSpec ==
    /\ Spec
    /\ WF_vars(RunHigh)
    /\ WF_vars(RunNormal)
    /\ WF_vars(UpdateStates)
    /\ \A a \in Addrs :
          /\ WF_vars(Joins(a))
          /\ WF_vars(DelayPasses(a))
          /\ WF_vars(LinkUpdate(a))
          /\ WF_vars(ClientGoes(a))
          /\ WF_vars(OrphanDeleted(a))
    /\ \A n \in Nets :
          /\ \A c \in Clusters : WF_vars(ClusterOff(n, c))
          /\ WF_vars(NetLeft(n))

-----------------------------------------------------------------------------
\* active_clusters and the members of the clusters are kept by callbacks from
\* one to the other (dap_stream_cluster.c:152, 197).  A node without a link is
\* a member of no cluster, and a member's cluster is in the list of its link,
\* once the callback is made, so that s_link_delete finds it there and no
\* member outlives its link.  Each cluster is in the list once if the node is
\* its member and not at all if not, as assert(l_link->active_clusters ==
\* NULL) in s_link_delete needs, unless the net was switched off between
\* HASH_ADD and the callback: then it may be there for good.
ClustersAgree ==
    \A a \in Addrs :
        LET l == node[a]
        IN  /\ l.members # {} => l.known
            /\ \A c \in l.members \ l.called : l.active_clusters[c] > 0
            /\ \A c \in Clusters \ l.stale :
                  l.active_clusters[c] = IF c \in l.members \ l.called THEN 1 ELSE 0

\* The client of a link is asked for a stream and for the beginning in step
\* with uplink.state, whichever thread decides: DISCONNECTED means that the
\* last request was for the beginning, so s_link_connect never asks twice for
\* the stream (which would send the client back to the beginning for good),
\* and CONNECTING that it was for the stream.  ESTABLISHED may have either:
\* s_client_connected_callback can come after a request for the beginning.
StateMatchesAsk ==
    \A a \in Addrs :
        node[a].client =>
            /\ node[a].state = "DISCONNECTED" => node[a].asked = "begin"
            /\ node[a].state = "CONNECTING" => node[a].asked = "stream"

\* A link with an address that is wanted is dialled, or wanted no more,
\* however the late callbacks, delays and timers fall, unless the network
\* never answers what s_links_wake_up asks it about the link.
WokenUp ==
    \A a \in Addrs :
        (Wanted(node[a]) /\ node[a].port) ~>
            (~(Wanted(node[a]) /\ node[a].port) \/ [](node[a].ready /\ ~node[a].update))
=============================================================================
