---------------------------- MODULE StreamTable ----------------------------
(***************************************************************************)
(* The table of live streams of a node (net/stream/stream/dap_stream.c):   *)
(* the list s_streams of all of them, the hashtable s_authorized_streams   *)
(* with one primary stream for each remote node, the members of the global *)
(* links cluster, and what the link manager has been told.                 *)
(*                                                                         *)
(* s_streams_lock is held by every operation that changes them, so each is *)
(* one step.  A stream is created by the HTTP or UDP server, which lists   *)
(* it at once, or by a client, which lists it when its target stage is     *)
(* reached; it may be moved to another worker, and it is deleted once.     *)
(*                                                                         *)
(* A stream of the server has an address only if it is authorized.  That   *)
(* of a client has the address the client dialled, and is authorized if    *)
(* the node that answered has proved that address: it may have one and be  *)
(* unverified.                                                             *)
(***************************************************************************)
EXTENDS Naturals, Sequences

CONSTANTS
    Streams,        \* dap_stream_t instances
    Nodes,          \* addresses of remote nodes
    Node,           \* stream -> its field node, Blank if it has none
    Authorized,     \* the streams with the flag authorized
    Client,         \* the streams with the flag is_client_to_uplink
    Movable,        \* the streams whose sockets move between workers
    Blank,          \* the blank address
    None            \* no stream

ASSUME StreamAssumption ==
    /\ None \notin Streams
    /\ Blank \notin Nodes
    /\ Node \in [Streams -> Nodes \cup {Blank}]
    /\ Authorized \subseteq Streams
    /\ Client \subseteq Streams
    /\ Movable \subseteq Streams
    \* s_stream_new tests the address, a client compares it with the signer
    /\ \A s \in Authorized : Node[s] # Blank
    /\ \A s \in Streams \ (Authorized \cup Client) : Node[s] = Blank

VARIABLES
    status,     \* "none", "created", "listed", "moving" or "freed"
    list,       \* s_streams
    primary,    \* the streams with the flag primary
    table,      \* s_authorized_streams
    members,    \* the members of s_global_links_cluster
    link        \* what the link manager knows of a node: "none", "uplink" or "downlink"

tvars == <<status, list, primary, table, members, link>>

Direction(s) == IF s \in Client THEN "uplink" ELSE "downlink"

-----------------------------------------------------------------------------
TableInit ==
    /\ status = [s \in Streams |-> "none"]
    /\ list = <<>>
    /\ primary = {}
    /\ table = [n \in Nodes |-> None]
    /\ members = {}
    /\ link = [n \in Nodes |-> "none"]

\* The link manager's handler of an added stream returns early when the link
\* is already in use.
StreamAdded(lnk, s) ==
    IF lnk[Node[s]] = "none" THEN [lnk EXCEPT ![Node[s]] = Direction(s)] ELSE lnk

\* HASH_FIND in the hashtable t.  A stream that was freed there is found or
\* not, as its memory has been used again or not.
Found(t, n) ==
    IF t[n] # None /\ status[t[n]] = "freed" THEN {t[n], None} ELSE {t[n]}

\* No member added.
AddToHashtableAlone(s, t, l_double) ==
    /\ primary' = primary \cup {s}
    /\ table' = [t EXCEPT ![Node[s]] = s]
    /\ UNCHANGED members

\* s_stream_add_to_hashtable on the hashtable t: the first stream of a node
\* is its primary one.
AddToHashtable(s, t, l_double) ==
    IF l_double # None
    THEN /\ table' = t
         /\ UNCHANGED <<primary, members>>
    ELSE /\ primary' = primary \cup {s}
         /\ table' = [t EXCEPT ![Node[s]] = s]
         /\ members' = members \cup {Node[s]}

\* dap_stream_add_to_list.
AddToList(s) ==
    /\ list' = Append(list, s)
    /\ status' = [status EXCEPT ![s] = "listed"]
    /\ IF s \in Authorized
       THEN \E l_double \in Found(table, Node[s]) :
               /\ AddToHashtable(s, table, l_double)
               /\ link' = IF l_double = None THEN StreamAdded(link, s) ELSE link
       ELSE UNCHANGED <<primary, table, members, link>>

\* HASH_DEL of s.  Taking out a stream that is not in the hashtable is
\* undefined: the links it kept from its last stay decide whether the
\* hashtable is left alone or given up as a whole.
HashDel(s) ==
    IF table[Node[s]] = s
    THEN {[table EXCEPT ![Node[s]] = None]}
    ELSE {table, [n \in Nodes |-> None]}

\* DL_DELETE of the element in place k.
Unlinked(q, k) == SubSeq(q, 1, k - 1) \o SubSeq(q, k + 1, Len(q))

Unlisted(s) ==
    IF status[s] = "listed"
    THEN {Unlinked(list, i) : i \in {j \in DOMAIN list : list[j] = s}}
    ELSE {list}

\* The last stream of the list instead of the first.
SuccessorLast(s, rest, i) ==
    /\ i \in DOMAIN rest
    /\ Node[rest[i]] = Node[s]
    /\ \A j \in (i + 1)..Len(rest) : Node[rest[j]] # Node[s]

\* The first stream of the list to the same node takes the place of s.
Successor(s, rest, i) ==
    /\ i \in DOMAIN rest
    /\ Node[rest[i]] = Node[s]
    /\ \A j \in 1..(i - 1) : Node[rest[j]] # Node[s]

\* The hashtable left as it was.
DeleteFromListDangling(s) ==
    \E rest \in Unlisted(s) :
        /\ list' = rest
        /\ UNCHANGED <<primary, table, members, link>>

\* No successor looked for.
DeleteFromListOrphan(s) ==
    \E rest \in Unlisted(s) :
        /\ list' = rest
        /\ IF s \in primary
           THEN /\ table' = [table EXCEPT ![Node[s]] = None]
                /\ members' = members \ {Node[s]}
                /\ link' = [link EXCEPT ![Node[s]] = "none"]
           ELSE UNCHANGED <<table, members, link>>
        /\ primary' = primary

\* s_stream_delete_from_list: a successor is added to the hashtable and the
\* link manager told to replace the stream, or the node is no member any more.
DeleteFromList(s) ==
    \E rest \in Unlisted(s) :
        /\ list' = rest
        /\ IF s \notin Authorized
           THEN UNCHANGED <<primary, table, members, link>>
           ELSE \E t \in IF s \in primary THEN HashDel(s) ELSE {table} :
                    \/ \E i \in DOMAIN rest, l_double \in Found(t, Node[s]) :
                         /\ Successor(s, rest, i)
                         /\ AddToHashtable(rest[i], t, l_double)
                         /\ link' = [link EXCEPT ![Node[s]] = Direction(rest[i])]
                    \/ /\ \A i \in DOMAIN rest : Node[rest[i]] # Node[s]
                       /\ table' = t
                       /\ primary' = primary
                       /\ members' = members \ {Node[s]}
                       /\ link' = [link EXCEPT ![Node[s]] = "none"]

-----------------------------------------------------------------------------
\* s_stream_new and stream_new_udp: the server side.
ServerNew(s) ==
    /\ status[s] = "none"
    /\ s \notin Client
    /\ AddToList(s)

\* dap_stream_new_es_client, in the client's stage STREAM_SESSION.
ClientNew(s) ==
    /\ status[s] = "none"
    /\ s \in Client
    /\ status' = [status EXCEPT ![s] = "created"]
    /\ UNCHANGED <<list, primary, table, members, link>>

\* s_stage_status_after, status DONE of the target stage.
TargetReached(s) ==
    /\ status[s] = "created"
    /\ AddToList(s)

\* dap_stream_delete_unsafe.
Delete(s) ==
    /\ status[s] \in {"created", "listed"}
    /\ DeleteFromList(s)
    /\ status' = [status EXCEPT ![s] = "freed"]

\* s_esocket_callback_worker_unassign, on the worker the socket leaves.
Unassign(s) ==
    /\ s \in Movable
    /\ status[s] = "listed"
    /\ DeleteFromList(s)
    /\ status' = [status EXCEPT ![s] = "moving"]

\* s_esocket_callback_worker_assign, on its new worker.
Assign(s) ==
    /\ status[s] = "moving"
    /\ AddToList(s)

TableNext ==
    \E s \in Streams :
        \/ ServerNew(s)
        \/ ClientNew(s)
        \/ TargetReached(s)
        \/ Delete(s)
        \/ Unassign(s)
        \/ Assign(s)

TableSpec == TableInit /\ [][TableNext]_tvars

-----------------------------------------------------------------------------
\* The variables keep the types of the C variables they stand for.
TableTypeOK ==
    /\ status \in [Streams -> {"none", "created", "listed", "moving", "freed"}]
    /\ list \in Seq(Streams)
    /\ primary \subseteq Streams
    /\ table \in [Nodes -> Streams \cup {None}]
    /\ members \subseteq Nodes
    /\ link \in [Nodes -> {"none", "uplink", "downlink"}]

\* An entry of the hashtable whose stream has been freed.
Dangling(n) == table[n] # None /\ status[table[n]] = "freed"

\* No unverified stream to the node has been listed, nor deleted, so far.
OnlyVerified(n) ==
    \A s \in Streams \ Authorized : Node[s] = n => status[s] \in {"none", "created"}

\* What dap_stream_find_by_addr finds goes to the node asked for, and an
\* authorized stream it finds is alive and in the list: none is left in the
\* hashtable when it is deleted, whatever replaced it.
TableAlive ==
    \A n \in Nodes :
        table[n] # None =>
            /\ Node[table[n]] = n
            /\ table[n] \in Authorized => status[table[n]] = "listed"

\* "Link cluster contains member ... not found in streams HT" is an error of
\* dap_stream_get_links_info (dap_stream.c:1144): a member of the global
\* cluster has a stream in the hashtable, and who has one is a member, also
\* while unverified streams come and go, until one is freed in the hashtable.
MembersInTable ==
    \A n \in Nodes : ~Dangling(n) => (n \in members <=> table[n] # None)

\* s_stream_delete_from_list looks for a replacement: as long as one
\* authorized stream to a node is listed, the node can be reached by address.
NodeReachable ==
    \A s \in Authorized : status[s] = "listed" => table[Node[s]] # None

\* The link manager, told when a stream is added, replaced or deleted, has a
\* link in use exactly for the nodes of the hashtable, under the same proviso.
\* It takes the link for an uplink exactly if the primary stream is a
\* client's, as long as no unverified stream to the node was listed.
LinkDirection ==
    \A n \in Nodes :
        /\ ~Dangling(n) => (link[n] = "none" <=> table[n] = None)
        /\ OnlyVerified(n) /\ table[n] # None => link[n] = Direction(table[n])
=============================================================================
