------------------------------- MODULE GdbSync -------------------------------
(***************************************************************************)
(* The synchronisation of one GlobalDB group between the nodes of a        *)
(* cluster: the sync timer of dap_global_db_cluster.c, the packet handlers *)
(* and proc-thread callbacks of dap_global_db_ch.c, and the paged reading  *)
(* of hashes in dap_global_db_driver_mdbx.c.                               *)
(*                                                                         *)
(* A callback of a proc thread is one action, except s_proc_thread_reader, *)
(* which returns true after each page and runs again: one action per page. *)
(* Applying a record is atomic here; GdbApply takes it apart.  A packet    *)
(* under way stands for the stream and the proc-thread queue behind it,    *)
(* which may belong to any thread: packets overtake one another.           *)
(***************************************************************************)
EXTENDS GdbRecord, FiniteSets

CONSTANTS
    Nodes,       \* members of the cluster; each signs as itself
    Skew,        \* how far a node's clock is ahead: [Nodes -> Nat]
    KeyRank,     \* the part of the CRC that comes from the key: [Keys -> Nat], injective
    PageSize,    \* DAP_GLOBAL_DB_COND_READ_KEYS_DEFAULT
    MaxLoss,     \* bound: packets that are lost
    MaxTime,     \* bound: the clock stops here
    MaxStamp,    \* bound: the largest timestamp a set may produce
    Reach,       \* the sets of nodes a gossip broadcast may reach
    DelFlags,    \* whether nodes set, delete, or both
    MaxSets,     \* bound: local sets and deletes
    MaxLoad      \* bound: packets and readers at work when a round starts

ASSUME SyncAssumption ==
    /\ Nodes \subseteq Signers \ {Unsigned}
    /\ Skew \in [Nodes -> Nat]
    /\ KeyRank \in [Keys -> Nat]
    /\ \A j, k \in Keys : KeyRank[j] = KeyRank[k] => j = k
    /\ IsFiniteSet(Keys)
    /\ PageSize \in Nat \ {0}
    /\ MaxLoss \in Nat /\ MaxTime \in Nat \ {0} /\ MaxStamp \in Nat
    /\ DelFlags \subseteq BOOLEAN /\ Reach \subseteq SUBSET Nodes
    /\ MaxSets \in Nat /\ MaxLoad \in Nat \ {0}

VARIABLES
    now,      \* true time
    db,       \* the group in the store of every node
    state,    \* sync_context.state of every node
    net,      \* packets and queued callbacks
    readers,  \* s_proc_thread_reader and get_all callbacks not yet finished
    lost,     \* how many packets were lost
    sets,     \* how many sets and deletes there were
    newest    \* history: the newest record written under each key

vars == <<now, db, state, net, readers, lost, sets, newest>>

\* An entry is a key with its record; the driver orders entries by hash.
Entry == Keys \X Record

Precedes(e, f) ==
    \/ HashLess(e[2], f[2])
    \/ SameHash(e[2], f[2]) /\ KeyRank[e[1]] < KeyRank[f[1]]

Entries(n) == {<<k, db[n][k]>> : k \in {j \in Keys : db[n][j] # NoRec}}

\* a_with_holes: dap_global_db_get_all leaves out deleted records.
Shown(type, n) == {e \in Entries(n) : type = "GET_ALL" => ~e[2].del}

\* dap_global_db_driver_count
Count(type, n) == Cardinality(Shown(type, n))

\* dap_global_db_driver_get_by_hash: the entries that are still there.
GetByHash(n, S) == S \cap Entries(n)

KeysOf(S) == {e[1] : e \in S}

Clock(n) == now + Skew[n]

\* The hash blank, which every hash follows.
Blank == NoRec

Packet ==
    [type : {"START", "GROUP_REQUEST", "HASHES", "REQUEST", "RECORD_PACK", "GOSSIP"},
     from : Nodes, to : Nodes, data : SUBSET Entry]

Reader ==
    [at : Nodes, to : Nodes, type : {"START", "GROUP_REQUEST", "GET_ALL"},
     last : Entry \cup {Blank}, due : SUBSET Keys]

\* One type invariant; no node talks to itself.
TypeOK ==
    /\ now \in 1..MaxTime
    /\ db \in [Nodes -> [Keys -> Record \cup {NoRec}]]
    /\ state \in [Nodes -> {"START", "IDLE"}]
    /\ net \subseteq Packet /\ \A p \in net : p.from # p.to
    /\ readers \subseteq Reader
    /\ lost \in 0..MaxLoss /\ sets \in 0..MaxSets
    /\ newest \in [Keys -> Record \cup {NoRec}]

Init ==
    /\ now = 1
    /\ db = [n \in Nodes |-> [k \in Keys |-> NoRec]]
    /\ state = [n \in Nodes |-> "START"]
    /\ net = {}
    /\ readers = {}
    /\ lost = 0
    /\ sets = 0
    /\ newest = [k \in Keys |-> NoRec]

\* dap_stream_ch_pkt_send_by_addr: a packet is under way.  One that finds no
\* stream, channel or queue is lost: Lose.
Msg(type, n, m, data) == [type |-> type, from |-> n, to |-> m, data |-> data]

Tick ==
    /\ now < MaxTime
    /\ now' = now + 1
    /\ UNCHANGED <<db, state, net, readers, lost, sets, newest>>

-----------------------------------------------------------------------------
(* Writing.                                                                *)

\* Mutant: what arrived last is kept.
WinsAlways(n, k, r) == Admitted(db[n][k], r, Clock(n))

\* s_store_obj_apply puts record r of a peer under k.
Wins(n, k, r) ==
    /\ Admitted(db[n][k], r, Clock(n))
    /\ ~ReceivedIsOlder(db[n][k], r)

\* dap_global_db_cluster_broadcast: gossip reaches the nodes of reached.
Broadcast(n, k, obj, reached) == {Msg("GOSSIP", n, m, {<<k, obj>>}) : m \in reached}

\* dap_global_db_set and dap_global_db_del: a record with the local time, or
\* with the time after that of a newer record that is there already.  The
\* record is broadcast.
Set(n, k, del, reached) ==
    LET old == db[n][k]
        new == [ts |-> Clock(n), signer |-> n, del |-> del, pin |-> FALSE]
        obj == IF ReceivedIsOlder(old, new) THEN [new EXCEPT !.ts = old.ts + 1] ELSE new
    IN  /\ Admitted(old, new, Clock(n))
        /\ obj.ts <= MaxStamp
        /\ db' = [db EXCEPT ![n][k] = obj]
        /\ net' = net \cup Broadcast(n, k, obj, reached)
        /\ UNCHANGED <<now, state, readers, lost>>
        /\ sets < MaxSets /\ sets' = sets + 1
        /\ newest' = [newest EXCEPT ![k] =
              IF @ = NoRec \/ HashLess(@, obj) THEN obj ELSE @]

\* s_clean_old_obj_gdb_callback.
Clean(n) ==
    /\ Ttl # 0
    /\ db' = [db EXCEPT ![n] = [k \in Keys |->
          IF @[k] # NoRec /\ TooOld(@[k], Clock(n)) THEN NoRec ELSE @[k]]]
    /\ UNCHANGED <<now, state, net, readers, lost, sets, newest>>

-----------------------------------------------------------------------------
(* s_gdb_cluster_sync_timer_callback.                                      *)

\* Nothing is sent for an empty group.
Start(n, m) ==
    /\ state[n] = "START"
    /\ n # m
    /\ Cardinality(net) + Cardinality(readers) < MaxLoad
    /\ state' = [state EXCEPT ![n] = "IDLE"]
    /\ net' = IF Count("START", n) = 0 THEN net ELSE net \cup {Msg("START", n, m, {})}
    /\ UNCHANGED <<now, db, readers, lost, sets, newest>>

\* sync_idle_time went by without a REQUEST from the current link.
Idle(n) ==
    /\ state[n] = "IDLE"
    /\ state' = [state EXCEPT ![n] = "START"]
    /\ UNCHANGED <<now, db, net, readers, lost, sets, newest>>

-----------------------------------------------------------------------------
(* The handlers of dap_global_db_ch.c.                                     *)

LastOf(S) == CHOOSE e \in S : \A f \in S : f = e \/ Precedes(f, e)

\* A reader begins at the first record.  History: due are the keys that it is
\* to come to, those with a record from the beginning to its last page.
NewReader(type, n, m) ==
    [at |-> n, to |-> m, type |-> type, last |-> Blank, due |-> KeysOf(Shown(type, n))]

\* It has read a page that is not its last.
Turned(r, page) ==
    [r EXCEPT !.last = LastOf(page),
              !.due = (@ \ KeysOf(page)) \cap KeysOf(Shown(r.type, r.at))]

\* dap_global_db_get_all on node n, for a local caller.
GetAll(n) ==
    /\ Cardinality(net) + Cardinality(readers) < MaxLoad
    /\ readers' = readers \cup {NewReader("GET_ALL", n, n)}
    /\ UNCHANGED <<now, db, state, net, lost, sets, newest>>

\* START and GROUP_REQUEST.
BeginReader(p) ==
    /\ p.type \in {"START", "GROUP_REQUEST"}
    /\ readers' = readers \cup {NewReader(p.type, p.to, p.from)}
    /\ net' = net \ {p}
    /\ UNCHANGED <<now, db, state, lost, sets, newest>>

\* MDBX_SET_UPPERBOUND: the entries behind the last hash.
After(r) == {e \in Shown(r.type, r.at) : r.last = Blank \/ Precedes(r.last, e)}

\* Mutant: the cursor moves from the end.
PageDescending(S) == {e \in S : Cardinality({f \in S : Precedes(e, f)}) < PageSize}

\* The first PageSize entries of a set.
Page(S) == {e \in S : Cardinality({f \in S : Precedes(f, e)}) < PageSize}

\* One call of s_proc_thread_reader that finds entries: the expired ones at
\* the head of the page are skipped, the others are offered.  A page that is
\* full has no end marker, and the callback returns true.
ReadPage(r) ==
    LET page == Page(After(r))
        fresh == {e \in page : ~TooOld(e[2], Clock(r.at))}
        full == Cardinality(page) = PageSize
    IN  /\ r.type # "GET_ALL"
        /\ page # {}
        /\ net' = IF fresh = {} THEN net
                  ELSE net \cup {Msg("HASHES", r.at, r.to, fresh)}
        /\ readers' = (readers \ {r}) \cup
             (IF full THEN {Turned(r, page)} ELSE {})
        /\ UNCHANGED <<now, db, state, lost, sets, newest>>

\* There is nothing behind the last hash: the group is empty, or its size is
\* a multiple of the page.  A START is answered with a GROUP_REQUEST.
ReadNothing(r) ==
    /\ r.type # "GET_ALL"
    /\ After(r) = {}
    /\ readers' = readers \ {r}
    /\ net' = IF r.type = "GROUP_REQUEST" THEN net
              ELSE net \cup {Msg("GROUP_REQUEST", r.at, r.to, {})}
    /\ UNCHANGED <<now, db, state, lost, sets, newest>>

\* One call of s_msg_opcode_get_all: the caller gets the page and says whether
\* it goes on.  A full page has no end marker (RC_PROGRESS); any other is the
\* last (RC_SUCCESS, or RC_NO_RESULTS when there is nothing).
GetAllPage(r, more) ==
    LET page == IF r.last = Blank /\ Count(r.type, r.at) = 0 THEN {} ELSE Page(After(r))
    IN  /\ r.type = "GET_ALL"
        /\ readers' = (readers \ {r}) \cup
             (IF more /\ Cardinality(page) = PageSize
              THEN {Turned(r, page)} ELSE {})
        /\ UNCHANGED <<now, db, state, net, lost, sets, newest>>

\* Mutant: a key that is there is taken for the record.
MissingKeys(n, data) == {e \in data : db[n][e[1]] = NoRec}

\* dap_global_db_driver_is_hash filters the hashes of a page.
Missing(n, data) == data \ Entries(n)

\* s_process_hashes
Hashes(p) ==
    /\ p.type = "HASHES"
    /\ net' = (net \ {p}) \cup
         (IF Missing(p.to, p.data) = {} THEN {}
          ELSE {Msg("REQUEST", p.to, p.from, Missing(p.to, p.data))})
    /\ UNCHANGED <<now, db, state, readers, lost, sets, newest>>

\* s_process_request: what was replaced meanwhile is not sent.
Request(p) ==
    LET pack == GetByHash(p.to, p.data)
    IN  /\ p.type = "REQUEST"
        /\ net' = (net \ {p}) \cup
             (IF pack = {} THEN {} ELSE {Msg("RECORD_PACK", p.to, p.from, pack)})
        /\ UNCHANGED <<now, db, state, readers, lost, sets, newest>>

\* s_process_records and s_process_record: no key is twice in a pack.
Records(p) ==
    /\ p.type \in {"RECORD_PACK", "GOSSIP"}
    /\ db' = [db EXCEPT ![p.to] = [k \in Keys |->
          IF \E e \in p.data : e[1] = k /\ Wins(p.to, k, e[2])
          THEN (CHOOSE e \in p.data : e[1] = k)[2] ELSE @[k]]]
    /\ net' = net \ {p}
    /\ UNCHANGED <<now, state, readers, lost, sets, newest>>

\* A stream breaks, or HASHES meets a proc-thread queue that is too long.
Lose(p) ==
    /\ lost < MaxLoss
    /\ lost' = lost + 1
    /\ net' = net \ {p}
    /\ UNCHANGED <<now, db, state, readers, sets, newest>>

PacketIn(p) == BeginReader(p) \/ Hashes(p) \/ Request(p) \/ Records(p)

ProcThread(r) == ReadPage(r) \/ ReadNothing(r) \/ \E more \in BOOLEAN : GetAllPage(r, more)

Next ==
    \/ Tick
    \/ \E n \in Nodes, k \in Keys, del \in DelFlags, reached \in Reach :
          Set(n, k, del, reached \ {n})
    \/ \E n \in Nodes : Clean(n) \/ Idle(n) \/ GetAll(n)
    \/ \E n, m \in Nodes : Start(n, m)
    \/ \E p \in net : PacketIn(p) \/ Lose(p)
    \/ \E r \in readers : ProcThread(r)

Spec == Init /\ [][Next]_vars

\* Time passes, the timer fires, the random choice of a link comes to every
\* link again and again, and proc threads serve what is queued.
Fairness ==
    /\ WF_vars(Tick)
    /\ \A n \in Nodes : WF_vars(Idle(n))
    /\ \A n, m \in Nodes : n # m => SF_vars(Start(n, m))
    /\ WF_vars(\E r \in readers : ProcThread(r))
    /\ WF_vars(\E p \in net : PacketIn(p))

FairSpec == Spec /\ Fairness

-----------------------------------------------------------------------------
\* While the records of the group change under a reader, paging passes over
\* no key: one that had a record when the reader began and at every page since,
\* be it replaced meanwhile, and was in no page, has its record behind the last
\* hash.  This goes for the hashes a peer is offered, where deleted records
\* count, and for the pages of dap_global_db_get_all, where they do not
\* (dap_global_db_ch.c, s_proc_thread_reader; dap_global_db.c,
\* s_msg_opcode_get_all).
ReaderCovers ==
    \A r \in readers :
        \A e \in Shown(r.type, r.at) : e[1] \in r.due => e \in After(r)

\* The newest record of a key survives every exchange: however old records
\* travel, some store keeps it until it is expired there.
NewestSurvives ==
    \A k \in Keys : newest[k] # NoRec =>
        \E n \in Nodes : db[n][k] = newest[k] \/ TooOld(newest[k], Clock(n))

\* When writing has ended, the stores come to agree for ever on every record
\* that is expired nowhere, although gossip may reach no one, packets are lost
\* and clocks differ.
Converged ==
    \A n, m \in Nodes, k \in Keys :
        \/ db[n][k] = db[m][k]
        \/ \E r \in {db[n][k], db[m][k]} \ {NoRec}, l \in {n, m} : TooOld(r, Clock(l))

EventuallyConverged == <>[]Converged
=============================================================================
