# A TLA+ verification of the DAP SDK

The DAP SDK is the C library under the Cellframe node: event loops and
processing threads (`io`), encrypted streams between nodes with channels,
clusters and gossip (`net/stream`), clients and a link manager that keep those
streams up (`net/client`, `net/link_manager`), and GlobalDB, a replicated
key/value store on top of them (`global-db`).  This directory holds TLA+ models
of its concurrent and distributed parts, TLC configurations that check them on
small instances, and TLAPS proofs of the results that matter most.  The source
lines every definition stands for are in `PROJECT.json` under `map`.

To check everything: `tlc -config X.cfg M` for each run of `PROJECT.json`, and
`tlapm` on the modules whose name ends in `Proofs`.

## 1. The system and its parts

| Part | State | Operations | Talks to |
|---|---|---|---|
| Processing threads, `io/dap_proc_thread.c` | per thread: a list per priority, a load counter, mutex and condition, exit flag | add a callback to the least loaded thread, pull, run, repeat, stop, clean up | everyone who defers work: GlobalDB, link manager, HTTP |
| Pointer queues, `io/dap_events_socket.c` | a packet pipe, an overflow buffer, a detached thread | send, move the buffer into the pipe, read, call back | every message to a worker |
| Event sockets, contexts, workers, `io/dap_worker.c`, `dap_context.c` | sockets of a worker by uuid, queues of requests | new, assign, reassign, write, delete, delayed delete | streams, HTTP, timers |
| GlobalDB apply path, `global-db/dap_global_db.c` | groups of records, pinned groups, the calls under way | set, delete, receive, pin, clean expired records, drop a group, notify | driver, clusters, gossip |
| GlobalDB synchronisation, `dap_global_db_ch.c`, `dap_global_db_cluster.c` | the sync state of a cluster, readers that page through a group, packets | START, REQUEST, HASHES, RECORD_PACK, GROUP_REQUEST; the sync timer | apply path, streams, processing threads |
| GlobalDB drivers | tables of records ordered by hash | apply, read by key, by hash, by page | apply path, synchronisation |
| Gossip, `dap_stream_ch_gossip.c` | hashes known for a lifetime, with or without payload and trace | issue, HASH, REQUEST, DATA, expiry | clusters, GlobalDB |
| Streams, `dap_stream.c` | list of streams, hashtable of authorized ones, fragments, sequence numbers | create, list, replace, delete, move, read packets, keep alive | clusters, link manager, client, sessions |
| Clusters, `dap_stream_cluster.c` | clusters by id and name, members with roles | create, delete, add and delete members, broadcast | streams, gossip, GlobalDB, link manager |
| Sessions and control, `dap_stream_session.c`, `dap_stream_ctl.c` | sessions by id | create, look up, open, close | streams, HTTP |
| Client, `dap_client*.c` | stage, status, target stage, retries, timers | go to stage, advance, fail, reconnect, delete | HTTP client, streams, link manager |
| Link manager, `dap_link_manager.c` | nets, links with state, attempts and clusters | add, connect, drop, account, timers | client, streams, clusters |
| Servers for HTTP, handshake, CLI, DNS, JSON-RPC | requests, key storage | parse, answer | clients, control |
| Core, crypto, plugins, 3rd party | containers, keys | pure functions and I/O | all |

What makes these parts hard is the same everywhere.  Work is passed between
threads as pointers and callbacks, so a decision is made in one step and carried
out in a later one; locks are released before a result is used; packets between
nodes are lost with their stream and overtake each other in the queues behind
it; clocks differ; and tables that must agree (streams, members, links) are kept
by different files.  `PROJECT.json` lists these hazards at the lines where they
bite, with the properties that cover them.  The correctness properties they lead
to are, by part:

* no deferred callback or pointer is lost, duplicated or overtaken, and no loop
  sleeps with work;
* GlobalDB keeps the newest record of a key whatever order records arrive in,
  only authorised signers write, pinned records outlive restarts, and all nodes
  end with the same store;
* gossip delivers a payload once per lifetime to everyone but its issuer;
* an authorized stream found by address is alive, and streams, members and links
  agree as far as unverified streams let them;
* messages come out of a stream whole, in order and once;
* a client waits for one callback at a time, its owner hears of every round of
  attempts, and a link that is wanted is dialled.

## 2. How the modules fit together

| Modules | Uses | State |
|---|---|---|
| `ProcThread` | | checked, proved |
| `PtrQueue`, implementing `LossyFifo` | | checked, safety and refinement proved |
| `GdbApply`, implementing `GdbStore` | runs the decisions of `GdbRecord` step by step | checked, safety and refinement proved for one thread |
| `GdbSync`, each store implementing `GdbStore` | `GdbRecord`; an apply is one step | checked, safety and refinement proved |
| `Gossip` | | checked, safety proved |
| `StreamTable` | | checked, proved for moves of streams that are alone to their node |
| `StreamRx` | | checked, safety proved, the order for a short rest in the buffer |
| `ClientFsm` and `UplinkServer`, composed by `Uplink`, implementing `ClientService` | | checked, safety and refinement proved |
| `LinkManager` | a client as in `ClientService`, streams of one node as in `StreamTable`, two priorities as in `ProcThread` | checked, safety proved, and that its clients are those of `ClientService` |

## 3. Modules and code

### ProcThread (`io/dap_proc_thread.c`)

`queue[t][p]` and `proc_queue_size[t]` are the lists and the counter of thread
`t`; `pc`, `item` and `item_priority` are the loop's position and its locals;
`signal_exit` is the request of `dap_context_stop_n_kill`; `fate` records what
became of each callback.  `Add` is `dap_proc_thread_callback_add`, with the
choice of the thread by load and the signal on the condition.  The loop is
`Pull`, the wait (with spurious wake-ups), the callback, and the adding again of
one that returned true.  A critical section of `queue_lock` is one step; what
lies between two of them is a step of its own.  `Add` does not ask whether the
thread has stopped, so a callback may join a list nobody reads any more; the code
ignores the result of locking the mutex, destroyed by then, and so does the model.

### PtrQueue and LossyFifo (`io/dap_events_socket.c`, `io/dap_context.c`)

The queue workers are addressed through, in the pipe build of Linux.  `Send` is
`s_add_ptr_to_buf`; the detached thread of `s_dap_events_socket_buf_thread`
writes all, a part, or waits in `select`, and drops the buffer on a time-out or
an error; `Read` takes a packet of the pipe and `Callback` hands out its
pointers.  Pointers are numbered as they are sent.  `LossyFifo` is what users
may rely on: first in, first out, each pointer at most once, and only the newest
pointers can be dropped.  Pointers carry their numbers, so its queue is a set;
`PtrQueue!Abstract` instantiates it with the pointers of the body being read, of
the pipe and of the overflow buffer.

### GdbRecord and GdbApply (`global-db/dap_global_db.c`, driver headers)

`GdbRecord` holds the decision to apply a record: the order of driver hashes,
age and future tests, roles, and rewriting.  A record is a timestamp, a signer
and two flags; the value and CRC64 are abstracted to a number that tells records
apart.  `GdbApply` runs `s_store_obj_apply` as the steps check, write, pin and
tell of a thread, because no lock is held between them, with local sets and
deletes, pin and unpin (`ObjectPin`, with `Unpin` as its last step), records from
peers, the dropping of a group, the cleaner, which reads a page and deletes from
it later, and `CheckPinned`, one copy of `s_check_pinned_db_objs_callback`.
`copy` is the group `local.<group>.pinned`.  `check` says whether its copies are
checked: always, once the timer of `s_set_pinned_timer` runs, which pinning
starts; once, after a restart that finds copies and nothing pinned
(`CheckAtStart`); or never.  With one cluster `s_minimal_ttl` is at most its TTL,
and the model lets any copy be near its expiry, and so be checked, at any time;
the one check after a restart may find it is not and skip it (`SkipPinned`).  A driver
call is one step (one MDBX transaction) and may fail where `DriverMayFail` says
so.  `Restart` stops the node between any two driver calls: the store and the
copies stay, the calls under way and the cleaner's page are gone, and
`s_pinned_objs_group_init` makes the copies that are missing.  The two driver
calls of `s_add_pinned_obj_in_pinned_group` are one step; a stop between them
leaves a copy and an older stamp, which is a state `DropGroup` and a rejected set
lead to as well.  `high` (the newest record ever written) and `told` (what
listeners were last given; a new process begins with its store) are history.

`GdbStore` is what the users of a store may rely on for one key: the records the
key ever had are in the order of their hashes, each was put there by a signer
with the right to, and a record goes only when it has expired or with its group.

### GdbSync (`dap_global_db_ch.c`, `dap_global_db_cluster.c`, MDBX paging)

Each node has a store and a sync state.  `Start` is the sync timer choosing a
link, the packets are members of `net`, and a reader is the callback that pages
through the hashes of a group from the last hash it sent, one page per action.
`GetAll` is a local caller of `dap_global_db_get_all`, whose callback pages
through the records that are not deleted in the same way and ends when the caller
has had enough.  `due`, the keys a reader has still to come to, is history.
Applying a record is atomic here, and what a store does with its keys is again
what `GdbStore` says (see section 5).  `KeyRank` is the part of the CRC64 that comes
from the key; it is injective, that is, two records of a group have different
hashes.  `net` is a set, so packets overtake one
another and a packet can be lost; this stands for the stream and for the queue
of the processing thread behind it.

### Gossip (`dap_stream_ch_gossip.c`)

`table[n][h]` is the item of hash `h` in `s_gossip_last_msgs` of node `n`.
`Issue` and the announcement after it are separate steps, since the lock is
released between them; the handlers of HASH, REQUEST and DATA are one step each,
with the broadcast they make.  `Members`, `Knows` and `Links` may differ from
node to node.  `Header` stands for the first bytes of a message header read as a
hash.  `calls` is the history of deliveries.

### StreamTable (`dap_stream.c`, parts of the link manager, cluster and client)

`list` is `s_streams`, `table` is `s_authorized_streams`, `primary` the flag,
`members` the global cluster and `link` the direction the link manager has been
told.  A stream of the server has an address only if it is authorized; one of a
client has the address that was dialled, authorized or not
(`dap_client_pvt.c:532`), and is listed without entering the hashtable if it is
not.  `ServerNew`, `ClientNew`, `TargetReached`, `Delete`, `Unassign` and
`Assign` are the callers of `dap_stream_add_to_list` and
`s_stream_delete_from_list`.  `HASH_DEL` of a stream that is not in the
hashtable is undefined: the model lets it do nothing or give up the hashtable,
which are the outcomes of uthash with stale links.  A stream that was freed in
the hashtable may be found there or not (`Found`).  A stream of `Movable` moves,
when it is listed, and is not deleted while it moves; the link manager is
active; the session, channels and socket that `dap_stream_delete_unsafe` frees
are left out.

### ClientFsm, UplinkServer, Uplink and ClientService (`net/client`, `dap_stream_ctl.c`, `dap_enc_ks.c`, `dap_stream_session.c`)

`ClientFsm` is the client with the HTTP requests it makes.  All of it runs on the
client's worker, one callback at a time, so a callback is one step, written as an
operator from a client to the set of clients it can leave behind: the stages it
walks through synchronously are unrolled, and `connect()` or the making of a key
may fail at once.  `queue` holds what the owner asked of the worker.  The HTTP
sockets are kept after the client gave them up, until the worker deletes them,
because that is where late callbacks would come from.  `UplinkServer` has the key
storage and the session table.  `Uplink` composes the two: an answer may be late,
refused, wrong or lost, the server may close a stream at any time.
`ClientService` is what an owner may rely on: at rest, trying, up, failed or
gone, and which callback may follow which.  The owners in the repository ask for
STAGE_BEGIN and STAGE_STREAM_STREAMING only, and so does the model.  An owner makes
no call after `dap_client_delete`, as its only caller, `s_link_delete`, makes
none; it runs on another thread than the client's worker, so the deletion is
always queued.  `fcntl` on the new socket does not fail.  `due`, the packets
written and not cleared, is history.  The key storage has no lock
(`dap_enc_ks.c:70`); the requests of the one client come one after another, so
its races between clients are outside the model.  Of the HTTP server only the
ways in which a request is answered are kept (`ServerAnswers`).

### StreamRx (`dap_stream.c`, `dap_stream_pkt.c`, `dap_stream_ch_pkt.c`)

One direction of a stream.  `wire` is the sequence of packets written, each on a
range of bytes; the input buffer is the range `lo..hi-1`.  `Recv` is any cut TCP
makes; `Read` handles one packet of the buffer and at the end shortens the buffer
by the sum of the sizes handled, as `dap_stream_data_proc_read` and its callers
do.  `frag` is `buf_fragments`, `last` is `client_last_seq_id_packet`.  `junk` is
what the HTTP reply left in front of the first packet.  Control packets are
keep-alives: nothing writes `STREAM_PKT_TYPE_SERVICE_PACKET`.

### LinkManager (`dap_link_manager.c`, members of `dap_stream_cluster.c`)

`node[a]` is the link to node `a` with its client and its clusters, `high` and
`normal` the requests queued for the processing thread.  A handler holds
`links_lock` from its first to its last access and is one step, with two
exceptions.

* One that makes the node a member of clusters (`joins`) goes on in `Joins`:
  `dap_cluster_member_add` puts the member into the hashtable (`HashAdd`), releases
  `members_lock` and calls `dap_link_manager_add_links_cluster` (`AddCallback`).
  Other handlers wait meanwhile (`Unlocked`).
* `dap_link_manager_set_net_condition(FALSE)` clears the flag (`NetOff`), deletes the
  members of one cluster after the other without the lock (`ClusterOff`), and takes
  the lock for the links (`NetLeft`).  So it comes between `HashAdd` and
  `AddCallback`, which then reads a freed member and may list a cluster the node is
  not in; `stale` remembers these.

`s_client_connected_callback` takes no lock either and is a step of the client's
worker.  A broken stream makes the client call its error callback first and
delete the stream after, which is the order of the requests queued
(`ClientBreaks`).  `dap_client_delete` queues the deletion and the link is freed at
once: until the worker comes to it (`orphan`) the client may make a last callback,
one at most in the model; what it writes to the freed link is lost.  Its stream
ends before that of the next client comes up (a guard of `ClientConnected` that
the code does not have); streams the other side made may end at any time.  The
statuses of a link's static clusters are read together, and appending to and
removing from a list are atomic.  Assertions are compiled out
(`cmake/OS_Detection.cmake:222`), so the one at `dap_link_manager.c:1102` stops
nothing.  What the nets do in their callbacks is outside the repository and left
to chance: `fill_net_info` may be answered by `dap_link_manager_link_update` at any
time or never (`LinkUpdateCalled`).  Nets are fixed and `always_reconnect` is off,
as the link manager leaves it.

## 4. Runs

| Run | Instance | What it shows |
|---|---|---|
| `proc_thread` | 2 threads, 3 callbacks, 2 priorities, repeats for ever allowed | nothing lost or duplicated, exact counter, no sleep with work; a stopped thread ends and the highest priority is always reached |
| `ptr_queue` | pipe of 1 packet, 2 pointers a write, capacity step 4, 9 sends | FIFO, one buffer thread, no overflow; implements `LossyFifo`; every pointer is handled or dropped |
| `gdb_apply` | 1 key, 1 thread, 3 signers, TTL 2, 5 ticks, failing driver, 1 restart | last writer wins; implements `GdbStore`: records only in the order of their hashes, by signers with the right to; the cleaner removes only expired records |
| `gdb_pins` | sets, pins and unpins, check of the copies, 1 restart, driver that does not fail | pinned records have a copy and are watched, a lost one comes back while the timer runs; listeners have the stored record, unless it is pinned |
| `gdb_sync` | 2 nodes, 2 keys, pages of 1, 2 sets or deletes, expiry, one loss, one clock ahead | paging, for peers and for local callers, passes over no key; the newest record is never displaced everywhere; the stores become equal |
| `gossip` | 4 nodes that disagree about the cluster, loss, delay, expiry | one delivery per lifetime, none to the issuer; messages travel only along hops both ends accept |
| `gossip_spread` | 4 nodes in a cycle, no loss | no node twice in a trace; everyone is told |
| `stream_table` | 6 streams: 3 to one node and 1 that claims to be, 1 to another node, 1 without address; the last two move | hashtable, members, links and list agree, as far as the unverified stream lets them |
| `uplink` | 1 client, 2 HTTP sockets at a time, 2 attempts, 2 ids, 3 calls of the owner, with and without `always_reconnect` | one pending callback, no late one, handshake and session fit, no packet lost, doubled or overtaken before it is on the channel; implements `ClientService`; every round of attempts ends |
| `stream_rx` | 3 messages, short or of 2 or 3 fragments, 1 control packet, rest of 0, 1 or 6 bytes, every cut | whole messages; behind a short rest in order, each once, none lost |
| `link_manager` | 1 node, 1 net with 2 clusters, 2 streams, 1 attempt, 3 calls from outside | clusters and members agree, except where a net is switched off inside `dap_cluster_member_add`; the client is asked in step with the state; a wanted link is dialled unless the net never answers |
| `gdb_race` | 2 threads, no pins | violation: see below |

In `gossip`, node `b` does not take the issuer for a member, so that the requests
to other links are made, and `d` does not know the cluster although the others
count it as a member.  The runs that check safety and liveness together use no
symmetry.

A pinned record is excepted from `ListenersCurrent` because
`s_add_pinned_obj_in_pinned_group` stamps the record anew and tells nobody
(`dap_global_db.c:1916`).  `PinnedHasCopy` needs a driver that does not fail: a
set without the flag deletes the copy even when its own write failed.
`PinnedRestored` holds only while the timer runs.  Pinning starts it, and so does
a restart that finds a pinned record (`dap_global_db.c:1920`); a restart that finds
none checks the copies once, after five minutes (`:1958`), and passes over those
that are not about to expire (`:1817`).  So when the group is dropped and the node
restarted, a record may stay lost though its copy is there.

The successor of a primary stream is chosen by address alone, so an unverified
stream can enter the hashtable, and it stays there when it is freed, because an
unauthorized stream is not taken out.  The properties of `stream_table` say what
is left then.  `TableAlive`: only such a stream can be dangling.  `MembersInTable`
and the first half of `LinkDirection`: members, hashtable and links agree until it
is freed there.  `NodeReachable`: an authorized stream always has an entry at its
address, though perhaps that one.  The second half of `LinkDirection`: the direction
is that of the primary stream until an unverified one is listed, since from then
on the deletion of a secondary stream may report the unverified one's.

`ClustersAgree` excepts the clusters in `stale`: they are listed without a member,
for good, and the assertion of `s_link_delete` that the list is empty would fail.
That a node without a link is in no cluster, and that a member is listed once its
callback is made, holds for these too.

`Settles` has two exceptions, called `Stranded`: an HTTP request whose `connect()`
succeeded at once is given to no worker and has no timer, and a stage that cannot
start (no address, no key, no socket) sets the status ERROR and calls nobody.
`DeliveredInOrder` and `EveryMessageDelivered` are stated for a rest in the
buffer that is shorter than the smallest packet (see the disagreements below).

Bounds.  Each is as small as lets the hard case happen.  Two threads and three
callbacks allow an add between pull and wait with another callback held.  Nine
sends fill pipe and buffer, grow the buffer, drain it below half and start
again, so that the capacity is both raised and cut.  Five ticks with a TTL of
two let a record be written, deleted, cleaned and offered again by a peer.
Pages of one hash with two keys put a record that is added or expires before, at
and behind the last hash.  With a third set (`MaxSets = 3`, `MaxLoss = 0`,
`Spec` and the two invariants only: 4,949,104 states, three minutes) a record is
also replaced under a reader that has passed the other key, and the invariants
hold there too.  Three streams to one node are needed for a replacement that is
itself replaced.  Two sockets let an old request linger beside the current one,
two attempts make a failure that is reported and one that is not, and three
calls are enough to ask, go back and write in between.  Fragmented messages of
two and three pieces have no, and one, middle fragment; a rest of six bytes
covers a control packet and a short one.  Two clusters tell the main cluster of
a net from an associated one, two streams a primary from a secondary, and a queue
of three holds the drop and the two reports of a broken stream.  Every
bound is a named constant and limits the environment (sends, ticks, writes,
losses, calls, restarts), never a reaction of the code.  `MaxLoad` in `GdbSync`
keeps the timer from starting a round, and callers from reading a group, while
that many packets and readers are under way; `MaxQueue` and `MaxAsks` in
`LinkManager` keep streams, clients and the timer from reporting faster than the
processing thread and the worker run.

Deadlock is not checked where bounded environments end: all sends made, time
over, all streams freed, all calls of an owner made.

### Fairness

* `ProcThread`: weak fairness of each loop.  The kernel schedules the thread and
  callbacks return; adds, stop requests and wake-ups without a signal owe nothing.
* `PtrQueue`: weak fairness of the reader, of its callback and of the buffer
  thread, which run in loops of their own.  Sends, errors and time-outs owe nothing.
* `GdbApply` (`gdb_pins`): weak fairness of a thread that is in the apply path;
  strong fairness of the check of each copy while the timer of `s_set_pinned_timer`
  runs, because it queues that check again and again, every copy comes to be near
  its expiry and the queue of a processing thread is worked off.  Nothing is
  assumed of the one check after a restart without pinned records.  Requests, the
  clock, the cleaner and restarts owe nothing.
* `GdbSync`: weak fairness of time, of the timer's return to idle, of processing
  threads and of packets; strong fairness of starting a round with each link,
  because the timer picks a random link each time and so meets each link again
  and again.  Losses are bounded; sets owe nothing.
* `Gossip`: weak fairness of delivery and of the announcement after an issue, only
  in the run without loss.
* `Uplink`: weak fairness of the client's worker: its queue, its timers (the
  time-out of a request, of the connected stream, the reconnect timer) and its
  deletion of closed sockets.  Nothing is assumed of network, server and owner.
* `StreamRx`: weak fairness of the arrival of all that was written, which TCP
  owes, and of the worker's read callback.
* `LinkManager`: weak fairness of the two queues, of the timer, of the passing of
  a delay, of queued updates, of requests to a client, of a deleted client's end, of
  the handler that adds members and of the steps of switching a net off.  Streams,
  peers and nets owe nothing, not even the answer to `fill_net_info`.

### The run that ends in a violation

`gdb_race` checks the statement that an older record is not applied.  With two
threads in the apply path both compare with the same record and the older object
is written last; `findings` in `PROJECT.json` quotes the lines.  This bounds what
can be proved: `NewestKept` is a property of one applying thread.

### Disagreements without a run

More places where code and comment differ, or where the code does what a reader
would not expect, were met while modelling.  The models follow the code.

* GlobalDB.  A set with the pin flag is stored though the apply path rejected it:
  `s_set_sync_with_ts` goes on to `s_add_pinned_obj_in_pinned_group`
  (`dap_global_db.c:1010`), which writes the object (`:1916`), while the log line
  at `:330` says it is rejected.  A pinned record is replaced by a delete
  (`:1387`), while `dap_global_db_driver.h:52` lets it go only after its flag is
  cleared.  The role DEFAULT is compared as a number and passes every test
  (`:327`), while `dap_global_db_cluster.h:42` makes it stand for the preset role.
  The check of the copies gives the name of the pinned group where that of the
  source group is expected (`:1835`), so the copy of a deleted record stays,
  against its own log line at `:1834`, and sets the record again once the
  tombstone has expired.  A pass of the cleaner reads each page again from the
  time it began with (`:1731`), so a record that is pinned and has expired, or
  that expires at just that time, is read for ever.  `dap_global_db_get_all_raw`
  takes a group name that was copied for one that was not (`:927`) and always
  returns `DAP_GLOBAL_DB_RC_CRITICAL`, so only `dap_global_db_get_all` is modelled.
* Gossip.  A request to another link carries bytes of the header instead of the
  hash (`dap_stream_ch_gossip.c:271`, comment at `:269`).
* Streams.  The replacement of a primary stream is chosen by address alone
  (`dap_stream.c:976`), while the table is one of authorized streams (`:78`).  The
  flag `primary` of a stream that is taken off the list stays set (`:974`); a
  stream that moves to another worker is listed again behind its replacement and
  then removed from the hashtable a second time, while `:1144` takes it for an
  error that a member has no stream there.  Broadcast takes the lock of the
  members and then that of the streams (`dap_stream_cluster.c:253`), deletion of
  a stream the other way round (`dap_stream.c:963`).
* Reading.  The client is in stage STREAMING before the HTTP reply of the stream
  is read, so the reply stays in the input buffer (`dap_client_pvt.c:1246`).
  `dap_stream_data_proc_read` passes over it on every call and counts only the
  packets it handled (`dap_stream.c:693`); behind a rest longer than a packet the
  end of one read is read again by the next.  The check of sequence numbers then
  drops the repetition or delivers it again (`:856`); fragments still never mix.
* HTTP client.  The time-out of an answer compares seconds with the setting in
  milliseconds (`dap_client_http.c:265`), so an answer of which a part was read is
  waited for a thousand times as long as `timeout_read_after_connect` says.
* Client.  A request made while another is under way begins at STAGE_BEGIN and
  stays there, while the log line says that the chain of stages starts from there
  (`dap_client.c:282`).  A write with `connect_on_demand` does the same (`:138`),
  against "Automatically connect with writing request" (`dap_client.h:90`).
* Link manager.  Accounting is queued at normal priority and a deleted stream at
  high, so a node can join a cluster when its last stream has gone, against the
  comment at `dap_link_manager.c:1150`; the assertion at `:1102` can be met with
  a net that was switched off meanwhile, and that in `s_link_delete` with a cluster
  that is listed without a member; a deleted client may call back with the freed
  link (`:623`, `:641`); a late `s_client_connected_callback`
  makes ESTABLISHED of DISCONNECTED; a client that fails without a callback
  leaves its link in CONNECTING (`:541`); a static role given to a node that
  dialled us gets no client (`:1203`); links are deleted under a read lock
  (`:708`); `dap_link_manager_add_net` can return with `nets_lock` held (`:340`).

## 5. Proofs

Each proof module states an inductive invariant, that it holds initially, that
every action keeps it, and that it implies the properties.  The assumptions are
the `ASSUME`s of the modules (types and signs of the constants), which TLC
evaluates in the runs, and the hypotheses named here.  Leaves go to Zenon by
default and name the SMT solver where they need arithmetic: its translation of an
obligation slows down with the number of those before it, so that a long module
with every leaf sent there ends in time-outs.

* `ProcThreadProofs!ProcThreadSafety`: `TypeOK`, `CounterExact`,
  `CalledItemHeld`, `NoSleepWithWork` for any threads, callbacks and number of
  priorities.  The counter is compared with the cardinality of the set of queue
  places, so the invariant adds that this set is finite (`FinitePlaces`).
  `CallbacksConserved`: `Conservation`.  The invariant says where a callback is
  instead of counting: lists have no repetition and no callback in common
  (`Listed`), a loop holds a callback only between its pull and its end, and no
  two hold the same (`Holding`); the cardinalities follow.
* `PtrQueueProofs!PtrQueueSafety`: `TypeOK`, `Fifo`, `OneBufThread`, `BufFits` for
  any pipe, write and buffer sizes.  Needed besides: every pointer in the queue was
  sent (`SentOnly`), so that the next one is larger, and the capacity never falls
  below one allocation step (`CapacityFloor`), so that the unchecked first store
  of a burst fits.  `PtrQueueIsLossyFifo`: the refinement of `LossyFifo`.  A send
  is `Put`, with or without the pointer; the callback is `Take`, because `Fifo`
  makes the pointer handed out the least of the queue; a time-out or an error of
  the buffer thread is `Drop`, because what is in the buffer is larger than what
  is in the pipe; moving pointers from the buffer to the pipe and reading a packet
  change nothing.
* `GdbApplyProofs!TypeCorrect` (any threads, pins, failures, restarts),
  `LastWriterWins` (`NewestKept`, and `WritersOnly`: every record was signed by
  somebody with write access) and `StoreKeepsPromise`, the last two for one
  thread and no pins (`OneThread`, `NoPinCallers`).  The core of the invariant is
  `CleanedExpired`: a key without a record either never had one or its newest
  record had expired.  That is why a record a tombstone superseded cannot return
  after the cleaner removed the tombstone.  `WriteIsNewest` and `WriteAuthorised`
  carry the decision of the check step to the write step; `PageExpired` does the
  same for the cleaner.  `StoreKeepsPromise` is the refinement of `GdbStore` for
  every key (`ImplementsStore`): the write step is `Take`, the second step of the
  cleaner `Expire`, the dropping of the group `Drop`, and nothing else is seen.
* `GdbApplyProofs!PinsHaveCopies`: `PinnedHasCopy` with pins, for one thread and a
  driver that does not fail, through any number of restarts.  The property speaks
  of idle threads; the invariant says that the thread which wrote a pinned record
  is about to copy it and start the timer (`CopiedSoon`), and that until it leaves the path the store
  has no other flag than the one it wrote (`PinAsWritten`), so that a copy is
  removed only for a record that is not pinned.
* `GdbApplyProofs!ListenersAreCurrent`: `ListenersCurrent` under the same
  hypotheses.  A live record that is not pinned was told or is about to be by the
  thread that wrote it (`ToldSoon`), and nothing but a pinned object is written
  between the write and the telling (`AsWritten`).
* `GdbApplyProofs!CleanerTakesExpired`: the action property `OnlyExpiredCleaned`
  for one thread, with pins, restarts and a failing driver.  The cleaner deletes by
  the hash it read earlier, so what matters is that nothing with that hash comes
  back meanwhile: the records of its page stay expired, what was admitted since is
  not, and an object on its way to be written is not one of the page (`PageStale`,
  `WriteDiffers`).
* `GdbSyncProofs!PagingCovers` (`ReaderCovers`) and `NewestRecordSurvives`
  (`NewestSurvives`) for any nodes, keys, page size, TTL, skew, writes and losses.
  For the first, hash order is shown to be a strict total order on the records of a
  group (timestamp, CRC, key), so that the last hash of a full page is its largest
  and what is behind a reader is well defined.  The invariant `CoverOK` is on the
  keys a reader has still to come to: such a key has its record behind the last
  hash, or it has none, and then the last hash is too old for anything a store
  still admits to come before it.  The second half is what makes it inductive: a
  record may be cleaned and its key be written again while the reader waits.  For
  the second theorem the invariant follows what travels: every record in a store or
  a packet was written, and none is newer than the newest written under its key
  (`StoreOK`, `NetOK`), so whichever store has the newest replaces it by nothing
  until it is too old by that store's clock (`Survives`).
* `GdbSyncProofs!StoresKeepPromise`: every store of the cluster implements
  `GdbStore` for every key, with `past`, the last record that was under the key, as
  history.  A set and a record taken from a pack are `Take`, the cleaner is
  `Expire`; a group is never dropped.  A record that a peer still offers after this
  node has cleaned it is refused: by this node's clock, which does not go back, it
  has expired as it had then (`PastOK`).  Together with `StoreKeepsPromise` this says what the single step of
  `GdbSync` and the several steps of `GdbApply` have in common.
* `GossipProofs!GossipDelivery` (`DeliveriesSpaced`, `OriginNotTold`) and
  `GossipPaths` (`TraceIsPath`) for any nodes, links, opinions about the
  membership, lifetimes, loss and delay.  `Apart` relates the last delivery to the
  item of the payload, or to its absence; `Rooted` follows the issuer through the
  traces; `Routed` says what a packet under way knows of its two ends.  The step is
  proved on one cell of the table: kept, dropped, started or given its payload.
  `GossipTraces`: `TraceSimple` as long as the clock has not passed `Lifetime`, the
  time in which no item can have expired, for any loss and delay.  The nodes of a
  trace have the payload (`Visited`) and take no second one.  Later a node may have
  forgotten a message and be visited again, so the hypothesis is needed.
* `LinkProofs!StreamTableSafety`: all properties of `StreamTable` for any
  streams, verified or not, and nodes, if a stream that moves is the only one to its
  node (`MovesAlone`), as in the instance of `stream_table`.  The invariant adds that
  the list holds exactly the listed streams, each once (`ListInv`), that an authorized
  stream which is listed and primary is the one in the hashtable (`PrimaryInv`), and
  that the stream in the hashtable is the first of its node in the list as long as
  only verified ones were listed (`FirstInv`).  The last is why deleting a secondary
  stream tells the link manager about the right one: the successor found by the
  search is the primary stream itself.
* `StreamRxProofs!RxInOrder` and `RxWhole`: `DeliveredInOrder` and `WholeMessages`
  for any sizes, numbers of messages and fragments, and any cut.  Behind a short
  rest, the one `DeliveredInOrder` speaks of, the reader has handled a prefix of the
  packets written: deliveries, last sequence number and `buf_fragments` are
  functions of that prefix, and the buffer begins as many bytes before its end as
  there were before the first packet (`Placed`).  Behind a longer rest packets are
  handled again, and `WholeMessages` needs another reason.  The bytes counted lag
  behind the packets handled by less than a full fragment (`LagOK`, from the
  assumption that the rest, a reply header, is shorter than the 16 KiB of one), so
  the reader goes back by less than that, while a further fragment of another
  message ends at least one full fragment after the last packet of this one.  So a
  fragment that is read again never continues `buf_fragments` of another message
  (`FragOK`).
* `UplinkProofs!UplinkSafety` (`WaitsOnOne`, `NoLateCallback`, `PacketsInOrder`)
  and `UplinkImplements` (the refinement of `ClientService`) for any sockets,
  attempts and calls, whatever network and server do.  A callback is an operator
  on a client, so the invariant is a predicate of one client, `ClientOK`: its
  record has one of six shapes (at rest, waiting for the timer, an answer or the
  stream, streaming, stopped).  It adds that the socket of the current request has
  not called back and that a client in its first attempt has said nothing.
  `PacketsInOrder` adds the worker's queue: the packets in it are newer than those
  the client has, in order (`Numbered`), and together with these they are the
  packets written and not cleared (`Kept`), so that a clean-up which dropped
  `pkt_queue` would break it.
  `UplinkHandshake`: `HandshakeAccepted`.  `Hands` relates client and server: the
  ids the client asks with, and the one in an answer it has not read, are in the key
  storage or name a session nobody has opened.  What a step of the client can do to
  these ids is summed up in `Moves`, one lemma for each callback.
* `LinkProofs!LinksSound`: `ClustersAgree` and `StateMatchesAsk` for any
  nodes, nets and clusters, with nets switched off at any step, inside
  `dap_cluster_member_add` too.  Handlers are operators on a link, with one lemma each
  on `LinkOK`.  It adds `Idle`: a link without a client is DISCONNECTED and has no
  request left, so that a client it is given later starts in step.
  `ClientsServe`: the client of each link behaves as `ClientService` says of one
  that does not reconnect for ever, a client that goes with its link being one that
  goes back to rest.  `UplinkImplements` shows the same of `dap_client`, so both
  models speak of one client; that the link manager's lets everything happen that
  `dap_client` does is not shown.

The hypothesis of `StreamTableSafety` is needed: let the streams of `n1` move and
TLC finds the second `HASH_DEL`, after which a member has no stream in the
hashtable.

Where an argument goes by induction over packets or hashes it uses that a set of
natural numbers has a least element (`Least` in `StreamRxProofs` and
`GdbSyncProofs`), from the well-foundedness theorems of the library.

Only model-checked: the liveness properties (`StopTerminates`, `HighestServed`,
`EveryPtrHandled`, `PinnedRestored`, `EventuallyConverged`, `EveryoneTold`,
`Settles`, `EveryMessageDelivered`, `WokenUp`), since fairness and ENABLED are
out of the reach of the proof system.  Every safety property of a passing run
has a theorem, under the hypotheses named above.

## 6. Not modelled

* The worker's loop (`dap_worker.c`): polling and the dispatch of its events are
  operating-system I/O.  Its queues are `PtrQueue`s.  The moving of a socket to
  another worker and the delayed delete have no caller in the repository.
* The life of clusters (creation, lookup, deletion) and the order of the locks of
  clusters, members and streams: critical sections are single steps here, and
  clusters are made once at start.
* In GlobalDB the queue of requests in front of the calls, transactions of several
  objects (committed by the result of the last, `dap_global_db.c:1106`; a pack with
  one bad object is dropped, `dap_global_db_ch.c:258`; `GdbSync` applies records one by
  one, which is exact for its pages of one), flush,
  the loop of the cleaner over pages, and several groups in one synchronisation.
* Adding and removing nets, the ranking of nodes and the balance of link counts in
  the link manager.
* The kqueue and Windows builds; memory exhaustion; the byte layout of packets and
  records; cryptography (a signature is the identity of its signer); the SQL
  drivers; parsing and formatting in the HTTP, CLI, DNS and JSON-RPC servers and
  redirects of the HTTP client; plugins, which are loaded once at start.
