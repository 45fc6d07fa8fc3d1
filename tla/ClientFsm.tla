----------------------------- MODULE ClientFsm -----------------------------
(***************************************************************************)
(* The client of an uplink (dap_client.c, dap_client_pvt.c) with the HTTP  *)
(* requests it makes (dap_client_http.c).  Everything below the worker     *)
(* queue runs on the client's own worker, one callback at a time, so a     *)
(* callback is one step: it is written as an operator from the client `c'  *)
(* to the set of clients it can leave behind (a connect() or a key         *)
(* generation may fail at once).  The chain of stages the callbacks walk   *)
(* synchronously is unrolled, stage by stage.                              *)
(*                                                                         *)
(* Fields of a client c:                                                   *)
(*   stage, status, target  stage, stage_status, client->stage_target      *)
(*   attempts               reconnect_attempts                             *)
(*   timer                  reconnect_timer # NULL                         *)
(*   http                   http_client: one of Socks, or 0                *)
(*   sock                   the HTTP sockets the worker holds for it       *)
(*   stream                 the stream object and its socket               *)
(*   heard, watch           something was read from the stream socket;     *)
(*                          the timer of s_stream_connected still runs     *)
(*   key, sid               session_key(_id); stream_id and stream_key     *)
(*   pkts, sent             pkt_queue; packets given to the channel        *)
(*   said                   the callback made last since it was asked      *)
(*   alive                  not freed                                      *)
(*                                                                         *)
(* An HTTP socket: `called' is were_callbacks_called, `req' the KeyID the  *)
(* request carries (0: enc_init), `rep' what the server answered.  A       *)
(* socket "orphan" is one whose connect() succeeded at once: it is given   *)
(* to no worker and has no timer.  A socket that has been told to close    *)
(* (DAP_SOCK_SIGNAL_CLOSE) stays until the worker deletes it.  The timers  *)
(* of a socket find it by uuid, so they are gone when it is gone.          *)
(*                                                                         *)
(* The stages an owner asks for are STAGE_BEGIN and STAGE_STREAM_STREAMING *)
(* (the link manager and the stream test ask for no other).                *)
(***************************************************************************)
EXTENDS Integers, Sequences, FiniteSets, Functions

CONSTANTS
    Socks,              \* HTTP sockets the worker can hold at a time
    s_max_attempts,     \* dap_client.max_tries
    AlwaysReconnect,    \* values of always_reconnect considered
    MaxOps              \* bound: calls of the owner before delete

ASSUME ClientAssumption ==
    /\ Socks \subseteq Nat \ {0}
    /\ s_max_attempts \in Nat \ {0}
    /\ AlwaysReconnect \subseteq BOOLEAN
    /\ MaxOps \in Nat

STAGE_BEGIN == 0
STAGE_ENC_INIT == 1
STAGE_STREAM_CTL == 2
STAGE_STREAM_SESSION == 3
STAGE_STREAM_CONNECTED == 4
STAGE_STREAM_STREAMING == 5

NoReply == -1       \* the server has not answered
BadReply == -2      \* an answer the client cannot use

FreeSock == [phase |-> "free", called |-> FALSE, req |-> 0, rep |-> NoReply]

FreeSocks(c) == {i \in Socks : c.sock[i].phase = "free"}

(***************************************************************************)
(* Cleaning and failing                                                    *)
(***************************************************************************)
\* dap_client_http_close_unsafe: no callback is made any more.
CloseHttp(c) ==
    IF c.http = 0 THEN c
    ELSE [c EXCEPT !.sock[c.http] = FreeSock, !.http = 0]

\* Mutant: the reconnect timer is left running.
CleanKeepsTimer(c) ==
    [CloseHttp(c) EXCEPT
        !.sid = IF c.stream = "none" THEN @ ELSE 0,
        !.stream = "none",
        !.heard = FALSE,
        !.watch = FALSE,
        !.key = 0,
        !.stage = STAGE_BEGIN,
        !.status = "COMPLETE"]

\* Mutant: the packets that wait are dropped with everything else.
CleanDropsPkts(c) ==
    [CloseHttp(c) EXCEPT
        !.timer = FALSE,
        !.sid = IF c.stream = "none" THEN @ ELSE 0,
        !.stream = "none",
        !.heard = FALSE,
        !.watch = FALSE,
        !.key = 0,
        !.pkts = <<>>,
        !.stage = STAGE_BEGIN,
        !.status = "COMPLETE"]

\* stream_id and stream_key are dropped only together with a stream; the
\* packets that wait in pkt_queue are kept.
Clean(c) ==
    [CloseHttp(c) EXCEPT
        !.timer = FALSE,
        !.sid = IF c.stream = "none" THEN @ ELSE 0,
        !.stream = "none",
        !.heard = FALSE,
        !.watch = FALSE,
        !.key = 0,
        !.stage = STAGE_BEGIN,
        !.status = "COMPLETE"]

LastAttempt(c) == c.attempts >= s_max_attempts

\* Mutant: the attempts are not counted.
FailedUncounted(c) ==
    [Clean(c) EXCEPT
        !.stage = STAGE_ENC_INIT,
        !.status = "IN_PROGRESS",
        !.timer = TRUE,
        !.said = IF c.attempts = 0 THEN "error" ELSE c.said]

\* Mutant: the count starts again at 0 after the last attempt, so that the
\* next failure is reported as a first one.
FailedRestarts(c) ==
    LET said == IF LastAttempt(c) THEN "last"
                ELSE IF c.attempts = 0 THEN "error"
                ELSE c.said
    IN  IF LastAttempt(c) /\ ~c.always
        THEN [c EXCEPT !.status = "ERROR", !.said = said, !.attempts = @ + 1]
        ELSE [Clean(c) EXCEPT
                !.stage = STAGE_ENC_INIT,
                !.status = "IN_PROGRESS",
                !.timer = TRUE,
                !.said = said,
                !.attempts = IF LastAttempt(c) THEN 0 ELSE c.attempts + 1]

\* The ERROR case of s_stage_status_after: the owner is told of the first
\* and of the last failure; unless this was the last attempt everything is
\* cleaned and the reconnect timer starts the next one.
Failed(c) ==
    LET said == IF LastAttempt(c) THEN "last"
                ELSE IF c.attempts = 0 THEN "error"
                ELSE c.said
        tries == 1 + IF LastAttempt(c) /\ c.always THEN 0 ELSE c.attempts
    IN  IF LastAttempt(c) /\ ~c.always
        THEN [c EXCEPT !.status = "ERROR", !.said = said, !.attempts = tries]
        ELSE [Clean(c) EXCEPT
                !.stage = STAGE_ENC_INIT,
                !.status = "IN_PROGRESS",
                !.timer = TRUE,
                !.said = said,
                !.attempts = tries]

\* status ERROR set on a path that leaves s_stage_status_after without
\* coming to its ERROR case: nothing follows and nobody is told.
FailedSilently(c) == [c EXCEPT !.status = "ERROR"]

(***************************************************************************)
(* The stages                                                              *)
(***************************************************************************)
\* s_stage_fsm_operator_unsafe: assert(stage_target > stage), then the next
\* stage begins.
GoOn(c, Next) == IF c.target > c.stage THEN Next ELSE {[c EXCEPT !.status = "ASSERT"]}

\* dap_client_http_request_custom: the request fails at once (s_request_error
\* forgets the socket first), connects at once, or is on its way.
Request(c, keyid) ==
    {Failed([c EXCEPT !.http = 0])}
    \cup {[c EXCEPT
              !.http = i,
              !.sock[i] = [FreeSock EXCEPT !.phase = ph, !.req = keyid]]
            : i \in {CHOOSE i \in Socks : i \in FreeSocks(c)},
              ph \in {"connecting", "orphan"}}

\* dap_client_pvt_request: no key yet.
PlainRequest(c) == Request(c, 0)

\* dap_client_pvt_request_enc: the header KeyID names the session key.
EncRequest(c) == Request(c, c.key)

BeginEncInit(c) ==
    LET d == [c EXCEPT !.stage = STAGE_ENC_INIT, !.status = "IN_PROGRESS"]
    IN  {FailedSilently(d)} \cup PlainRequest(d)

BeginStreamCtl(c) ==
    EncRequest([c EXCEPT !.stage = STAGE_STREAM_CTL, !.status = "IN_PROGRESS"])

\* socket() fails; the address does not resolve; or the socket is connecting
\* and s_stream_timer_timeout_check watches it.  (fcntl() does not fail on a
\* socket that has just been created.)
BeginSession(c) ==
    LET d == [c EXCEPT !.stage = STAGE_STREAM_SESSION, !.status = "IN_PROGRESS"]
    IN  {FailedSilently(d),
         Failed([d EXCEPT !.stream = "dead"]),
         [d EXCEPT !.stream = "connecting"]}

\* The target is reached: the stream joins the table (see StreamTable), the
\* owner is told, the packets that waited are written in order.
Achieved(c) ==
    [c EXCEPT
        !.status = "COMPLETE",
        !.said = "connected",
        !.sent = @ \o c.pkts,
        !.pkts = <<>>]

BeginStreaming(c) ==
    LET d == [c EXCEPT !.stage = STAGE_STREAM_STREAMING, !.attempts = 0]
    IN  IF d.target = STAGE_STREAM_STREAMING THEN {Achieved(d)} ELSE GoOn(d, {})

\* The channels are created and the GET of the stream is written.
BeginConnected(c) ==
    LET d == [c EXCEPT !.stage = STAGE_STREAM_CONNECTED, !.stream = "up"]
    IN  GoOn(d, BeginStreaming(d))

\* s_stage_status_after for stage BEGIN, whose status COMPLETE ends the chain.
BeginBegin(c) == [Clean(c) EXCEPT !.attempts = 0]

\* s_go_stage_on_client_worker_unsafe.  A client at rest at its target goes on
\* from there; any other is sent back to the beginning and stays there.
GoStage(c, stage) ==
    LET d == [c EXCEPT !.said = "nothing", !.target = stage]
    IN  IF c.status = "COMPLETE" /\ c.stage = c.target /\ c.target <= stage
        THEN IF c.target < stage THEN BeginEncInit(d) ELSE {c}
        ELSE {BeginBegin(d)}

\* dap_client_pvt_queue_add, dap_client_pvt_queue_clear.
QueueAdd(c, pkt) == [c EXCEPT !.pkts = Append(@, pkt)]

QueueClear(c) == [c EXCEPT !.pkts = <<>>]

\* dap_client_pvt_delete_unsafe.
DeleteUnsafe(c) == [Clean(c) EXCEPT !.alive = FALSE]

\* dap_client_write_unsafe, with connect_on_demand set: a packet goes to the
\* channel if there is one and waits in pkt_queue if not; a client that is not
\* on its way to streaming is sent to the beginning.
Write(c, pkt) ==
    IF c.stream = "up" THEN [c EXCEPT !.sent = Append(@, pkt)]
    ELSE LET d == QueueAdd(c, pkt)
         IN  IF c.target = STAGE_STREAM_STREAMING /\ c.status = "IN_PROGRESS" THEN d
             ELSE BeginBegin([d EXCEPT !.target = STAGE_STREAM_STREAMING])

(***************************************************************************)
(* State: the client, the callbacks other threads queued for its worker,   *)
(* and what the owner asked for last.                                      *)
(***************************************************************************)
VARIABLES
    client,     \* the client
    queue,      \* worker->queue_callback, the messages of this client
    owner       \* the owner: last ask, calls so far, is_removing, and the
                \* packets written and not cleared (a history)

cvars == <<client, queue, owner>>

NewClient(always) ==
    [stage |-> STAGE_BEGIN, status |-> "COMPLETE", target |-> STAGE_BEGIN,
     attempts |-> 0, timer |-> FALSE, http |-> 0, sock |-> [i \in Socks |-> FreeSock],
     stream |-> "none", heard |-> FALSE, watch |-> FALSE, key |-> 0, sid |-> 0,
     pkts |-> <<>>, sent |-> <<>>, said |-> "nothing", always |-> always, alive |-> TRUE]

CInit ==
    /\ client \in {NewClient(a) : a \in AlwaysReconnect}
    /\ queue = <<>>
    /\ owner = [last |-> STAGE_BEGIN, ops |-> 0, removing |-> FALSE, due |-> {}]

\* dap_client_go_stage, on any thread.  The owner does not ask for the stream
\* twice in a row: LinkManager's StateMatchesAsk.
AskStage(stage) ==
    /\ ~owner.removing
    /\ owner.ops < MaxOps
    /\ stage = STAGE_STREAM_STREAMING => owner.last # stage
    /\ queue' = Append(queue, <<"go", stage>>)
    /\ owner' = [owner EXCEPT !.last = stage, !.ops = @ + 1]
    /\ UNCHANGED client

\* dap_client_write, on a thread that is not the client's worker.  The owner
\* writes while it wants the stream; packets are numbered as they are written.
AskWrite ==
    /\ ~owner.removing
    /\ owner.last = STAGE_STREAM_STREAMING
    /\ owner.ops < MaxOps
    /\ queue' = Append(queue, <<"write", owner.ops + 1>>)
    /\ owner' = [owner EXCEPT !.ops = @ + 1, !.due = @ \cup {owner.ops + 1}]
    /\ UNCHANGED client

\* dap_client_queue_clear and dap_client_delete, on a thread that is not the
\* client's worker: the one caller of dap_client_delete is the link manager's
\* s_link_delete, run by proc threads and callers of its API.  Deleting is the
\* last call of an owner, who does not use a client it has given away.
AskOther(op) ==
    /\ ~owner.removing
    /\ op = "clear" => owner.ops < MaxOps
    /\ queue' = Append(queue, <<op, 0>>)
    /\ owner' = [owner EXCEPT !.removing = (op = "delete"), !.ops = @ + 1]
    /\ UNCHANGED client

\* The worker runs the callback at the head of its queue.
RunCallback ==
    /\ queue # <<>>
    /\ LET op == Head(queue)[1]
           arg == Head(queue)[2]
       IN  \/ op = "go" /\ FreeSocks(client) # {} /\ client' \in GoStage(client, arg)
           \/ op = "write" /\ client' = Write(client, arg)
           \/ op = "clear" /\ client' = QueueClear(client)
           \/ op = "delete" /\ client' = DeleteUnsafe(client)
    /\ queue' = Tail(queue)
    /\ owner' = [owner EXCEPT
                   !.due = IF Head(queue)[1] = "clear" THEN @ \ Range(client.pkts) ELSE @]

(***************************************************************************)
(* Timers and HTTP callbacks of the worker                                 *)
(***************************************************************************)
\* s_timer_reconnect_callback.
ReconnectTimer ==
    /\ client.timer
    /\ FreeSocks(client) # {}
    /\ client' \in BeginEncInit([client EXCEPT !.timer = FALSE])
    /\ UNCHANGED <<queue, owner>>

\* s_http_connected: the request is written and the read timer started.  (An
\* answer that comes in parts only moves the moment the timer fires.)
HttpConnected(i) ==
    /\ client.sock[i].phase = "connecting"
    /\ client' = [client EXCEPT !.sock[i].phase = "sent"]
    /\ UNCHANGED <<queue, owner>>

\* s_enc_init_error and s_stream_ctl_error: they differ in last_error only.
EncInitError(c) == Failed(c)

StreamCtlError(c) == Failed(c)

\* s_request_error: the socket is forgotten, then the stage's error callback.
RequestError(c) ==
    LET d == [c EXCEPT !.http = 0]
    IN  IF c.stage = STAGE_ENC_INIT THEN EncInitError(d) ELSE StreamCtlError(d)

\* Mutant: were_callbacks_called is not set.
HttpErrorUnmarked(i) ==
    /\ client.sock[i].phase \in {"connecting", "sent"}
    /\ client' = [RequestError(client) EXCEPT !.sock[i].phase = "closing"]
    /\ UNCHANGED <<queue, owner>>

\* s_http_error: refused, reset.  The worker deletes the socket later.
HttpError(i) ==
    /\ client.sock[i].phase \in {"connecting", "sent"}
    /\ client' = [RequestError(client) EXCEPT
                    !.sock[i].phase = "closing", !.sock[i].called = TRUE]
    /\ UNCHANGED <<queue, owner>>

\* A timer of the socket tells the client and deletes the socket.
HttpTimeout(i) ==
    /\ client' = [RequestError(client) EXCEPT !.sock[i] = FreeSock]
    /\ UNCHANGED <<queue, owner>>

\* s_timer_timeout_check.
ConnectTimeout(i) == client.sock[i].phase = "connecting" /\ HttpTimeout(i)

\* s_timer_timeout_after_connected_check.
AnswerTimeout(i) == client.sock[i].phase = "sent" /\ HttpTimeout(i)

\* s_enc_init_response: the answer names the key, or is no good.
EncInitResponse(c, rep) ==
    IF rep > 0
    THEN LET d == [c EXCEPT !.key = rep] IN GoOn(d, BeginStreamCtl(d))
    ELSE {Failed(c)}

\* s_stream_ctl_response: an answer with stream id 0 is no good either.
StreamCtlResponse(c, rep) ==
    IF rep > 0
    THEN LET d == [c EXCEPT !.sid = rep] IN GoOn(d, BeginSession(d))
    ELSE {Failed(c)}

\* s_request_response, for the answer of the request that is being made.
RequestResponse(c, rep) ==
    LET d == [c EXCEPT !.http = 0]
    IN  IF c.stage = STAGE_ENC_INIT THEN EncInitResponse(d, rep)
        ELSE StreamCtlResponse(d, rep)

\* s_http_read with the whole answer `rep': the response callback first, the
\* marks on the socket after it.
HttpResponse(i, rep) ==
    /\ client.sock[i].phase = "sent"
    /\ FreeSocks(client) # {}
    /\ \E c \in RequestResponse(client, rep) :
          client' = [c EXCEPT !.sock[i].phase = "closing", !.sock[i].called = TRUE]
    /\ UNCHANGED <<queue, owner>>

\* The peer closed the connection, or recv()/send() failed: the worker marks
\* the socket for deletion without a callback.
HttpPeerClosed(i) ==
    /\ client.sock[i].phase = "sent"
    /\ client' = [client EXCEPT !.sock[i].phase = "closing"]
    /\ UNCHANGED <<queue, owner>>

\* s_es_delete, when the worker deletes a socket marked for deletion: a
\* request nobody was told about has failed, unless what was read up to here
\* is an answer `rep' without a Content-Length.
HttpDelete(i, rep) ==
    /\ client.sock[i].phase = "closing"
    /\ \E c \in (IF client.sock[i].called THEN {client}
                 ELSE {RequestError(client)}
                      \cup (IF FreeSocks(client) = {} THEN {}
                            ELSE RequestResponse(client, rep))) :
          client' = [c EXCEPT !.sock[i] = FreeSock]
    /\ UNCHANGED <<queue, owner>>

(***************************************************************************)
(* Callbacks of the stream socket                                          *)
(***************************************************************************)
\* s_stream_connected: stages CONNECTED and STREAMING follow at once, then the
\* activity timer is started.
Streams(c) == {[d EXCEPT !.watch = TRUE] : d \in GoOn(c, BeginConnected(c))}

\* s_stream_es_callback_connected
StreamConnected ==
    /\ client.stream = "connecting"
    /\ client' \in Streams(client)
    /\ UNCHANGED <<queue, owner>>

\* s_stream_es_callback_error: the socket is taken from the stream before
\* anything is deleted.
Aborted(c) == Failed([c EXCEPT !.stream = "dead"])

\* It is the same when the socket is deleted (s_stream_es_callback_delete).
StreamError ==
    /\ client.stream \in {"connecting", "up"}
    /\ client' = Aborted(client)
    /\ UNCHANGED <<queue, owner>>

\* s_stream_timer_timeout_check of a socket that is still connecting, and
\* s_stream_timer_timeout_after_connected_check when nothing was ever read.
StreamTimeout ==
    /\ client.stream = "connecting" \/ (client.watch /\ ~client.heard)
    /\ StreamError

\* The same timer when something was read in the last seconds (if it was read
\* earlier the stream is closed all the same: StreamError).
StreamTimerOff ==
    /\ client.watch /\ client.heard
    /\ client' = [client EXCEPT !.watch = FALSE]
    /\ UNCHANGED <<queue, owner>>

\* s_stream_es_callback_read in stage STREAMING (what is read: StreamRx).
StreamRead ==
    /\ client.stream = "up"
    /\ client' = [client EXCEPT !.heard = TRUE]
    /\ UNCHANGED <<queue, owner>>

=============================================================================
