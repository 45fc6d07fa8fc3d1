------------------------------- MODULE Uplink -------------------------------
(***************************************************************************)
(* A client and the server it connects to.  `conn' is the server's view of *)
(* the stream connection the client has up: the GET is on its way          *)
(* ("asked"), the session was opened for it ("open"), it was refused or    *)
(* the server has closed it ("closed").                                    *)
(*                                                                         *)
(* A request whose socket the client has given up may still be handled by  *)
(* the server.  That happens here just before the client gives it up:      *)
(* the handler then only adds or takes entries no later request names.     *)
(***************************************************************************)
EXTENDS ClientFsm, UplinkServer

VARIABLE conn

vars == <<client, queue, owner, keys, sessions, conn>>

\* Ids somebody holds: an id is not drawn twice.
Busy ==
    {client.key, client.sid}
    \cup UNION {{client.sock[i].req, client.sock[i].rep} : i \in Socks}

Init == CInit /\ UInit /\ conn = "none"

\* The connection the server sees is the one the client has.
ConnFollows ==
    conn' = IF client'.stream # "up" THEN "none"
            ELSE IF client.stream # "up" THEN "asked" ELSE conn

ClientStep(A) == A /\ ConnFollows /\ UNCHANGED uvars

\* The server handles the request on socket i.
ServerAnswers(i) ==
    /\ client.sock[i].phase = "sent"
    /\ client.sock[i].rep = NoReply
    /\ \E rep \in Ids \cup {BadReply} :
          /\ IF client.sock[i].req = 0 THEN EncHttpProc(Busy, rep)
             ELSE StreamCtlProc(client.sock[i].req, Busy, BadReply, rep)
          /\ client' = [client EXCEPT !.sock[i].rep = rep]
    /\ UNCHANGED <<queue, owner, conn>>

\* What can be read from socket i: the server's answer, or something else.
Readable(i) == {BadReply} \cup ({client.sock[i].rep} \ {NoReply})

\* The server reads the GET of the stream.
ServerOpens ==
    /\ conn = "asked"
    /\ HeadersRead(client.sid)
    /\ conn' = IF Opens(client.sid) THEN "open" ELSE "closed"
    /\ UNCHANGED cvars

\* The server's stream is deleted: keep-alive, shutdown, or the client's end
\* of the connection is gone.
ServerCloses(sid) ==
    /\ SessionClose(sid)
    /\ conn' = IF conn = "open" /\ client.sid = sid THEN "closed" ELSE conn
    /\ UNCHANGED cvars

Owner ==
    \/ \E stage \in {STAGE_BEGIN, STAGE_STREAM_STREAMING} : AskStage(stage)
    \/ AskWrite
    \/ \E op \in {"clear", "delete"} : AskOther(op)

HttpStep(i) ==
    \/ HttpConnected(i)
    \/ HttpPeerClosed(i)
    \/ ConnectTimeout(i)
    \/ AnswerTimeout(i)
    \/ \E rep \in Readable(i) : HttpResponse(i, rep) \/ HttpDelete(i, rep)

StreamStep ==
    \/ StreamConnected
    \/ StreamError
    \/ StreamTimerOff
    \/ conn # "none" /\ conn # "asked" /\ StreamRead

Next ==
    \/ ClientStep(Owner)
    \/ ClientStep(RunCallback)
    \/ ClientStep(ReconnectTimer)
    \/ \E i \in Socks :
          \/ ClientStep(HttpStep(i))
          \/ ClientStep(HttpError(i))
          \/ ServerAnswers(i)
    \/ ClientStep(StreamStep)
    \/ ServerOpens
    \/ \E sid \in Ids : ServerCloses(sid)

Spec == Init /\ [][Next]_vars

\* The worker runs its queue, its timers fire, and it deletes the sockets it
\* has marked; nothing is assumed of the network, the server or the owner.
Fairness ==
    /\ WF_vars(ClientStep(RunCallback))
    /\ WF_vars(ClientStep(ReconnectTimer))
    /\ \A i \in Socks :
          /\ WF_vars(ClientStep(ConnectTimeout(i) \/ AnswerTimeout(i)))
          /\ WF_vars(ClientStep(\E rep \in Readable(i) : HttpDelete(i, rep)))
    /\ WF_vars(ClientStep(StreamTimeout))

FairSpec == Spec /\ Fairness

(***************************************************************************)
(* Properties                                                              *)
(***************************************************************************)
InFlight == {i \in Socks : client.sock[i].phase \notin {"free", "closing"}}

\* What the client waits for, each with the callback it will bring.
Waits ==
    (IF client.timer THEN {"timer"} ELSE {})
    \cup (IF client.http # 0 THEN {"http"} ELSE {})
    \cup (IF client.stream = "connecting" THEN {"stream"} ELSE {})

\* A client on its way to the target waits for exactly one callback, the one
\* of its stage; any other client waits for none, whatever order the owner's
\* asks, the timers and the network events came in.  A second pending
\* callback would advance the stages of the next attempt; none would leave
\* the client hanging (dap_client_pvt.c, s_client_internal_clean and
\* s_stage_status_after).
WaitsOnOne ==
    /\ Cardinality(Waits) = IF client.status = "IN_PROGRESS" THEN 1 ELSE 0
    /\ client.http # 0 => client.stage \in {STAGE_ENC_INIT, STAGE_STREAM_CTL}
    /\ client.stream = "connecting" => client.stage = STAGE_STREAM_SESSION
    /\ client.stream = "up" => client.stage = STAGE_STREAM_STREAMING
    /\ client.status = "IN_PROGRESS" => client.target > client.stage

\* No HTTP socket but the current one can call the client back: callbacks
\* carry the client, not the request, so an old socket's late error would be
\* taken for the current request's; and a freed client is called by nothing
\* (dap_client_http.c, were_callbacks_called, s_es_delete).
NoLateCallback ==
    /\ \A i \in Socks : client.sock[i].phase # "free" /\ i # client.http =>
            client.sock[i].phase = "closing" /\ client.sock[i].called
    /\ ~client.alive => Waits = {} /\ client.stream = "none" /\ queue = <<>>

\* The two tables of the server and the client's stages agree: the KeyID of a
\* stream_ctl request the server has still to answer is in its storage, and
\* the session id of a stream that has just connected names a session nobody
\* has opened.  A retry therefore never presents an id the server has dropped
\* with an earlier attempt (dap_stream_ctl.c deletes the key after one use,
\* dap_stream_session_open refuses a second opening).
HandshakeAccepted ==
    /\ \A i \in InFlight :
          client.sock[i].req # 0 /\ client.sock[i].rep = NoReply => client.sock[i].req \in keys
    /\ conn = "asked" => Opens(client.sid)

\* The packets in the worker's queue.
Underway == {queue[j][2] : j \in {j \in 1..Len(queue) : queue[j][1] = "write"}}

\* No packet the owner wrote is lost or doubled, whatever fails and however
\* often the client reconnects: each one that was not cleared has been given
\* to the channel, waits in pkt_queue or is on its way to the worker.  Packets
\* keep the order they were written in, and once the stream is up all that
\* the worker has taken are on the channel (dap_client_pvt.c:135-173 and
\* 716-724, dap_client.c:121-144).
PacketsInOrder ==
    LET all == client.sent \o client.pkts
    IN  /\ owner.due = Range(all) \cup Underway
        /\ \A k, l \in 1..Len(all) : k < l => all[k] < all[l]
        /\ client.stream = "up" => client.pkts = <<>>

\* An attempt the client makes without a callback to come: connect() of an
\* HTTP request succeeded at once, or the stage could not start.
Stranded ==
    \/ client.http # 0 /\ client.sock[client.http].phase = "orphan"
    \/ client.status = "ERROR" /\ client.said # "last"

\* A client asked to stream comes to an end of its attempts: the stream is up,
\* or its owner has been told that the attempts are used up, or the owner asked
\* for something else; the exceptions are the stranded attempts
\* (dap_client_pvt.c:660-704).  And a stream over which the server never says
\* anything does not stay up (s_stream_timer_timeout_after_connected_check).
Settles ==
    /\ (client.status = "IN_PROGRESS" /\ client.said \in {"nothing", "error"})
        ~> (\/ client.status = "COMPLETE"
            \/ client.said = "last"
            \/ ~client.alive
            \/ Stranded)
    /\ (client.stream = "up" /\ ~client.heard) ~> (client.stream # "up" \/ client.heard)

\* The client as its owner sees it.
Service ==
    INSTANCE ClientService WITH
        phase <- (IF ~client.alive THEN "gone"
                  ELSE IF client.status = "IN_PROGRESS" THEN "trying"
                  ELSE IF client.status = "ERROR" THEN "failed"
                  ELSE IF client.stage = STAGE_BEGIN THEN "rest" ELSE "up"),
        said <- client.said,
        always <- client.always

\* What the owner sees of the client is what ClientService promises: the
\* order of the callbacks, one report per round of attempts, nothing after
\* the client is gone.
ImplementsService == Service!SSpec

=============================================================================
