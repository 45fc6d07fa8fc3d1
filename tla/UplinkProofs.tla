---------------------------- MODULE UplinkProofs ----------------------------
(***************************************************************************)
(* For any number of HTTP sockets, attempts and calls of the owner, and    *)
(* whatever the network and the server do: a client waits for exactly one  *)
(* callback when it is on its way and for none otherwise, no socket but    *)
(* the current one can call it back, packets keep their order, and what    *)
(* the owner sees is what ClientService promises.                          *)
(*                                                                         *)
(* A callback is an operator from a client to clients, so the inductive    *)
(* invariant is a predicate of one client, ClientOK: its record is of one  *)
(* of six shapes.  Each operator comes with a lemma on the shapes it leads *)
(* to and on what the owner hears of it.  The invariant is stronger than   *)
(* WaitsOnOne in two ways: the socket of the request being made has not    *)
(* called back yet, and a client in its first attempt has said nothing.    *)
(*                                                                         *)
(* HandshakeAccepted relates the client to the server.  Moves says what a  *)
(* step of a client does to the ids it asks with, and Hands that these     *)
(* ids, and those of an answer it has not read yet, are in the tables of   *)
(* the server.                                                             *)
(***************************************************************************)
EXTENDS Uplink, FiniteSetTheorems, TLAPS

\* Leaves go to Zenon, with time to spare, unless they name the SMT solver.
USE ZenonT(30)

SockType ==
    [phase : {"free", "connecting", "sent", "closing", "orphan"},
     called : BOOLEAN, req : Int, rep : Int]

Client ==
    [stage : Nat, status : {"COMPLETE", "IN_PROGRESS", "ERROR"}, target : {0, 5},
     attempts : Nat, timer : BOOLEAN, http : Socks \cup {0}, sock : [Socks -> SockType],
     stream : {"none", "dead", "connecting", "up"}, heard : BOOLEAN, watch : BOOLEAN,
     key : Int, sid : Int, pkts : Seq(Nat), sent : Seq(Nat),
     said : {"nothing", "error", "last", "connected"}, always : BOOLEAN, alive : BOOLEAN]

\* Sockets other than the current one, and other than k, are done with.
SocksBut(c, k) ==
    \A i \in Socks : i # k /\ i # c.http /\ c.sock[i].phase # "free" =>
        c.sock[i].phase = "closing" /\ c.sock[i].called

SocksOK(c) ==
    /\ SocksBut(c, 0)
    /\ c.http # 0 => c.sock[c.http].phase # "free" /\ ~c.sock[c.http].called

\* Nothing is pending.
Quiet(c) == ~c.timer /\ c.http = 0 /\ c.stream \in {"none", "dead"}

Idle(c) == Quiet(c) /\ c.stream = "none" /\ c.status = "COMPLETE" /\ c.stage = 0

AtRest(c) == Idle(c) /\ c.attempts = 0

OnTimer(c) ==
    /\ c.status = "IN_PROGRESS" /\ c.stage = 1 /\ c.timer /\ c.http = 0 /\ c.stream = "none"
    /\ c.attempts # 0

OnHttp(c) ==
    c.status = "IN_PROGRESS" /\ c.stage \in {1, 2} /\ ~c.timer /\ c.http # 0 /\ c.stream = "none"

OnStream(c) ==
    c.status = "IN_PROGRESS" /\ c.stage = 3 /\ ~c.timer /\ c.http = 0 /\ c.stream = "connecting"

Streaming(c) ==
    /\ c.status = "COMPLETE" /\ c.stage = 5 /\ ~c.timer /\ c.http = 0 /\ c.stream = "up"
    /\ c.said = "connected" /\ c.attempts = 0 /\ c.pkts = <<>> /\ c.target = 5

Stopped(c) == Quiet(c) /\ c.status = "ERROR"

\* On the way to the stream; the first attempt has been reported only when
\* it has failed.
Dialling(c) ==
    /\ OnTimer(c) \/ OnHttp(c) \/ OnStream(c)
    /\ c.target = 5
    /\ c.attempts = 0 => c.said = "nothing"

Shape(c) == AtRest(c) \/ Dialling(c) \/ Streaming(c) \/ Stopped(c)

ClientOK(c) == c \in Client /\ SocksOK(c) /\ IF c.alive THEN Shape(c) ELSE Idle(c)

\* What no callback of an attempt touches.
Same(c, d) ==
    d.target = c.target /\ d.sent = c.sent /\ d.pkts = c.pkts
    /\ d.always = c.always /\ d.alive = c.alive

\* Everything a shape looks at.
Alike(c, d) ==
    /\ Same(c, d)
    /\ d.stage = c.stage /\ d.status = c.status /\ d.attempts = c.attempts
    /\ d.timer = c.timer /\ d.http = c.http /\ d.stream = c.stream /\ d.said = c.said

\* SocksOK while a callback of socket k (0: of none) is being run: socket k is
\* no longer the current one and not yet marked.
Sound(c, k) ==
    /\ c \in Client
    /\ SocksBut(c, k)
    /\ c.http # 0 => c.sock[c.http].phase # "free" /\ ~c.sock[c.http].called
    /\ k \in Socks => c.http # k /\ c.sock[k].phase # "free"

\* A client for which the next stage of an attempt may begin.
Ready(c) ==
    Quiet(c) /\ c.stream = "none" /\ c.target = 5 /\ (c.attempts = 0 => c.said = "nothing")

\* What a failure makes of a client, and what is said of it.
Fails(c, d) ==
    /\ Same(c, d)
    /\ \/ Stopped(d) /\ c.attempts # 0 /\ ~c.always /\ d.said = "last"
       \/ OnTimer(d) /\ c.attempts # 0 /\ c.always /\ d.said = "last"
       \/ OnTimer(d) /\ c.attempts # 0 /\ d.said = c.said
       \/ OnTimer(d) /\ c.attempts = 0 /\ d.said = "error"

\* What beginning a stage makes of a client.
Outcome(c, d) ==
    \/ Fails(c, d)
    \/ Same(c, d) /\ Stopped(d) /\ d.said = c.said
    \/ /\ Same(c, d) /\ d.said = c.said /\ d.attempts = c.attempts
       /\ OnHttp(d) \/ OnStream(d)

\* The client as its owner sees it, and the steps ClientService allows it.
Phase(c) ==
    IF ~c.alive THEN "gone"
    ELSE IF c.status = "IN_PROGRESS" THEN "trying"
    ELSE IF c.status = "ERROR" THEN "failed"
    ELSE IF c.stage = STAGE_BEGIN THEN "rest" ELSE "up"

Serves(c, d) ==
    /\ d.always = c.always
    /\ \/ Phase(d) = Phase(c) /\ d.said = c.said
       \/ Phase(c) = "rest" /\ Phase(d) = "trying" /\ d.said \in {"nothing", "error"}
       \/ Phase(c) # "gone" /\ Phase(d) = "rest" /\ d.said \in {"nothing", c.said}
       \/ Phase(c) = "trying" /\ Phase(d) = "up" /\ d.said = "connected"
       \/ Phase(c) = "up" /\ Phase(d) = "trying" /\ d.said = "error"
       \/ Phase(c) = "trying" /\ Phase(d) = "trying" /\ c.said = "nothing" /\ d.said = "error"
       \/ /\ Phase(c) = "trying" /\ d.said = "last"
          /\ Phase(d) = IF c.always THEN "trying" ELSE "failed"
       \/ Phase(c) \in {"rest", "trying"} /\ Phase(d) = "failed" /\ d.said \in {"nothing", c.said}
       \/ Phase(c) # "gone" /\ Phase(d) = "gone" /\ d.said = c.said

-----------------------------------------------------------------------------
\* s_client_internal_clean.
LEMMA CleanOK ==
    ASSUME NEW c \in Client
    PROVE  LET d == Clean(c)
           IN  /\ d \in Client /\ Same(c, d) /\ Quiet(d)
               /\ d.stream = "none" /\ d.status = "COMPLETE" /\ d.stage = 0
               /\ d.attempts = c.attempts /\ d.said = c.said
               /\ \A i \in Socks : i # c.http => d.sock[i] = c.sock[i]
               /\ \A i \in Socks : i = c.http => d.sock[i] = FreeSock
<1> DEFINE s == IF c.http = 0 THEN c.sock ELSE [c.sock EXCEPT ![c.http] = FreeSock]
           e == [[c EXCEPT !.sock = s] EXCEPT !.http = 0]
           i0 == IF c.stream = "none" THEN c.sid ELSE 0
           f == [e EXCEPT !.timer = FALSE, !.sid = i0, !.stream = "none", !.heard = FALSE]
           d == [f EXCEPT !.watch = FALSE, !.key = 0, !.stage = 0, !.status = "COMPLETE"]
<1>1. FreeSock \in SockType
  BY SMTT(30) DEF FreeSock, SockType, NoReply
<1>2. s \in [Socks -> SockType]
  BY <1>1 DEF Client
<1>3. /\ \A i \in Socks : i # c.http => s[i] = c.sock[i]
      /\ \A i \in Socks : i = c.http => s[i] = FreeSock
  BY ClientAssumption DEF Client
<1>4. CloseHttp(c) = e
  <2>1. CASE c.http = 0
    BY <2>1 DEF CloseHttp, Client
  <2>2. CASE c.http # 0
    BY <2>2 DEF CloseHttp, Client
  <2> QED BY <2>1, <2>2
<1>5. i0 \in Int
  BY SMTT(30) DEF Client
<1> HIDE DEF s, i0
<1>6. e \in Client
  BY <1>2 DEF Client
<1>7. Same(c, e) /\ e.attempts = c.attempts /\ e.said = c.said /\ e.sock = s /\ e.http = 0
      /\ e.sid = c.sid
  BY DEF Client, Same
<1>8. Clean(c) = d
  BY <1>4, <1>6, <1>7 DEF Clean, Client, STAGE_BEGIN, i0
<1> HIDE DEF e
<1>9. f \in Client
  BY <1>5, <1>6 DEF Client
<1>10. /\ f.target = e.target /\ f.sent = e.sent /\ f.pkts = e.pkts
       /\ f.always = e.always /\ f.alive = e.alive
       /\ ~f.timer /\ f.http = e.http /\ f.stream = "none"
       /\ f.attempts = e.attempts /\ f.said = e.said /\ f.sock = e.sock
  BY <1>6 DEF Client
<1> HIDE DEF f
<1>11. d \in Client
  <2> DEFINE z == 0
             g == [f EXCEPT !.watch = FALSE, !.key = z]
  <2>1. g \in Client
    <3>1. z \in Int
      BY SMTT(30)
    <3> HIDE DEF z
    <3> QED BY <1>9, <3>1 DEF Client
  <2>2. d = [g EXCEPT !.stage = 0, !.status = "COMPLETE"]
    BY <1>9 DEF Client
  <2> HIDE DEF g, d
  <2> QED BY <2>1, <2>2 DEF Client
<1>12. /\ d.target = f.target /\ d.sent = f.sent /\ d.pkts = f.pkts
       /\ d.always = f.always /\ d.alive = f.alive
       /\ d.timer = f.timer /\ d.http = f.http /\ d.stream = f.stream /\ d.status = "COMPLETE"
       /\ d.stage = 0 /\ d.attempts = f.attempts /\ d.said = f.said /\ d.sock = f.sock
  BY <1>9 DEF Client
<1> HIDE DEF d
<1> QED BY <1>3, <1>7, <1>8, <1>10, <1>11, <1>12 DEF Same, Quiet

\* The ERROR case of s_stage_status_after.
LEMMA FailedOK ==
    ASSUME NEW c \in Client, Quiet(c), NEW k \in Socks \cup {0}, Sound(c, k)
    PROVE  Fails(c, Failed(c)) /\ Sound(Failed(c), k)
<1> DEFINE d == Failed(c)
           b == Clean(c)
           y == IF LastAttempt(c) THEN "last" ELSE IF c.attempts = 0 THEN "error" ELSE c.said
           t == 1 + IF LastAttempt(c) /\ c.always THEN 0 ELSE c.attempts
<1>1. /\ y \in {"nothing", "error", "last", "connected"}
      /\ t \in Nat /\ t # 0
  BY SMTT(30) DEF Client
<1>2. c.attempts = 0 => ~LastAttempt(c)
  BY ClientAssumption, SMTT(30) DEF LastAttempt, Client
<1>3. y = IF LastAttempt(c) THEN "last" ELSE IF c.attempts = 0 THEN "error" ELSE c.said
  OBVIOUS
<1> HIDE DEF y, t
<1>4. CASE LastAttempt(c) /\ ~c.always
  <2>1. d = [c EXCEPT !.status = "ERROR", !.said = y, !.attempts = t]
    BY <1>4 DEF Failed, y, t
  <2> HIDE DEF d
  <2>2. d \in Client
    BY <2>1, <1>1 DEF Client
  <2>3. /\ Same(c, d) /\ d.status = "ERROR" /\ d.said = y /\ d.timer = c.timer
        /\ d.http = c.http /\ d.stream = c.stream /\ d.sock = c.sock
    BY <2>1 DEF Client, Same
  <2> QED BY <2>2, <2>3, <1>2, <1>3, <1>4 DEF Fails, Stopped, Quiet, Sound, SocksBut, d
<1>5. CASE ~(LastAttempt(c) /\ ~c.always)
  <2>1. d = [b EXCEPT !.stage = 1, !.status = "IN_PROGRESS", !.timer = TRUE, !.said = y,
                      !.attempts = t]
    BY <1>5 DEF Failed, y, t, STAGE_ENC_INIT
  <2>2. /\ b \in Client /\ Same(c, b) /\ Quiet(b) /\ b.stream = "none"
        /\ \A i \in Socks : b.sock[i] = c.sock[i]
    BY CleanOK, ClientAssumption DEF Quiet
  <2> HIDE DEF d, b
  <2>3. d \in Client
    BY <2>1, <2>2, <1>1 DEF Client
  <2>4. /\ Same(b, d) /\ d.status = "IN_PROGRESS" /\ d.stage = 1 /\ d.timer
        /\ d.said = y /\ d.attempts = t
        /\ d.http = b.http /\ d.stream = b.stream /\ d.sock = b.sock
    BY <2>1, <2>2 DEF Client, Same
  <2>5. Same(c, d) /\ OnTimer(d)
    BY <2>2, <2>4, <1>1 DEF Same, OnTimer, Quiet
  <2>6. Fails(c, d)
    BY <2>4, <2>5, <1>2, <1>3, <1>5 DEF Fails, Client
  <2>7. Sound(d, k)
    BY <2>2, <2>3, <2>4, SMTT(30) DEF Sound, SocksBut, Quiet
  <2> QED BY <2>6, <2>7 DEF d
<1> QED BY <1>4, <1>5

\* A failure keeps the client within what beginning a stage makes of it.
LEMMA FailedOutcome ==
    ASSUME NEW c \in Client, Quiet(c), NEW k \in Socks \cup {0}, Sound(c, k)
    PROVE  Outcome(c, Failed(c)) /\ Sound(Failed(c), k)
BY FailedOK DEF Outcome

\* dap_client_pvt_request: a request is made on a free socket.
LEMMA RequestOK ==
    ASSUME NEW c \in Client, NEW k \in Socks \cup {0}, Sound(c, k), Ready(c),
           c.status = "IN_PROGRESS", c.stage \in {1, 2}, FreeSocks(c) # {}, NEW keyid \in Int,
           NEW d \in Request(c, keyid)
    PROVE  Outcome(c, d) /\ Sound(d, k)
<1> DEFINE j == CHOOSE i \in Socks : i \in FreeSocks(c)
<1>1. j \in Socks /\ c.sock[j].phase = "free"
  BY DEF FreeSocks
<1> HIDE DEF j
<1>2. [c EXCEPT !.http = 0] = c
  BY DEF Client, Ready, Quiet
<1>3. PICK ph \in {"connecting", "orphan"} :
        \/ d = Failed(c)
        \/ d = [c EXCEPT !.http = j, !.sock[j] = [FreeSock EXCEPT !.phase = ph, !.req = keyid]]
  BY <1>2, SMTT(30) DEF Request, j
<1>4. CASE d = Failed(c)
  BY <1>4, FailedOutcome DEF Ready
<1>5. CASE d = [c EXCEPT !.http = j, !.sock[j] = [FreeSock EXCEPT !.phase = ph, !.req = keyid]]
  <2> DEFINE r == [FreeSock EXCEPT !.phase = ph, !.req = keyid]
             s == [c.sock EXCEPT ![j] = r]
  <2>1. r \in SockType /\ r.phase # "free" /\ ~r.called
    <3>1. FreeSock \in SockType /\ ~FreeSock.called
      BY SMTT(30) DEF FreeSock, SockType, NoReply
    <3> QED BY <3>1 DEF SockType
  <2> HIDE DEF r
  <2>2. s \in [Socks -> SockType] /\ s[j] = r /\ \A i \in Socks : i # j => s[i] = c.sock[i]
    BY <2>1, <1>1 DEF Client
  <2>3. d = [c EXCEPT !.http = j, !.sock = s]
    BY <1>5 DEF r, Client
  <2> HIDE DEF s
  <2>4. d \in Client
    BY <2>2, <2>3, <1>1 DEF Client
  <2>5. /\ Same(c, d) /\ d.status = c.status /\ d.stage = c.stage /\ d.timer = c.timer
        /\ d.said = c.said /\ d.attempts = c.attempts /\ d.http = j /\ d.sock = s
        /\ d.stream = c.stream
    BY <2>3 DEF Client, Same
  <2>6. Outcome(c, d)
    BY <2>5, <1>1, ClientAssumption DEF Outcome, OnHttp, Ready, Quiet
  <2>7. SocksBut(d, k)
    BY <2>2, <2>5, ClientAssumption DEF Sound, SocksBut, Ready, Quiet
  <2>8. k \in Socks => d.http # k /\ d.sock[k].phase # "free"
    BY <2>2, <2>5, <1>1 DEF Sound
  <2>9. Sound(d, k)
    BY <2>1, <2>2, <2>4, <2>5, <2>7, <2>8 DEF Sound
  <2> QED BY <2>6, <2>9
<1> QED BY <1>3, <1>4, <1>5

\* A client that has moved to the next stage is as sound, and as ready, as
\* it was.
LEMMA StageOK ==
    ASSUME NEW c \in Client, NEW k \in Socks \cup {0}, Sound(c, k), NEW stage \in Nat
    PROVE  LET d == [c EXCEPT !.stage = stage, !.status = "IN_PROGRESS"]
           IN  /\ d \in Client /\ Sound(d, k) /\ Same(c, d) /\ d.stage = stage
               /\ d.status = "IN_PROGRESS" /\ d.attempts = c.attempts /\ d.said = c.said
               /\ d.timer = c.timer /\ d.http = c.http /\ d.stream = c.stream
               /\ d.sock = c.sock
<1> DEFINE d == [c EXCEPT !.stage = stage, !.status = "IN_PROGRESS"]
<1>1. d \in Client
  BY DEF Client
<1>2. /\ Same(c, d) /\ d.stage = stage
      /\ d.status = "IN_PROGRESS" /\ d.attempts = c.attempts /\ d.said = c.said
      /\ d.timer = c.timer /\ d.http = c.http /\ d.stream = c.stream /\ d.sock = c.sock
  BY DEF Client, Same
<1> HIDE DEF d
<1>3. Sound(d, k)
  BY <1>1, <1>2 DEF Sound, SocksBut
<1> QED BY <1>1, <1>2, <1>3 DEF d

\* A failure nobody is told of.
LEMMA SilentOK ==
    ASSUME NEW c \in Client, NEW k \in Socks \cup {0}, Sound(c, k), Quiet(c)
    PROVE  Outcome(c, FailedSilently(c)) /\ Sound(FailedSilently(c), k)
<1> DEFINE d == FailedSilently(c)
<1>1. d \in Client
  BY DEF Client, FailedSilently
<1>2. /\ Same(c, d) /\ d.status = "ERROR" /\ d.said = c.said /\ d.timer = c.timer
      /\ d.http = c.http /\ d.stream = c.stream /\ d.sock = c.sock
  BY DEF Client, Same, FailedSilently
<1> HIDE DEF d
<1>3. Outcome(c, d)
  BY <1>2 DEF Outcome, Stopped, Quiet
<1>4. Sound(d, k)
  BY <1>1, <1>2 DEF Sound, SocksBut
<1> QED BY <1>3, <1>4 DEF d

\* An outcome does not depend on the stage the client was in before.
LEMMA OutcomeFrom ==
    ASSUME NEW c, NEW b, NEW d, Same(c, b), b.attempts = c.attempts, b.said = c.said,
           Outcome(b, d)
    PROVE  Outcome(c, d)
BY DEF Outcome, Fails, Same

\* The ENC_INIT case of s_stage_status_after.
LEMMA BeginEncInitOK ==
    ASSUME NEW c \in Client, NEW k \in Socks \cup {0}, Sound(c, k), Ready(c),
           FreeSocks(c) # {}, NEW d \in BeginEncInit(c)
    PROVE  Outcome(c, d) /\ Sound(d, k)
<1> DEFINE b == [c EXCEPT !.stage = 1, !.status = "IN_PROGRESS"]
<1>1. /\ b \in Client /\ Sound(b, k) /\ Same(c, b) /\ b.stage = 1
      /\ b.status = "IN_PROGRESS" /\ b.attempts = c.attempts /\ b.said = c.said
      /\ b.timer = c.timer /\ b.http = c.http /\ b.stream = c.stream /\ b.sock = c.sock
  BY StageOK
<1>2. d = FailedSilently(b) \/ d \in Request(b, 0)
  BY DEF BeginEncInit, PlainRequest, STAGE_ENC_INIT
<1> HIDE DEF b
<1>3. Ready(b) /\ Quiet(b) /\ FreeSocks(b) # {}
  BY <1>1 DEF Ready, Quiet, Same, FreeSocks
<1>4. Outcome(b, d) /\ Sound(d, k)
  <2>1. CASE d = FailedSilently(b)
    BY <2>1, <1>1, <1>3, SilentOK
  <2>2. CASE d \in Request(b, 0)
    <3> DEFINE z == 0
    <3>1. z \in Int /\ d \in Request(b, z)
      BY <2>2, SMTT(30)
    <3> HIDE DEF z
    <3> QED BY <3>1, <1>1, <1>3, RequestOK
  <2> QED BY <2>1, <2>2, <1>2
<1> QED BY <1>1, <1>4, OutcomeFrom

\* The STREAM_CTL case of s_stage_status_after.
LEMMA BeginStreamCtlOK ==
    ASSUME NEW c \in Client, NEW k \in Socks \cup {0}, Sound(c, k), Ready(c),
           FreeSocks(c) # {}, NEW d \in BeginStreamCtl(c)
    PROVE  Outcome(c, d) /\ Sound(d, k)
<1> DEFINE b == [c EXCEPT !.stage = 2, !.status = "IN_PROGRESS"]
<1>1. /\ b \in Client /\ Sound(b, k) /\ Same(c, b) /\ b.stage = 2
      /\ b.status = "IN_PROGRESS" /\ b.attempts = c.attempts /\ b.said = c.said
      /\ b.timer = c.timer /\ b.http = c.http /\ b.stream = c.stream /\ b.sock = c.sock
  BY StageOK
<1>2. d \in Request(b, c.key) /\ c.key \in Int
  BY DEF BeginStreamCtl, EncRequest, STAGE_STREAM_CTL, Client
<1> HIDE DEF b
<1>3. Ready(b) /\ FreeSocks(b) # {}
  BY <1>1 DEF Ready, Quiet, Same, FreeSocks
<1>4. Outcome(b, d) /\ Sound(d, k)
  BY <1>1, <1>2, <1>3, RequestOK
<1> QED BY <1>1, <1>4, OutcomeFrom

\* The stream object of a client changes.
LEMMA StreamSet ==
    ASSUME NEW c \in Client, NEW k \in Socks \cup {0}, Sound(c, k),
           NEW v \in {"none", "dead", "connecting", "up"}
    PROVE  LET d == [c EXCEPT !.stream = v]
           IN  /\ d \in Client /\ Sound(d, k) /\ Same(c, d) /\ d.stream = v
               /\ d.stage = c.stage /\ d.status = c.status /\ d.attempts = c.attempts
               /\ d.said = c.said /\ d.timer = c.timer /\ d.http = c.http
               /\ d.sock = c.sock /\ d.sid = c.sid
<1> DEFINE d == [c EXCEPT !.stream = v]
<1>1. d \in Client
  BY DEF Client
<1>2. /\ Same(c, d) /\ d.stream = v
      /\ d.stage = c.stage /\ d.status = c.status /\ d.attempts = c.attempts
      /\ d.said = c.said /\ d.timer = c.timer /\ d.http = c.http /\ d.sock = c.sock
      /\ d.sid = c.sid
  BY DEF Client, Same
<1> HIDE DEF d
<1>3. Sound(d, k)
  BY <1>1, <1>2 DEF Sound, SocksBut
<1> QED BY <1>1, <1>2, <1>3 DEF d

\* The STREAM_SESSION case of s_stage_status_after.
LEMMA BeginSessionOK ==
    ASSUME NEW c \in Client, NEW k \in Socks \cup {0}, Sound(c, k), Ready(c),
           NEW d \in BeginSession(c)
    PROVE  Outcome(c, d) /\ Sound(d, k)
<1> DEFINE b == [c EXCEPT !.stage = 3, !.status = "IN_PROGRESS"]
           x == [b EXCEPT !.stream = "dead"]
           u == [b EXCEPT !.stream = "connecting"]
<1>1. /\ b \in Client /\ Sound(b, k) /\ Same(c, b) /\ b.stage = 3
      /\ b.status = "IN_PROGRESS" /\ b.attempts = c.attempts /\ b.said = c.said
      /\ b.timer = c.timer /\ b.http = c.http /\ b.stream = c.stream /\ b.sock = c.sock
  BY StageOK
<1>2. d = FailedSilently(b) \/ d = Failed(x) \/ d = u
  BY DEF BeginSession, STAGE_STREAM_SESSION
<1> HIDE DEF b
<1>3. /\ x \in Client /\ Sound(x, k) /\ Same(b, x) /\ x.stream = "dead"
      /\ x.attempts = b.attempts /\ x.said = b.said /\ x.timer = b.timer /\ x.http = b.http
  BY <1>1, StreamSet
<1>4. /\ u \in Client /\ Sound(u, k) /\ Same(b, u) /\ u.stream = "connecting"
      /\ u.stage = 3 /\ u.status = "IN_PROGRESS" /\ u.attempts = b.attempts
      /\ u.said = b.said /\ u.timer = b.timer /\ u.http = b.http
  BY <1>1, StreamSet
<1> HIDE DEF x, u
<1>5. CASE d = FailedSilently(b)
  <2>1. Quiet(b)
    BY <1>1 DEF Ready, Quiet
  <2> QED BY <1>5, <2>1, <1>1, SilentOK, OutcomeFrom
<1>6. CASE d = Failed(x)
  <2>1. Quiet(x)
    BY <1>1, <1>3 DEF Ready, Quiet
  <2>2. Outcome(x, d) /\ Sound(d, k)
    BY <1>6, <2>1, <1>3, FailedOutcome
  <2>3. Same(c, x) /\ x.attempts = c.attempts /\ x.said = c.said
    BY <1>1, <1>3 DEF Same
  <2> QED BY <2>2, <2>3, OutcomeFrom
<1>7. CASE d = u
  BY <1>7, <1>1, <1>4 DEF Outcome, OnStream, Same, Ready, Quiet
<1> QED BY <1>2, <1>5, <1>6, <1>7

\* s_request_error and s_request_response forget the socket first.
LEMMA ForgetOK ==
    ASSUME NEW c \in Client, SocksOK(c), Dialling(c), OnHttp(c)
    PROVE  LET b == [c EXCEPT !.http = 0]
           IN  /\ b \in Client /\ Sound(b, c.http) /\ Ready(b) /\ Same(c, b)
               /\ b.stage = c.stage /\ b.attempts = c.attempts /\ b.said = c.said
               /\ b.status = c.status /\ FreeSocks(b) = FreeSocks(c)
<1> DEFINE b == [c EXCEPT !.http = 0]
<1>1. b \in Client
  BY DEF Client
<1>2. /\ Same(c, b) /\ b.stage = c.stage /\ b.attempts = c.attempts /\ b.said = c.said
      /\ b.status = c.status /\ b.timer = c.timer /\ b.stream = c.stream
      /\ b.http = 0 /\ b.sock = c.sock
  BY DEF Client, Same
<1> HIDE DEF b
<1>3. c.http \in Socks /\ c.http # 0
  BY DEF OnHttp, Client
<1>4. SocksBut(b, c.http)
  BY <1>2, ClientAssumption DEF SocksOK, SocksBut
<1>5. Sound(b, c.http)
  BY <1>1, <1>2, <1>3, <1>4 DEF Sound, SocksOK
<1>6. Ready(b)
  BY <1>2 DEF Ready, Quiet, OnHttp, Dialling, Same
<1> QED BY <1>1, <1>2, <1>5, <1>6 DEF b, FreeSocks

\* A failed request is a failed attempt.
LEMMA RequestErrorOK ==
    ASSUME NEW c \in Client, SocksOK(c), Dialling(c), OnHttp(c)
    PROVE  Outcome(c, RequestError(c)) /\ Sound(RequestError(c), c.http)
<1> DEFINE b == [c EXCEPT !.http = 0]
<1>1. /\ b \in Client /\ Sound(b, c.http) /\ Ready(b) /\ Same(c, b)
      /\ b.attempts = c.attempts /\ b.said = c.said
  BY ForgetOK
<1>2. RequestError(c) = Failed(b)
  BY DEF RequestError, EncInitError, StreamCtlError
<1> HIDE DEF b
<1>3. c.http \in Socks \cup {0}
  BY DEF Client
<1> QED BY <1>1, <1>2, <1>3, FailedOutcome, OutcomeFrom DEF Ready

\* s_enc_init_response and s_stream_ctl_response: the id the answer names is
\* kept and the next stage begins.
LEMMA RequestResponseOK ==
    ASSUME NEW c \in Client, SocksOK(c), Dialling(c), OnHttp(c), FreeSocks(c) # {},
           NEW rep \in Int, NEW d \in RequestResponse(c, rep)
    PROVE  Outcome(c, d) /\ Sound(d, c.http)
<1> DEFINE b == [c EXCEPT !.http = 0]
           x == [b EXCEPT !.key = rep]
           u == [b EXCEPT !.sid = rep]
<1>1. /\ b \in Client /\ Sound(b, c.http) /\ Ready(b) /\ Same(c, b)
      /\ b.stage = c.stage /\ b.attempts = c.attempts /\ b.said = c.said
      /\ FreeSocks(b) # {}
  BY ForgetOK
<1>2. c.http \in Socks \cup {0}
  BY DEF Client
<1>3. \/ c.stage = 1 /\ d \in EncInitResponse(b, rep)
      \/ c.stage = 2 /\ d \in StreamCtlResponse(b, rep)
  BY DEF RequestResponse, OnHttp, STAGE_ENC_INIT
<1> HIDE DEF b
<1>4. CASE d = Failed(b)
  BY <1>4, <1>1, <1>2, FailedOutcome, OutcomeFrom DEF Ready
<1>5. CASE rep > 0 /\ c.stage = 1
  <2>1. x \in Client
    BY <1>1 DEF Client
  <2>2. /\ Same(b, x) /\ x.stage = b.stage /\ x.attempts = b.attempts /\ x.said = b.said
        /\ x.timer = b.timer /\ x.stream = b.stream /\ x.http = b.http /\ x.sock = b.sock
    BY <1>1 DEF Client, Same
  <2>3. d \in GoOn(x, BeginStreamCtl(x))
    BY <1>3, <1>5, SMTT(30) DEF EncInitResponse
  <2> HIDE DEF x
  <2>4. x.target > x.stage
    BY <2>2, <1>1, <1>5, SMTT(30) DEF Ready, Same
  <2>5. d \in BeginStreamCtl(x)
    BY <2>3, <2>4 DEF GoOn
  <2>6. Sound(x, c.http)
    BY <2>1, <2>2, <1>1 DEF Sound, SocksBut
  <2>7. Ready(x) /\ FreeSocks(x) # {}
    BY <2>2, <1>1 DEF Ready, Quiet, Same, FreeSocks
  <2>8. Outcome(x, d) /\ Sound(d, c.http)
    BY <2>1, <2>5, <2>6, <2>7, <1>2, BeginStreamCtlOK
  <2>9. Same(c, x) /\ x.attempts = c.attempts /\ x.said = c.said
    BY <2>2, <1>1 DEF Same
  <2> QED BY <2>8, <2>9, OutcomeFrom
<1>6. CASE rep > 0 /\ c.stage = 2
  <2>1. u \in Client
    BY <1>1 DEF Client
  <2>2. /\ Same(b, u) /\ u.stage = b.stage /\ u.attempts = b.attempts /\ u.said = b.said
        /\ u.timer = b.timer /\ u.stream = b.stream /\ u.http = b.http /\ u.sock = b.sock
    BY <1>1 DEF Client, Same
  <2>3. d \in GoOn(u, BeginSession(u))
    BY <1>3, <1>6, SMTT(30) DEF StreamCtlResponse
  <2> HIDE DEF u
  <2>4. u.target > u.stage
    BY <2>2, <1>1, <1>6, SMTT(30) DEF Ready, Same
  <2>5. d \in BeginSession(u)
    BY <2>3, <2>4 DEF GoOn
  <2>6. Sound(u, c.http)
    BY <2>1, <2>2, <1>1 DEF Sound, SocksBut
  <2>7. Ready(u)
    BY <2>2, <1>1 DEF Ready, Quiet, Same
  <2>8. Outcome(u, d) /\ Sound(d, c.http)
    BY <2>1, <2>5, <2>6, <2>7, <1>2, BeginSessionOK
  <2>9. Same(c, u) /\ u.attempts = c.attempts /\ u.said = c.said
    BY <2>2, <1>1 DEF Same
  <2> QED BY <2>8, <2>9, OutcomeFrom
<1>7. rep > 0 \/ d = Failed(b)
  BY <1>3 DEF EncInitResponse, StreamCtlResponse
<1> QED BY <1>3, <1>4, <1>5, <1>6, <1>7

\* An attempt under way leads to a good client and to a step of the service.
LEMMA OutcomeOK ==
    ASSUME NEW c \in Client, Dialling(c), c.alive, NEW d \in Client, SocksOK(d), Outcome(c, d)
    PROVE  ClientOK(d) /\ Serves(c, d) /\ Same(c, d)
<1>1. Same(c, d) /\ d.alive /\ d.target = 5
  BY DEF Outcome, Fails, Same, Dialling
<1>2. Phase(c) = "trying"
  BY DEF Phase, Dialling, OnTimer, OnHttp, OnStream
<1>3. CASE Fails(c, d)
  <2>1. Stopped(d) => Phase(d) = "failed"
    BY <1>1 DEF Phase, Stopped
  <2>2. OnTimer(d) => Phase(d) = "trying" /\ Dialling(d)
    BY <1>1 DEF Phase, OnTimer, Dialling
  <2>3. Serves(c, d)
    BY <1>1, <1>2, <1>3, <2>1, <2>2 DEF Serves, Fails, Dialling, Same
  <2>4. Shape(d)
    BY <1>3, <2>2 DEF Shape, Fails
  <2> QED BY <1>1, <2>3, <2>4 DEF ClientOK
<1>4. CASE Same(c, d) /\ Stopped(d) /\ d.said = c.said
  BY <1>1, <1>2, <1>4 DEF ClientOK, Shape, Serves, Phase, Stopped, Same
<1>5. CASE /\ Same(c, d) /\ d.said = c.said /\ d.attempts = c.attempts
           /\ OnHttp(d) \/ OnStream(d)
  <2>1. Phase(d) = "trying"
    BY <1>1, <1>5 DEF Phase, OnHttp, OnStream
  <2>2. Dialling(d)
    BY <1>1, <1>5 DEF Dialling
  <2> QED BY <1>1, <1>2, <1>5, <2>1, <2>2 DEF ClientOK, Shape, Serves, Same
<1> QED BY <1>3, <1>4, <1>5 DEF Outcome

\* A socket is written to.
LEMMA SockSet ==
    ASSUME NEW c \in Client, NEW i \in Socks, NEW s \in SockType
    PROVE  LET d == [c EXCEPT !.sock[i] = s]
           IN  /\ d \in Client /\ Alike(c, d) /\ d.sid = c.sid /\ d.sock[i] = s
               /\ \A j \in Socks : j # i => d.sock[j] = c.sock[j]
<1> DEFINE t == [c.sock EXCEPT ![i] = s]
           d == [c EXCEPT !.sock = t]
<1>1. /\ t \in [Socks -> SockType] /\ t[i] = s
      /\ \A j \in Socks : j # i => t[j] = c.sock[j]
  BY DEF Client
<1>2. [c EXCEPT !.sock[i] = s] = d
  BY DEF Client
<1> HIDE DEF t
<1>3. d \in Client
  BY <1>1 DEF Client
<1>4. Alike(c, d) /\ d.sid = c.sid /\ d.sock = t
  BY DEF Client, Alike, Same
<1> HIDE DEF d
<1> QED BY <1>1, <1>2, <1>3, <1>4

\* The fields of a socket are written one by one.
LEMMA SockFields ==
    ASSUME NEW c \in Client, NEW i \in Socks
    PROVE  /\ \A ph : [c EXCEPT !.sock[i].phase = ph]
                        = [c EXCEPT !.sock[i] = [c.sock[i] EXCEPT !.phase = ph]]
           /\ \A r : [c EXCEPT !.sock[i].rep = r]
                        = [c EXCEPT !.sock[i] = [c.sock[i] EXCEPT !.rep = r]]
           /\ [c EXCEPT !.sock[i].phase = "closing", !.sock[i].called = TRUE]
                = [c EXCEPT !.sock[i] = [c.sock[i] EXCEPT !.phase = "closing", !.called = TRUE]]
<1>1. c.sock \in [Socks -> SockType]
  BY DEF Client
<1> QED BY <1>1 DEF Client, SockType

\* The marks on a socket whose callback has been run.
LEMMA MarkOK ==
    ASSUME NEW c \in Client, NEW k \in Socks, Sound(c, k)
    PROVE  LET d == [c EXCEPT !.sock[k].phase = "closing", !.sock[k].called = TRUE]
               e == [c EXCEPT !.sock[k] = FreeSock]
           IN  /\ d \in Client /\ SocksOK(d) /\ Alike(c, d)
               /\ e \in Client /\ SocksOK(e) /\ Alike(c, e)
               /\ d.sid = c.sid /\ e.sid = c.sid
               /\ \A j \in Socks : j # k => d.sock[j] = c.sock[j] /\ e.sock[j] = c.sock[j]
<1> DEFINE s == [c.sock[k] EXCEPT !.phase = "closing", !.called = TRUE]
           d == [c EXCEPT !.sock[k] = s]
           e == [c EXCEPT !.sock[k] = FreeSock]
<1>1. s \in SockType /\ s.phase = "closing" /\ s.called
  <2>1. c.sock[k] \in SockType
    BY DEF Client
  <2> QED BY <2>1 DEF SockType
<1>2. FreeSock \in SockType /\ FreeSock.phase = "free"
  BY SMTT(30) DEF FreeSock, SockType, NoReply
<1>3. [c EXCEPT !.sock[k].phase = "closing", !.sock[k].called = TRUE] = d
  BY SockFields
<1> HIDE DEF s
<1>4. /\ d \in Client /\ Alike(c, d) /\ d.sid = c.sid /\ d.sock[k] = s
      /\ \A j \in Socks : j # k => d.sock[j] = c.sock[j]
  BY <1>1, SockSet
<1>5. /\ e \in Client /\ Alike(c, e) /\ e.sid = c.sid /\ e.sock[k] = FreeSock
      /\ \A j \in Socks : j # k => e.sock[j] = c.sock[j]
  BY <1>2, SockSet
<1> HIDE DEF d, e
<1>6. c.http \in Socks \cup {0} /\ c.http # k
  BY DEF Sound, Client
<1>7. SocksOK(d)
  BY <1>1, <1>4, <1>6 DEF SocksOK, SocksBut, Sound, Alike
<1>8. SocksOK(e)
  BY <1>2, <1>5, <1>6 DEF SocksOK, SocksBut, Sound, Alike
<1> QED BY <1>3, <1>4, <1>5, <1>7, <1>8 DEF d, e

\* An outcome stays one when only a socket is marked after it.
LEMMA OutcomeTo ==
    ASSUME NEW c, NEW b, NEW d, Outcome(c, b), Alike(b, d)
    PROVE  Outcome(c, d)
BY DEF Outcome, Fails, Same, Alike, Stopped, Quiet, OnTimer, OnHttp, OnStream

\* A change that a shape does not look at.
LEMMA AlikeOK ==
    ASSUME NEW c, NEW d, ClientOK(c), d \in Client, SocksOK(d), Alike(c, d)
    PROVE  ClientOK(d) /\ Serves(c, d) /\ Same(c, d)
<1>1. Same(c, d) /\ Phase(d) = Phase(c)
  BY DEF Alike, Phase, Same
<1>2. Serves(c, d)
  BY <1>1 DEF Serves, Alike, Same
<1>3. /\ AtRest(c) => AtRest(d)
      /\ Stopped(c) => Stopped(d)
      /\ Streaming(c) => Streaming(d)
      /\ Idle(c) => Idle(d)
  BY DEF Alike, Same, AtRest, Idle, Stopped, Streaming, Quiet
<1>4. Dialling(c) => Dialling(d)
  BY DEF Alike, Same, Dialling, OnTimer, OnHttp, OnStream
<1> QED BY <1>1, <1>2, <1>3, <1>4 DEF ClientOK, Shape, Same

\* Only the request being made has a socket that can call back.
LEMMA CurrentSocket ==
    ASSUME ClientOK(client), NEW i \in Socks, client.sock[i].phase # "free",
           client.sock[i].phase # "closing" \/ ~client.sock[i].called
    PROVE  i = client.http /\ Dialling(client) /\ OnHttp(client) /\ client.alive
<1>1. i = client.http /\ client.http # 0
  BY ClientAssumption DEF ClientOK, SocksOK, SocksBut
<1>2. Dialling(client)
  BY <1>1 DEF ClientOK, Shape, AtRest, Idle, Streaming, Stopped, Quiet
<1>3. OnHttp(client)
  BY <1>1, <1>2 DEF Dialling, OnTimer, OnStream
<1>4. client.alive
  BY <1>1 DEF ClientOK, Idle, Quiet
<1> QED BY <1>1, <1>2, <1>3, <1>4

\* s_http_connected, a closed connection, or an answer of the server: only
\* the socket of the current request changes.
LEMMA SocketStep ==
    ASSUME ClientOK(client), NEW i \in Socks,
           client.sock[i].phase \in {"connecting", "sent"},
           \/ \E ph \in {"sent", "closing"} : client' = [client EXCEPT !.sock[i].phase = ph]
           \/ \E r \in Int : client' = [client EXCEPT !.sock[i].rep = r]
    PROVE  ClientOK(client') /\ Serves(client, client') /\ Same(client, client')
<1>1. i = client.http /\ client \in Client /\ SocksOK(client)
  BY CurrentSocket DEF ClientOK
<1>2. client.sock[i] \in SockType /\ ~client.sock[i].called
  BY <1>1, ClientAssumption DEF SocksOK, Client
<1>3. PICK s \in SockType : /\ s.phase # "free" /\ ~s.called
                            /\ client' = [client EXCEPT !.sock[i] = s]
  <2>1. CASE \E ph \in {"sent", "closing"} : client' = [client EXCEPT !.sock[i].phase = ph]
    <3>1. PICK ph \in {"sent", "closing"} : client' = [client EXCEPT !.sock[i].phase = ph]
      BY <2>1
    <3> DEFINE s == [client.sock[i] EXCEPT !.phase = ph]
    <3>2. s \in SockType /\ s.phase # "free" /\ ~s.called
      BY <1>2 DEF SockType
    <3>3. client' = [client EXCEPT !.sock[i] = s]
      BY <3>1, <1>1, SockFields
    <3> QED BY <3>2, <3>3
  <2>2. CASE \E r \in Int : client' = [client EXCEPT !.sock[i].rep = r]
    <3>1. PICK r \in Int : client' = [client EXCEPT !.sock[i].rep = r]
      BY <2>2
    <3> DEFINE s == [client.sock[i] EXCEPT !.rep = r]
    <3>2. s \in SockType /\ s.phase # "free" /\ ~s.called
      BY <1>2 DEF SockType
    <3>3. client' = [client EXCEPT !.sock[i] = s]
      BY <3>1, <1>1, SockFields
    <3> QED BY <3>2, <3>3
  <2> QED BY <2>1, <2>2
<1>4. /\ client' \in Client /\ Alike(client, client') /\ client'.sock[i] = s
      /\ \A j \in Socks : j # i => client'.sock[j] = client.sock[j]
  BY <1>1, <1>3, SockSet, SMTT(30)
<1>5. SocksOK(client')
  BY <1>1, <1>3, <1>4, SMTT(30) DEF SocksOK, SocksBut, Alike
<1> QED BY <1>4, <1>5, AlikeOK

\* A callback of the current request, after which its socket is marked or
\* deleted.
LEMMA CallbackStep ==
    ASSUME ClientOK(client), NEW i \in Socks, i = client.http, Dialling(client), client.alive,
           NEW b, Outcome(client, b), Sound(b, i),
           \/ client' = [b EXCEPT !.sock[i].phase = "closing", !.sock[i].called = TRUE]
           \/ client' = [b EXCEPT !.sock[i] = FreeSock]
    PROVE  ClientOK(client') /\ Serves(client, client') /\ Same(client, client')
<1>1. b \in Client /\ client \in Client
  BY DEF Sound, ClientOK
<1>2. client' \in Client /\ SocksOK(client') /\ Alike(b, client')
  <2>1. CASE client' = [b EXCEPT !.sock[i].phase = "closing", !.sock[i].called = TRUE]
    BY <1>1, <2>1, MarkOK
  <2>2. CASE client' = [b EXCEPT !.sock[i] = FreeSock]
    BY <1>1, <2>2, MarkOK
  <2> QED BY <2>1, <2>2
<1> QED BY <1>1, <1>2, OutcomeTo, OutcomeOK

\* s_http_error.
LEMMA HttpErrorOK ==
    ASSUME ClientOK(client), NEW i \in Socks, HttpError(i)
    PROVE  ClientOK(client') /\ Serves(client, client') /\ Same(client, client')
<1>1. /\ client.sock[i].phase \in {"connecting", "sent"}
      /\ client' = [RequestError(client) EXCEPT
                      !.sock[i].phase = "closing", !.sock[i].called = TRUE]
  BY DEF HttpError
<1>2. i = client.http /\ Dialling(client) /\ OnHttp(client) /\ client.alive
  BY <1>1, CurrentSocket
<1>3. Outcome(client, RequestError(client)) /\ Sound(RequestError(client), i)
  BY <1>2, RequestErrorOK DEF ClientOK
<1> QED BY <1>1, <1>2, <1>3, CallbackStep

\* The two timers of an HTTP socket.
LEMMA HttpTimeoutOK ==
    ASSUME ClientOK(client), NEW i \in Socks, ConnectTimeout(i) \/ AnswerTimeout(i)
    PROVE  ClientOK(client') /\ Serves(client, client') /\ Same(client, client')
<1>1. /\ client.sock[i].phase \in {"connecting", "sent"}
      /\ client' = [RequestError(client) EXCEPT !.sock[i] = FreeSock]
  BY DEF ConnectTimeout, AnswerTimeout, HttpTimeout
<1>2. i = client.http /\ Dialling(client) /\ OnHttp(client) /\ client.alive
  BY <1>1, CurrentSocket
<1>3. Outcome(client, RequestError(client)) /\ Sound(RequestError(client), i)
  BY <1>2, RequestErrorOK DEF ClientOK
<1> QED BY <1>1, <1>2, <1>3, CallbackStep

\* The steps of the HTTP sockets.
LEMMA HttpStepOK ==
    ASSUME ClientOK(client), NEW i \in Socks, HttpStep(i)
    PROVE  ClientOK(client') /\ Serves(client, client') /\ Same(client, client')
<1>1. \A rep \in Readable(i) : rep \in Int
  <2>1. client.sock[i] \in SockType
    BY DEF ClientOK, Client
  <2> QED BY <2>1, SMTT(30) DEF Readable, BadReply, SockType
<1>2. CASE HttpConnected(i)
  BY <1>2, SocketStep DEF HttpConnected
<1>3. CASE HttpPeerClosed(i)
  BY <1>3, SocketStep DEF HttpPeerClosed
<1>4. ASSUME NEW rep \in Readable(i), HttpResponse(i, rep)
      PROVE  ClientOK(client') /\ Serves(client, client') /\ Same(client, client')
  <2>1. i = client.http /\ Dialling(client) /\ OnHttp(client) /\ client.alive
    BY <1>4, CurrentSocket DEF HttpResponse
  <2>2. PICK b \in RequestResponse(client, rep) :
          client' = [b EXCEPT !.sock[i].phase = "closing", !.sock[i].called = TRUE]
    BY <1>4 DEF HttpResponse
  <2>3. FreeSocks(client) # {} /\ rep \in Int
    BY <1>1, <1>4 DEF HttpResponse
  <2>4. Outcome(client, b) /\ Sound(b, i)
    BY <2>1, <2>3, RequestResponseOK DEF ClientOK
  <2> QED BY <2>1, <2>2, <2>4, CallbackStep
<1>5. ASSUME NEW rep \in Readable(i), HttpDelete(i, rep)
      PROVE  ClientOK(client') /\ Serves(client, client') /\ Same(client, client')
  <2>1. CASE client.sock[i].called
    <3>1. client' = [client EXCEPT !.sock[i] = FreeSock] /\ client.sock[i].phase = "closing"
      BY <1>5, <2>1 DEF HttpDelete
    <3>2. Sound(client, i)
      BY <2>1, <3>1, ClientAssumption DEF ClientOK, SocksOK, SocksBut, Sound
    <3>3. client' \in Client /\ SocksOK(client') /\ Alike(client, client')
      BY <3>1, <3>2, MarkOK DEF ClientOK
    <3> QED BY <3>3, AlikeOK
  <2>2. CASE ~client.sock[i].called
    <3>1. PICK b \in {RequestError(client)}
                      \cup (IF FreeSocks(client) = {} THEN {}
                            ELSE RequestResponse(client, rep)) :
            client' = [b EXCEPT !.sock[i] = FreeSock]
      BY <1>5, <2>2 DEF HttpDelete
    <3>2. i = client.http /\ Dialling(client) /\ OnHttp(client) /\ client.alive
      BY <1>5, <2>2, CurrentSocket DEF HttpDelete
    <3>3. \/ b = RequestError(client)
          \/ FreeSocks(client) # {} /\ b \in RequestResponse(client, rep)
      BY <3>1
    <3>4. Outcome(client, b) /\ Sound(b, i)
      BY <1>1, <3>2, <3>3, RequestErrorOK, RequestResponseOK DEF ClientOK
    <3> QED BY <3>1, <3>2, <3>4, CallbackStep
  <2> QED BY <2>1, <2>2
<1> QED BY <1>2, <1>3, <1>4, <1>5, HttpTimeoutOK DEF HttpStep

-----------------------------------------------------------------------------
\* SocksOK is Sound while no callback is being run.
LEMMA SoundZero ==
    ASSUME NEW c \in Client
    PROVE  SocksOK(c) <=> Sound(c, 0)
BY ClientAssumption DEF SocksOK, Sound

\* s_timer_reconnect_callback.
LEMMA ReconnectOK ==
    ASSUME ClientOK(client), ReconnectTimer
    PROVE  ClientOK(client') /\ Serves(client, client') /\ Same(client, client')
<1> DEFINE c == client
           x == [c EXCEPT !.timer = FALSE]
<1>1. c \in Client /\ SocksOK(c) /\ c.timer /\ FreeSocks(c) # {} /\ client' \in BeginEncInit(x)
  BY DEF ClientOK, ReconnectTimer
<1>2. Dialling(c) /\ OnTimer(c) /\ c.alive
  BY <1>1
     DEF ClientOK, Shape, AtRest, Idle, Streaming, Stopped, Quiet, Dialling, OnHttp, OnStream
<1>3. x \in Client
  BY <1>1 DEF Client
<1>4. /\ Same(c, x) /\ x.attempts = c.attempts /\ x.said = c.said /\ ~x.timer
      /\ x.stream = c.stream /\ x.http = c.http /\ x.sock = c.sock
  BY <1>1 DEF Client, Same
<1> HIDE DEF x
<1>5. Sound(x, 0) /\ FreeSocks(x) # {}
  BY <1>1, <1>3, <1>4, SoundZero, SMTT(30) DEF SocksOK, SocksBut, FreeSocks
<1>6. Ready(x)
  BY <1>2, <1>4 DEF Ready, Quiet, OnTimer, Dialling, Same
<1>7. Outcome(x, client') /\ Sound(client', 0)
  BY <1>1, <1>3, <1>5, <1>6, BeginEncInitOK
<1>8. Outcome(c, client')
  BY <1>4, <1>7, OutcomeFrom
<1>9. client' \in Client /\ SocksOK(client')
  BY <1>7, SoundZero DEF Sound
<1> QED BY <1>1, <1>2, <1>8, <1>9, OutcomeOK

\* s_stream_es_callback_connected: the stream is up and the packets that
\* waited are on the channel.
LEMMA StreamConnectedOK ==
    ASSUME ClientOK(client), StreamConnected
    PROVE  /\ ClientOK(client') /\ Serves(client, client') /\ client'.alive = client.alive
           /\ client'.sent = client.sent \o client.pkts /\ client'.pkts = <<>>
           /\ client'.stream = "up" /\ client'.http = 0 /\ client'.sid = client.sid
<1> DEFINE c == client
           x == [c EXCEPT !.stage = 4, !.stream = "up"]
           y == [x EXCEPT !.stage = 5, !.attempts = 0]
           t == y.sent \o y.pkts
           z == [y EXCEPT !.status = "COMPLETE", !.said = "connected", !.sent = t, !.pkts = <<>>]
           w == [z EXCEPT !.watch = TRUE]
<1>1. c \in Client /\ SocksOK(c) /\ c.stream = "connecting"
  BY DEF ClientOK, StreamConnected
<1>2. Dialling(c) /\ OnStream(c) /\ c.alive /\ c.target = 5 /\ c.stage = 3
  BY <1>1
     DEF ClientOK, Shape, AtRest, Idle, Streaming, Stopped, Quiet, Dialling, OnHttp,
              OnTimer, OnStream
<1>3. x \in Client
  BY <1>1 DEF Client
<1>4. /\ Same(c, x) /\ x.stage = 4 /\ x.stream = "up" /\ x.timer = c.timer
      /\ x.http = c.http /\ x.sock = c.sock /\ x.sid = c.sid
  BY <1>1 DEF Client, Same
<1>5. \E b \in GoOn(c, BeginConnected(c)) : client' = [b EXCEPT !.watch = TRUE]
  BY DEF StreamConnected, Streams
<1>6. GoOn(c, BeginConnected(c)) = GoOn(x, BeginStreaming(x))
  BY <1>2, SMTT(30) DEF GoOn, BeginConnected, STAGE_STREAM_CONNECTED
<1> HIDE DEF x
<1>7. x.target = 5
  BY <1>2, <1>4 DEF Same
<1>8. y \in Client
  BY <1>3 DEF Client
<1>9. /\ Same(x, y) /\ y.stage = 5 /\ y.attempts = 0 /\ y.stream = x.stream
      /\ y.timer = x.timer /\ y.http = x.http /\ y.sock = x.sock /\ y.sid = x.sid
  BY <1>3 DEF Client, Same
<1>10. GoOn(x, BeginStreaming(x)) = BeginStreaming(x)
  BY <1>4, <1>7, SMTT(30) DEF GoOn
<1>11. BeginStreaming(x) = {Achieved(y)}
  BY <1>7, <1>9 DEF BeginStreaming, STAGE_STREAM_STREAMING, Same
<1> HIDE DEF y
<1>12. t \in Seq(Nat)
  BY <1>8, SMTT(30) DEF Client
<1>13. Achieved(y) = z
  BY DEF Achieved
<1> HIDE DEF t
<1>14. z \in Client
  <2> DEFINE e == <<>>
  <2>1. e \in Seq(Nat)
    BY SMTT(30)
  <2>2. z = [y EXCEPT !.status = "COMPLETE", !.said = "connected", !.sent = t, !.pkts = e]
    OBVIOUS
  <2> HIDE DEF e, z
  <2> QED BY <2>1, <2>2, <1>8, <1>12 DEF Client
<1>15. /\ z.status = "COMPLETE" /\ z.said = "connected" /\ z.sent = t /\ z.pkts = <<>>
       /\ z.target = y.target /\ z.always = y.always /\ z.alive = y.alive
       /\ z.stage = y.stage /\ z.attempts = y.attempts /\ z.stream = y.stream
       /\ z.timer = y.timer /\ z.http = y.http /\ z.sock = y.sock /\ z.sid = y.sid
  BY <1>8 DEF Client
<1> HIDE DEF z
<1>16. client' = w
  BY <1>5, <1>6, <1>10, <1>11, <1>13
<1>17. w \in Client /\ Alike(z, w) /\ w.sock = z.sock /\ w.sid = z.sid
  BY <1>14 DEF Client, Alike, Same
<1> HIDE DEF w
<1>18. /\ w.status = "COMPLETE" /\ w.said = "connected" /\ w.sent = c.sent \o c.pkts
       /\ w.pkts = <<>> /\ w.target = 5 /\ w.always = c.always /\ w.alive
       /\ w.stage = 5 /\ w.attempts = 0 /\ w.stream = "up"
       /\ ~w.timer /\ w.http = 0 /\ w.sock = c.sock /\ w.sid = c.sid
  BY <1>2, <1>4, <1>9, <1>15, <1>17, SMTT(30) DEF Alike, Same, OnStream, t
<1>19. SocksOK(w)
  BY <1>1, <1>2, <1>18, SMTT(30) DEF SocksOK, SocksBut, OnStream
<1>20. Streaming(w)
  BY <1>18 DEF Streaming
<1>21. Phase(w) = "up" /\ Phase(c) = "trying"
  BY <1>2, <1>18, SMTT(30) DEF Phase, OnStream, STAGE_BEGIN
<1>22. Serves(c, w)
  BY <1>18, <1>21 DEF Serves
<1> QED BY <1>2, <1>16, <1>17, <1>18, <1>19, <1>20, <1>22 DEF ClientOK, Shape

\* s_stream_es_callback_error and s_stream_es_callback_delete.
LEMMA StreamErrorOK ==
    ASSUME ClientOK(client), StreamError
    PROVE  ClientOK(client') /\ Serves(client, client') /\ Same(client, client')
<1> DEFINE c == client
           x == [c EXCEPT !.stream = "dead"]
<1>1. /\ c \in Client /\ SocksOK(c) /\ c.stream \in {"connecting", "up"}
      /\ client' = Failed(x)
  BY DEF ClientOK, StreamError, Aborted
<1>2. /\ c.alive /\ ~c.timer /\ c.http = 0
      /\ (Dialling(c) /\ OnStream(c)) \/ Streaming(c)
  BY <1>1
     DEF ClientOK, Shape, AtRest, Idle, Streaming, Stopped, Quiet, Dialling, OnHttp,
              OnTimer, OnStream
<1>3. Sound(c, 0)
  BY <1>1, SoundZero
<1>4. /\ x \in Client /\ Sound(x, 0) /\ Same(c, x) /\ x.stream = "dead"
      /\ x.stage = c.stage /\ x.status = c.status /\ x.attempts = c.attempts
      /\ x.said = c.said /\ x.timer = c.timer /\ x.http = c.http /\ x.sock = c.sock
  BY <1>1, <1>3, StreamSet
<1> HIDE DEF x
<1>5. Quiet(x)
  BY <1>2, <1>4 DEF Quiet
<1>6. Fails(x, client') /\ Sound(client', 0)
  BY <1>1, <1>4, <1>5, FailedOK
<1>7. Fails(c, client') /\ client' \in Client /\ SocksOK(client')
  BY <1>4, <1>6, SoundZero DEF Fails, Same, Sound
<1>8. CASE Dialling(c)
  BY <1>1, <1>2, <1>7, <1>8, OutcomeOK DEF Outcome
<1>9. CASE Streaming(c)
  <2>1. OnTimer(client') /\ client'.said = "error" /\ Same(c, client')
    BY <1>7, <1>9 DEF Fails, Streaming
  <2>2. Dialling(client') /\ client'.alive
    BY <2>1, <1>2, <1>9 DEF Dialling, OnTimer, Same, Streaming
  <2>3. Phase(c) = "up" /\ Phase(client') = "trying"
    BY <2>1, <2>2, <1>2, <1>9, SMTT(30) DEF Phase, OnTimer, Streaming, STAGE_BEGIN
  <2> QED BY <2>1, <2>2, <2>3, <1>7 DEF ClientOK, Shape, Serves, Same
<1> QED BY <1>2, <1>8, <1>9

\* The other callbacks of the stream socket.
LEMMA StreamQuietOK ==
    ASSUME ClientOK(client), StreamTimerOff \/ StreamRead
    PROVE  ClientOK(client') /\ Serves(client, client') /\ Same(client, client')
<1>1. client \in Client
  BY DEF ClientOK
<1>2. PICK f \in BOOLEAN : \/ client' = [client EXCEPT !.watch = f]
                           \/ client' = [client EXCEPT !.heard = f]
  BY DEF StreamTimerOff, StreamRead
<1>3. client' \in Client /\ Alike(client, client') /\ client'.sock = client.sock
  BY <1>1, <1>2, SMTT(30) DEF Client, Alike, Same
<1>4. SocksOK(client')
  BY <1>3 DEF ClientOK, SocksOK, SocksBut, Alike
<1> QED BY <1>3, <1>4, AlikeOK

-----------------------------------------------------------------------------
\* s_client_internal_clean for a client of any shape.
LEMMA CleanSound ==
    ASSUME NEW c \in Client, SocksOK(c)
    PROVE  LET d == Clean(c)
           IN  d \in Client /\ SocksOK(d) /\ Idle(d) /\ Same(c, d)
               /\ d.attempts = c.attempts /\ d.said = c.said
<1> DEFINE d == Clean(c)
<1>1. /\ d \in Client /\ Same(c, d) /\ Quiet(d)
      /\ d.stream = "none" /\ d.status = "COMPLETE" /\ d.stage = 0
      /\ d.attempts = c.attempts /\ d.said = c.said
      /\ \A i \in Socks : i # c.http => d.sock[i] = c.sock[i]
      /\ \A i \in Socks : i = c.http => d.sock[i] = FreeSock
  BY CleanOK
<1> HIDE DEF d
<1>2. FreeSock.phase = "free"
  BY DEF FreeSock
<1>3. SocksOK(d)
  BY <1>1, <1>2 DEF SocksOK, SocksBut, Quiet
<1> QED BY <1>1, <1>3 DEF d, Idle

\* The BEGIN case of s_stage_status_after: the client is at rest.
LEMMA BeginBeginOK ==
    ASSUME NEW c \in Client, SocksOK(c)
    PROVE  LET d == BeginBegin(c)
           IN  d \in Client /\ SocksOK(d) /\ AtRest(d) /\ Same(c, d) /\ d.said = c.said
<1> DEFINE b == Clean(c)
           d == [b EXCEPT !.attempts = 0]
<1>1. b \in Client /\ SocksOK(b) /\ Idle(b) /\ Same(c, b) /\ b.said = c.said
  BY CleanSound
<1>2. BeginBegin(c) = d
  BY DEF BeginBegin
<1> HIDE DEF b
<1>3. d \in Client
  BY <1>1 DEF Client
<1>4. /\ Same(b, d) /\ d.attempts = 0 /\ d.said = b.said /\ d.stage = b.stage
      /\ d.status = b.status /\ d.timer = b.timer /\ d.http = b.http
      /\ d.stream = b.stream /\ d.sock = b.sock
  BY <1>1 DEF Client, Same
<1> HIDE DEF d
<1>5. SocksOK(d)
  BY <1>1, <1>4 DEF SocksOK, SocksBut
<1>6. AtRest(d) /\ Same(c, d)
  BY <1>1, <1>4 DEF AtRest, Idle, Quiet, Same
<1> QED BY <1>1, <1>2, <1>3, <1>4, <1>5, <1>6

\* s_go_stage_on_client_worker_unsafe.
LEMMA GoStageOK ==
    ASSUME NEW c, ClientOK(c), c.alive, FreeSocks(c) # {}, NEW stage \in {0, 5},
           NEW e \in GoStage(c, stage)
    PROVE  /\ ClientOK(e) /\ Serves(c, e)
           /\ e.sent = c.sent /\ e.pkts = c.pkts /\ e.alive
<1> DEFINE d == [c EXCEPT !.said = "nothing", !.target = stage]
<1>1. c \in Client /\ SocksOK(c) /\ Shape(c)
  BY DEF ClientOK
<1>2. d \in Client
  BY <1>1 DEF Client
<1>3. /\ d.said = "nothing" /\ d.target = stage /\ d.sent = c.sent /\ d.pkts = c.pkts
      /\ d.alive = c.alive /\ d.always = c.always /\ d.stage = c.stage /\ d.status = c.status
      /\ d.attempts = c.attempts /\ d.timer = c.timer /\ d.http = c.http
      /\ d.stream = c.stream /\ d.sock = c.sock
  BY <1>1 DEF Client
<1>4. e \in IF c.status = "COMPLETE" /\ c.stage = c.target /\ c.target <= stage
            THEN IF c.target < stage THEN BeginEncInit(d) ELSE {c}
            ELSE {BeginBegin(d)}
  BY DEF GoStage
<1> HIDE DEF d
<1>5. SocksOK(d)
  BY <1>1, <1>3 DEF SocksOK, SocksBut
<1>6. CASE e = c
  BY <1>6 DEF Serves
<1>7. CASE e = BeginBegin(d)
  <2>1. e \in Client /\ SocksOK(e) /\ AtRest(e) /\ Same(d, e) /\ e.said = "nothing"
    BY <1>2, <1>3, <1>5, <1>7, BeginBeginOK
  <2>2. Phase(e) = "rest" /\ Phase(c) # "gone" /\ e.alive
    BY <1>3, <2>1 DEF Phase, AtRest, Idle, Same, STAGE_BEGIN
  <2> QED BY <1>3, <2>1, <2>2 DEF ClientOK, Shape, Serves, Same
<1>8. CASE /\ c.status = "COMPLETE" /\ c.stage = c.target /\ c.target < stage
           /\ e \in BeginEncInit(d)
  <2>1. AtRest(c) /\ stage = 5
    BY <1>1, <1>8, SMTT(30)
       DEF Client, Shape, Streaming, Stopped, Dialling, OnTimer, OnHttp, OnStream
  <2>2. Ready(d) /\ FreeSocks(d) # {} /\ d.attempts = 0
    BY <1>3, <2>1 DEF Ready, Quiet, AtRest, Idle, FreeSocks
  <2>3. Outcome(d, e) /\ Sound(e, 0)
    BY <1>2, <1>5, <1>8, <2>2, SoundZero, BeginEncInitOK
  <2>4. e \in Client /\ SocksOK(e)
    BY <2>3, SoundZero DEF Sound
  <2>5. Same(d, e) /\ e.alive /\ e.target = 5
    BY <1>3, <2>1, <2>3 DEF Outcome, Fails, Same
  <2>6. Phase(c) = "rest"
    BY <2>1 DEF Phase, AtRest, Idle, STAGE_BEGIN
  <2>7. CASE OnTimer(e) /\ e.said = "error"
    BY <1>3, <2>4, <2>5, <2>6, <2>7
       DEF ClientOK, Shape, Dialling, OnTimer, Serves, Phase, Same
  <2>8. CASE Stopped(e) /\ e.said = "nothing"
    BY <1>3, <2>4, <2>5, <2>6, <2>8 DEF ClientOK, Shape, Stopped, Serves, Phase, Same
  <2>9. CASE (OnHttp(e) \/ OnStream(e)) /\ e.said = "nothing"
    BY <1>3, <2>4, <2>5, <2>6, <2>9
       DEF ClientOK, Shape, Dialling, OnHttp, OnStream, Serves, Phase, Same
  <2> QED BY <1>3, <2>2, <2>3, <2>7, <2>8, <2>9 DEF Outcome, Fails
<1> QED BY <1>4, <1>6, <1>7, <1>8

-----------------------------------------------------------------------------
\* Packets, as they went to the channel and as they wait for it.
All(c) == c.sent \o c.pkts

\* The packets `a' are in the order they were written, and before those still
\* in the queue q; n is the number written last.
Numbered(a, q, n) ==
    /\ \A k, l \in 1..Len(a) : k < l => a[k] < a[l]
    /\ \A k \in 1..Len(a) : a[k] <= n
    /\ \A j \in 1..Len(q) : q[j][1] = "write" =>
          /\ q[j][2] <= n
          /\ \A k \in 1..Len(a) : a[k] < q[j][2]
          /\ \A l \in 1..Len(q) : q[l][1] = "write" /\ j < l => q[j][2] < q[l][2]

Message == {"go", "write", "clear", "delete"} \X Nat

OwnerType == [last : {0, 5}, ops : Nat, removing : BOOLEAN, due : SUBSET Nat]

\* The packets in the queue q.
Writes(q) == {q[j][2] : j \in {j \in 1..Len(q) : q[j][1] = "write"}}

\* What the owner has queued: nothing after the delete.
QueueOK ==
    /\ owner \in OwnerType
    /\ queue \in Seq(Message)
    /\ \A j \in 1..Len(queue) :
          /\ queue[j][1] = "go" => queue[j][2] \in {0, 5}
          /\ queue[j][1] = "delete" => j = Len(queue) /\ owner.removing
    /\ ~client.alive => queue = <<>> /\ owner.removing

\* Every packet written and not cleared is somewhere.
Kept == owner.due = Range(All(client)) \cup Writes(queue)

Inv == ClientOK(client) /\ QueueOK /\ Numbered(All(client), queue, owner.ops) /\ Kept

\* Joining packets: nothing is added by an empty queue, and a packet added to
\* the second part is added at the end.
LEMMA Joined ==
    ASSUME NEW s \in Seq(Nat), NEW t \in Seq(Nat), NEW n \in Nat
    PROVE  /\ s \o <<>> = s
           /\ s \o Append(t, n) = Append(s \o t, n)
           /\ s \o t \in Seq(Nat)
           /\ Len(s) <= Len(s \o t)
           /\ \A k \in 1..Len(s) : (s \o t)[k] = s[k]
BY SMTT(30)

\* The packets of two lists joined.
LEMMA RangeJoined ==
    ASSUME NEW s \in Seq(Nat), NEW t \in Seq(Nat)
    PROVE  Range(s \o t) = Range(s) \cup Range(t)
<1>1. /\ DOMAIN s = 1..Len(s) /\ DOMAIN t = 1..Len(t)
      /\ Len(s) \in Nat /\ Len(t) \in Nat
      /\ DOMAIN (s \o t) = 1..(Len(s) + Len(t))
      /\ \A k \in 1..Len(s) : (s \o t)[k] = s[k]
      /\ \A k \in 1..Len(t) : (s \o t)[Len(s) + k] = t[k]
  BY SMTT(30)
<1> DEFINE u == s \o t
<1> HIDE DEF u
<1>2. ASSUME NEW x \in Range(u) PROVE x \in Range(s) \cup Range(t)
  <2>1. PICK k \in 1..(Len(s) + Len(t)) : x = u[k]
    BY <1>1, <1>2 DEF Range, u
  <2>2. k \in 1..Len(s) \/ (k - Len(s) \in 1..Len(t) /\ k = Len(s) + (k - Len(s)))
    BY <1>1, SMTT(30)
  <2> QED BY <2>1, <2>2, <1>1 DEF Range, u
<1>3. ASSUME NEW k \in 1..Len(s) PROVE s[k] \in Range(u)
  <2>1. k \in 1..(Len(s) + Len(t))
    BY <1>1, SMTT(30)
  <2> QED BY <2>1, <1>1 DEF Range, u
<1>4. ASSUME NEW k \in 1..Len(t) PROVE t[k] \in Range(u)
  <2>1. Len(s) + k \in 1..(Len(s) + Len(t))
    BY <1>1, SMTT(30)
  <2> QED BY <2>1, <1>1 DEF Range, u
<1>5. \A x \in Range(s) \cup Range(t) : x \in Range(u)
  BY <1>1, <1>3, <1>4 DEF Range
<1> QED BY <1>2, <1>5 DEF u

\* The packets of a list with one more.
LEMMA RangeAdded ==
    ASSUME NEW s \in Seq(Nat), NEW n \in Nat
    PROVE  Range(Append(s, n)) = Range(s) \cup {n}
<1>1. <<n>> \in Seq(Nat) /\ Append(s, n) = s \o <<n>> /\ Range(<<n>>) = {n}
  BY SMTT(30) DEF Range
<1>2. Range(s \o <<n>>) = Range(s) \cup Range(<<n>>)
  BY <1>1, RangeJoined
<1> QED BY <1>1, <1>2

\* The packets of a queue with one more message.
LEMMA WritesAdded ==
    ASSUME NEW q \in Seq(Message), NEW m \in Message
    PROVE  Writes(Append(q, m)) = Writes(q) \cup IF m[1] = "write" THEN {m[2]} ELSE {}
<1> DEFINE p == Append(q, m)
           N == Len(q) + 1
<1>1. /\ \A j \in 1..Len(p) : j \in 1..Len(q) \/ j = N
      /\ \A j \in 1..Len(q) : j \in 1..Len(p) /\ p[j] = q[j]
      /\ N \in 1..Len(p) /\ p[N] = m
  BY SMTT(30)
<1> HIDE DEF p, N
<1> QED BY <1>1 DEF Writes, p

\* The packets of a queue from which the first message is taken.
LEMMA WritesTaken ==
    ASSUME NEW q \in Seq(Message), q # <<>>
    PROVE  Writes(q) = Writes(Tail(q)) \cup IF q[1][1] = "write" THEN {q[1][2]} ELSE {}
<1> DEFINE p == Tail(q)
<1>1. /\ \A j \in 1..Len(p) : j + 1 \in 1..Len(q) /\ p[j] = q[j + 1]
      /\ \A j \in 1..Len(q) : j = 1 \/ (j - 1 \in 1..Len(p) /\ q[j] = p[j - 1])
      /\ 1 \in 1..Len(q)
  BY SMTT(30)
<1> HIDE DEF p
<1>2. ASSUME NEW x \in Writes(q)
      PROVE  x \in Writes(p) \/ (q[1][1] = "write" /\ x = q[1][2])
  <2>1. PICK j \in 1..Len(q) : q[j][1] = "write" /\ x = q[j][2]
    BY <1>2 DEF Writes
  <2>2. CASE j = 1
    BY <2>1, <2>2
  <2>3. CASE j - 1 \in 1..Len(p) /\ q[j] = p[j - 1]
    <3> DEFINE i == j - 1
    <3>1. i \in 1..Len(p) /\ p[i][1] = "write" /\ x = p[i][2]
      BY <2>1, <2>3
    <3> HIDE DEF i
    <3> QED BY <3>1 DEF Writes
  <2> QED BY <1>1, <2>2, <2>3
<1>3. ASSUME NEW x \in Writes(p) PROVE x \in Writes(q)
  <2>1. PICK j \in 1..Len(p) : p[j][1] = "write" /\ x = p[j][2]
    BY <1>3 DEF Writes
  <2> DEFINE i == j + 1
  <2>2. i \in 1..Len(q) /\ q[i][1] = "write" /\ x = q[i][2]
    BY <1>1, <2>1
  <2> HIDE DEF i
  <2> QED BY <2>2 DEF Writes
<1>4. q[1][1] = "write" => q[1][2] \in Writes(q)
  BY <1>1 DEF Writes
<1> QED BY <1>2, <1>3, <1>4 DEF p

\* Fewer packets, or a message taken from the queue.
LEMMA NumberedLess ==
    ASSUME NEW a \in Seq(Nat), NEW b \in Seq(Nat), Len(b) <= Len(a),
           \A k \in 1..Len(b) : b[k] = a[k],
           NEW q \in Seq(Message), q # <<>>, NEW n \in Nat, Numbered(a, q, n)
    PROVE  Numbered(b, Tail(q), n)
<1> DEFINE p == Tail(q)
<1>1. \A j \in 1..Len(p) : j \in Nat /\ j + 1 \in 1..Len(q) /\ p[j] = q[j + 1]
  BY SMTT(30)
<1>2. \A k \in 1..Len(b) : k \in 1..Len(a) /\ b[k] = a[k]
  BY SMTT(30)
<1> HIDE DEF p
<1>3. \A k, l \in 1..Len(b) : k < l => b[k] < b[l]
  BY <1>2 DEF Numbered
<1>4. \A k \in 1..Len(b) : b[k] <= n
  BY <1>2 DEF Numbered
<1>5. ASSUME NEW j \in 1..Len(p), p[j][1] = "write"
      PROVE  /\ p[j][2] <= n
             /\ \A k \in 1..Len(b) : b[k] < p[j][2]
             /\ \A l \in 1..Len(p) : p[l][1] = "write" /\ j < l => p[j][2] < p[l][2]
  <2>1. /\ q[j + 1][2] <= n
        /\ \A k \in 1..Len(a) : a[k] < q[j + 1][2]
        /\ \A l \in 1..Len(q) : q[l][1] = "write" /\ j + 1 < l => q[j + 1][2] < q[l][2]
    BY <1>1, <1>5 DEF Numbered
  <2>2. ASSUME NEW l \in 1..Len(p), p[l][1] = "write", j < l
        PROVE  p[j][2] < p[l][2]
    <3>1. l + 1 \in 1..Len(q) /\ p[l] = q[l + 1] /\ j + 1 < l + 1
      BY <1>1, <2>2, SMTT(30)
    <3> QED BY <1>1, <2>1, <2>2, <3>1
  <2> QED BY <2>1, <2>2, <1>1, <1>2
<1> QED BY <1>3, <1>4, <1>5 DEF Numbered, p

\* Packets on the channel, packets that wait and packets in the queue are
\* different packets.
LEMMA Apart ==
    ASSUME NEW s \in Seq(Nat), NEW t \in Seq(Nat), NEW q \in Seq(Message), NEW n \in Nat,
           Numbered(s \o t, q, n)
    PROVE  Range(s) \cap Range(t) = {} /\ Writes(q) \cap Range(t) = {}
<1> DEFINE u == s \o t
<1>1. /\ DOMAIN s = 1..Len(s) /\ DOMAIN t = 1..Len(t)
      /\ Len(s) \in Nat /\ Len(t) \in Nat /\ Len(u) = Len(s) + Len(t)
      /\ \A k \in 1..Len(s) : u[k] = s[k] /\ s[k] \in Nat
      /\ \A k \in 1..Len(t) : u[Len(s) + k] = t[k] /\ t[k] \in Nat
  BY SMTT(30)
<1> HIDE DEF u
<1>2. ASSUME NEW k \in 1..Len(s), NEW l \in 1..Len(t) PROVE s[k] # t[l]
  <2>1. k \in 1..Len(u) /\ Len(s) + l \in 1..Len(u) /\ k < Len(s) + l
    BY <1>1, SMTT(30)
  <2>2. u[k] < u[Len(s) + l]
    BY <2>1 DEF Numbered, u
  <2>3. s[k] < t[l] /\ s[k] \in Nat /\ t[l] \in Nat
    BY <1>1, <2>2
  <2> QED BY <2>3, SMTT(30)
<1>3. ASSUME NEW j \in 1..Len(q), q[j][1] = "write", NEW l \in 1..Len(t) PROVE q[j][2] # t[l]
  <2>1. Len(s) + l \in 1..Len(u)
    BY <1>1, SMTT(30)
  <2>2. u[Len(s) + l] < q[j][2]
    BY <1>3, <2>1 DEF Numbered, u
  <2>3. t[l] < q[j][2] /\ t[l] \in Nat
    BY <1>1, <2>2
  <2>4. q[j] \in Message
    BY SMTT(30)
  <2>5. q[j][2] \in Nat
    BY <2>4 DEF Message
  <2> DEFINE x == t[l]
             y == q[j][2]
  <2>6. x \in Nat /\ y \in Nat /\ x < y
    BY <2>3, <2>5
  <2> HIDE DEF x, y
  <2>7. y # x
    BY <2>6, SMTT(30)
  <2> QED BY <2>7 DEF x, y
<1>4. DOMAIN s = 1..Len(s) /\ DOMAIN t = 1..Len(t)
  BY <1>1
<1>5. Range(s) \cap Range(t) = {}
  BY <1>2, <1>4 DEF Range
<1>6. ASSUME NEW x \in Writes(q), x \in Range(t) PROVE FALSE
  <2>1. PICK j \in 1..Len(q) : q[j][1] = "write" /\ x = q[j][2]
    BY <1>6 DEF Writes
  <2>2. PICK l \in 1..Len(t) : x = t[l]
    BY <1>4, <1>6 DEF Range
  <2> QED BY <1>3, <2>1, <2>2
<1> QED BY <1>5, <1>6

\* The packet at the head of the queue follows those before it.
LEMMA NumberedMore ==
    ASSUME NEW a \in Seq(Nat), NEW q \in Seq(Message), q # <<>>, q[1][1] = "write",
           NEW n \in Nat, Numbered(a, q, n)
    PROVE  Numbered(Append(a, q[1][2]), Tail(q), n)
<1> DEFINE b == Append(a, q[1][2])
           p == Tail(q)
<1>1. \A j \in 1..Len(p) : j \in Nat /\ 1 < j + 1 /\ j + 1 \in 1..Len(q) /\ p[j] = q[j + 1]
  BY SMTT(30)
<1>2. /\ Len(b) = Len(a) + 1 /\ Len(a) \in Nat
      /\ \A k \in 1..Len(a) : b[k] = a[k]
      /\ b[Len(a) + 1] = q[1][2]
  BY SMTT(30)
<1>3. 1 \in 1..Len(q)
  BY SMTT(30)
<1>4. /\ q[1][2] <= n
      /\ \A k \in 1..Len(a) : a[k] < q[1][2]
      /\ \A l \in 1..Len(q) : q[l][1] = "write" /\ 1 < l => q[1][2] < q[l][2]
  BY <1>3 DEF Numbered
<1>5. \A k \in 1..Len(b) : k \in 1..Len(a) \/ k = Len(a) + 1
  BY <1>2, SMTT(30)
<1> HIDE DEF b, p
<1>6. ASSUME NEW k \in 1..Len(b), NEW l \in 1..Len(b), k < l
      PROVE  b[k] < b[l]
  <2>1. k \in 1..Len(a)
    BY <1>2, <1>5, <1>6, SMTT(30)
  <2>2. CASE l \in 1..Len(a)
    BY <2>1, <2>2, <1>2, <1>6 DEF Numbered
  <2>3. CASE l = Len(a) + 1
    BY <2>1, <2>3, <1>2, <1>4
  <2> QED BY <2>2, <2>3, <1>5
<1>7. \A k \in 1..Len(b) : b[k] <= n
  BY <1>2, <1>4, <1>5 DEF Numbered
<1>8. ASSUME NEW j \in 1..Len(p), p[j][1] = "write"
      PROVE  /\ p[j][2] <= n
             /\ \A k \in 1..Len(b) : b[k] < p[j][2]
             /\ \A l \in 1..Len(p) : p[l][1] = "write" /\ j < l => p[j][2] < p[l][2]
  <2>1. /\ q[j + 1][2] <= n
        /\ \A k \in 1..Len(a) : a[k] < q[j + 1][2]
        /\ \A l \in 1..Len(q) : q[l][1] = "write" /\ j + 1 < l => q[j + 1][2] < q[l][2]
    BY <1>1, <1>8 DEF Numbered
  <2>2. q[1][2] < q[j + 1][2]
    BY <1>1, <1>4, <1>8
  <2>3. ASSUME NEW l \in 1..Len(p), p[l][1] = "write", j < l
        PROVE  p[j][2] < p[l][2]
    <3>1. l + 1 \in 1..Len(q) /\ p[l] = q[l + 1] /\ j + 1 < l + 1
      BY <1>1, <2>3, SMTT(30)
    <3> QED BY <1>1, <2>1, <2>3, <3>1
  <2>4. \A k \in 1..Len(b) : b[k] < p[j][2]
    BY <2>1, <2>2, <1>1, <1>2, <1>5
  <2> QED BY <2>1, <2>3, <2>4, <1>1
<1> QED BY <1>6, <1>7, <1>8 DEF Numbered, b, p

\* dap_client_write_unsafe: the packet is the last one.
LEMMA WriteOK ==
    ASSUME NEW c, ClientOK(c), c.alive, NEW pkt \in Nat
    PROVE  LET d == Write(c, pkt)
           IN  ClientOK(d) /\ Serves(c, d) /\ d.alive /\ All(d) = Append(All(c), pkt)
<1> DEFINE s == Append(c.sent, pkt)
           t == Append(c.pkts, pkt)
           u == [c EXCEPT !.sent = s]
           x == [c EXCEPT !.pkts = t]
           y == [x EXCEPT !.target = 5]
<1>1. c \in Client /\ SocksOK(c) /\ Shape(c) /\ c.sent \in Seq(Nat) /\ c.pkts \in Seq(Nat)
  BY DEF ClientOK, Client
<1>2. /\ s \in Seq(Nat) /\ t \in Seq(Nat)
      /\ c.sent \o t = Append(All(c), pkt)
      /\ c.pkts = <<>> => s \o c.pkts = Append(All(c), pkt)
  <2>1. s \in Seq(Nat) /\ t \in Seq(Nat)
    BY <1>1, SMTT(30)
  <2>2. c.sent \o t = Append(c.sent \o c.pkts, pkt)
    BY <1>1, Joined
  <2>3. c.sent \o <<>> = c.sent
    BY <1>1, Joined
  <2>4. s \o <<>> = s
    <3> HIDE DEF s
    <3> QED BY <2>1, Joined
  <2> QED BY <2>1, <2>2, <2>3, <2>4 DEF All
<1>3. Write(c, pkt) = IF c.stream = "up" THEN u
                      ELSE IF c.target = 5 /\ c.status = "IN_PROGRESS" THEN x
                      ELSE BeginBegin(y)
  BY DEF Write, QueueAdd, STAGE_STREAM_STREAMING
<1> HIDE DEF s, t
<1>4. u \in Client /\ x \in Client
  BY <1>1, <1>2 DEF Client
<1>5. /\ u.sent = s /\ u.pkts = c.pkts /\ u.target = c.target /\ u.alive = c.alive
      /\ u.always = c.always /\ u.stage = c.stage /\ u.status = c.status
      /\ u.attempts = c.attempts /\ u.timer = c.timer /\ u.http = c.http
      /\ u.stream = c.stream /\ u.said = c.said /\ u.sock = c.sock
  BY <1>1 DEF Client
<1>6. /\ x.sent = c.sent /\ x.pkts = t /\ x.target = c.target /\ x.alive = c.alive
      /\ x.always = c.always /\ x.stage = c.stage /\ x.status = c.status
      /\ x.attempts = c.attempts /\ x.timer = c.timer /\ x.http = c.http
      /\ x.stream = c.stream /\ x.said = c.said /\ x.sock = c.sock
  BY <1>1 DEF Client
<1> HIDE DEF u, x
<1>7. CASE c.stream = "up"
  <2>1. Streaming(c)
    BY <1>1, <1>7
       DEF Shape, AtRest, Idle, Stopped, Quiet, Dialling, OnTimer, OnHttp, OnStream
  <2>2. Streaming(u) /\ SocksOK(u) /\ u.alive
    BY <1>1, <1>5, <2>1 DEF Streaming, SocksOK, SocksBut
  <2>3. Serves(c, u)
    BY <1>5 DEF Serves, Phase
  <2>4. All(u) = Append(All(c), pkt)
    BY <1>2, <1>5, <2>1 DEF All, Streaming
  <2> QED BY <1>3, <1>4, <1>7, <2>2, <2>3, <2>4 DEF ClientOK, Shape
<1>8. CASE c.stream # "up" /\ c.target = 5 /\ c.status = "IN_PROGRESS"
  <2>1. Dialling(c)
    BY <1>1, <1>8 DEF Shape, AtRest, Idle, Stopped, Streaming
  <2>2. Dialling(x)
    BY <1>6, <2>1 DEF Dialling, OnTimer, OnHttp, OnStream
  <2>3. SocksOK(x) /\ x.alive
    BY <1>1, <1>6 DEF SocksOK, SocksBut
  <2>4. Serves(c, x)
    BY <1>6 DEF Serves, Phase
  <2>5. All(x) = Append(All(c), pkt)
    BY <1>2, <1>6 DEF All
  <2> QED BY <1>3, <1>4, <1>8, <2>2, <2>3, <2>4, <2>5 DEF ClientOK, Shape
<1>9. CASE c.stream # "up" /\ ~(c.target = 5 /\ c.status = "IN_PROGRESS")
  <2> DEFINE d == BeginBegin(y)
  <2>1. y \in Client
    BY <1>4 DEF Client
  <2>2. /\ y.sent = x.sent /\ y.pkts = x.pkts /\ y.alive = x.alive /\ y.always = x.always
        /\ y.said = x.said /\ y.http = x.http /\ y.sock = x.sock
    BY <1>4 DEF Client
  <2> HIDE DEF y
  <2>3. SocksOK(y)
    BY <1>1, <1>6, <2>2, SMTT(30) DEF SocksOK, SocksBut
  <2>4. d \in Client /\ SocksOK(d) /\ AtRest(d) /\ Same(y, d) /\ d.said = y.said
    BY <2>1, <2>3, BeginBeginOK
  <2> HIDE DEF d
  <2>5. /\ d.alive /\ d.sent = c.sent /\ d.pkts = t /\ d.always = c.always
        /\ d.said = c.said
    BY <1>6, <2>2, <2>4 DEF Same
  <2>6. Phase(d) = "rest" /\ Phase(c) # "gone"
    BY <2>4, <2>5 DEF Phase, AtRest, Idle, STAGE_BEGIN
  <2>7. Serves(c, d)
    BY <2>5, <2>6 DEF Serves
  <2>8. All(d) = Append(All(c), pkt)
    BY <1>2, <2>5 DEF All
  <2>9. Write(c, pkt) = d
    BY <1>3, <1>9 DEF d
  <2> QED BY <2>4, <2>5, <2>7, <2>8, <2>9 DEF ClientOK, Shape
<1> QED BY <1>7, <1>8, <1>9

\* dap_client_queue_clear, on the client's worker.
LEMMA ClearOK ==
    ASSUME NEW c, ClientOK(c), c.alive
    PROVE  LET d == [c EXCEPT !.pkts = <<>>]
           IN  ClientOK(d) /\ Serves(c, d) /\ d.alive /\ d.sent = c.sent /\ d.pkts = <<>>
<1> DEFINE e == <<>>
           d == [c EXCEPT !.pkts = e]
<1>1. c \in Client /\ SocksOK(c) /\ Shape(c) /\ e \in Seq(Nat) /\ e = <<>>
  BY SMTT(30) DEF ClientOK
<1> HIDE DEF e
<1>2. d \in Client
  BY <1>1 DEF Client
<1>3. /\ d.sent = c.sent /\ d.pkts = e /\ d.target = c.target /\ d.alive = c.alive
      /\ d.always = c.always /\ d.stage = c.stage /\ d.status = c.status
      /\ d.attempts = c.attempts /\ d.timer = c.timer /\ d.http = c.http
      /\ d.stream = c.stream /\ d.said = c.said /\ d.sock = c.sock
  BY <1>1 DEF Client
<1> HIDE DEF d
<1>4. SocksOK(d)
  BY <1>1, <1>3 DEF SocksOK, SocksBut
<1>5. Serves(c, d)
  BY <1>3 DEF Serves, Phase
<1>6. /\ AtRest(c) => AtRest(d)
      /\ Stopped(c) => Stopped(d)
      /\ Streaming(c) => Streaming(d)
  BY <1>1, <1>3 DEF AtRest, Idle, Stopped, Streaming, Quiet
<1>7. Dialling(c) => Dialling(d)
  BY <1>3 DEF Dialling, OnTimer, OnHttp, OnStream
<1>8. ClientOK(d)
  BY <1>1, <1>2, <1>3, <1>4, <1>6, <1>7 DEF ClientOK, Shape
<1> QED BY <1>1, <1>3, <1>5, <1>8 DEF d

\* dap_client_delete_unsafe: everything pending is gone with the client.
LEMMA DeleteOK ==
    ASSUME NEW c, ClientOK(c), c.alive
    PROVE  LET d == [Clean(c) EXCEPT !.alive = FALSE]
           IN  ClientOK(d) /\ Serves(c, d) /\ ~d.alive /\ d.sent = c.sent /\ d.pkts = c.pkts
<1> DEFINE b == Clean(c)
           d == [b EXCEPT !.alive = FALSE]
<1>1. b \in Client /\ SocksOK(b) /\ Idle(b) /\ Same(c, b) /\ b.said = c.said
  BY CleanSound DEF ClientOK
<1> HIDE DEF b
<1>2. d \in Client
  BY <1>1 DEF Client
<1>3. /\ d.sent = b.sent /\ d.pkts = b.pkts /\ ~d.alive
      /\ d.always = b.always /\ d.stage = b.stage /\ d.status = b.status
      /\ d.timer = b.timer /\ d.http = b.http
      /\ d.stream = b.stream /\ d.said = b.said /\ d.sock = b.sock
  BY <1>1 DEF Client
<1> HIDE DEF d
<1>4. SocksOK(d) /\ Idle(d)
  BY <1>1, <1>3 DEF SocksOK, SocksBut, Idle, Quiet
<1>5. Serves(c, d)
  BY <1>1, <1>3 DEF Serves, Phase, Same
<1>6. ClientOK(d)
  BY <1>2, <1>3, <1>4 DEF ClientOK
<1> QED BY <1>1, <1>3, <1>5, <1>6 DEF d, b, Same

-----------------------------------------------------------------------------
\* A new client is at rest.
LEMMA InitOK == Init => Inv
<1> SUFFICES ASSUME Init PROVE Inv
  OBVIOUS
<1>1. PICK a \in AlwaysReconnect : client = NewClient(a)
  BY DEF Init, CInit
<1>2. queue = <<>> /\ owner = [last |-> 0, ops |-> 0, removing |-> FALSE, due |-> {}]
  BY DEF Init, CInit, STAGE_BEGIN
<1>3. a \in BOOLEAN
  BY ClientAssumption
<1> DEFINE s == [i \in Socks |-> FreeSock]
           e == <<>>
           z == 0
           c == [stage |-> 0, status |-> "COMPLETE", target |-> 0,
                 attempts |-> 0, timer |-> FALSE, http |-> 0, sock |-> s,
                 stream |-> "none", heard |-> FALSE, watch |-> FALSE, key |-> z, sid |-> z,
                 pkts |-> e, sent |-> e, said |-> "nothing", always |-> a, alive |-> TRUE]
<1>4. client = c
  BY <1>1 DEF NewClient, STAGE_BEGIN
<1>5. FreeSock \in SockType /\ FreeSock.phase = "free"
  BY SMTT(30) DEF FreeSock, SockType, NoReply
<1>6. s \in [Socks -> SockType] /\ e \in Seq(Nat) /\ z \in Int
      /\ \A i \in Socks : s[i].phase = "free"
  BY <1>5, SMTT(30)
<1>7. e \o e = <<>> /\ Len(e) = 0
  BY SMTT(30)
<1> HIDE DEF s, e, z
<1>8. c \in Client
  BY <1>3, <1>6 DEF Client
<1>9. SocksOK(c) /\ AtRest(c) /\ c.alive
  BY <1>6 DEF SocksOK, SocksBut, AtRest, Idle, Quiet
<1>10. ClientOK(client)
  BY <1>4, <1>8, <1>9 DEF ClientOK, Shape
<1>11. QueueOK
  BY <1>2, <1>4, <1>9, SMTT(30) DEF QueueOK, OwnerType
<1>12. All(client) = <<>>
  BY <1>4, <1>7 DEF All
<1>13. Numbered(All(client), queue, owner.ops)
  BY <1>2, <1>12, SMTT(30) DEF Numbered
<1>14. Kept
  BY <1>2, <1>12, SMTT(30) DEF Kept, Range, Writes
<1> QED BY <1>10, <1>11, <1>13, <1>14 DEF Inv

\* The owner's calls add a message to the queue.
LEMMA OwnerOK ==
    ASSUME Inv, Owner
    PROVE  Inv' /\ Serves(client, client')
<1>1. PICK m \in Message, o \in OwnerType :
        /\ queue' = Append(queue, m) /\ owner' = o /\ client' = client /\ ~owner.removing
        /\ o.ops = owner.ops + 1
        /\ m[1] = "go" => m[2] \in {0, 5}
        /\ m[1] = "delete" => o.removing
        /\ m[1] = "write" => m[2] = owner.ops + 1
        /\ o.due = owner.due \cup IF m[1] = "write" THEN {m[2]} ELSE {}
  <2>0. /\ owner \in OwnerType
        /\ owner.ops \in Nat
    BY DEF Inv, QueueOK, OwnerType
  <2>1. CASE \E stage \in {STAGE_BEGIN, STAGE_STREAM_STREAMING} : AskStage(stage)
    <3>1. PICK stage \in {0, 5} : AskStage(stage)
      BY <2>1 DEF STAGE_BEGIN, STAGE_STREAM_STREAMING
    <3> DEFINE m == <<"go", stage>>
               n == owner.ops + 1
               o == [owner EXCEPT !.last = stage, !.ops = n]
    <3>2. n \in Nat
      BY <2>0, SMTT(30)
    <3>3. queue' = Append(queue, m) /\ owner' = o /\ client' = client /\ ~owner.removing
      BY <3>1, <2>0 DEF AskStage
    <3>4. m \in Message /\ m[1] = "go" /\ m[2] = stage
      BY SMTT(30) DEF Message
    <3> HIDE DEF m, n
    <3>5. o \in OwnerType /\ o.ops = n /\ o.due = owner.due
      BY <2>0, <3>2 DEF OwnerType
    <3> QED BY <3>3, <3>4, <3>5 DEF n
  <2>2. CASE AskWrite
    <3> DEFINE n == owner.ops + 1
               m == <<"write", n>>
               d == owner.due \cup {n}
               o == [owner EXCEPT !.ops = n, !.due = d]
    <3>2. n \in Nat /\ d \in SUBSET Nat
      BY <2>0, SMTT(30) DEF OwnerType
    <3>3. queue' = Append(queue, m) /\ owner' = o /\ client' = client /\ ~owner.removing
      BY <2>2, <2>0 DEF AskWrite, OwnerType
    <3> HIDE DEF n, d
    <3>4. m \in Message /\ m[1] = "write" /\ m[2] = n
      BY <3>2 DEF Message
    <3> HIDE DEF m
    <3>5. o \in OwnerType /\ o.ops = n /\ o.due = d
      BY <2>0, <3>2 DEF OwnerType
    <3> QED BY <3>3, <3>4, <3>5 DEF n, d
  <2>3. CASE \E op \in {"clear", "delete"} : AskOther(op)
    <3>1. PICK op \in {"clear", "delete"} : AskOther(op)
      BY <2>3
    <3> DEFINE m == <<op, 0>>
               n == owner.ops + 1
               r == (op = "delete")
               o == [owner EXCEPT !.removing = r, !.ops = n]
    <3>2. n \in Nat /\ r \in BOOLEAN /\ (op = "delete" => r)
      BY <2>0, SMTT(30)
    <3>3. queue' = Append(queue, m) /\ owner' = o /\ client' = client /\ ~owner.removing
      BY <3>1, <2>0 DEF AskOther
    <3>4. m \in Message /\ m[1] = op
      BY DEF Message
    <3> HIDE DEF m, n, r
    <3>5. o \in OwnerType /\ o.ops = n /\ o.removing = r /\ o.due = owner.due
      BY <2>0, <3>2 DEF OwnerType
    <3> QED BY <3>2, <3>3, <3>4, <3>5 DEF n
  <2> QED BY <2>1, <2>2, <2>3 DEF Owner
<1> DEFINE q == Append(queue, m)
<1>2. /\ queue \in Seq(Message) /\ q \in Seq(Message) /\ Len(queue) \in Nat
      /\ Len(q) = Len(queue) + 1 /\ q[Len(queue) + 1] = m
      /\ \A j \in 1..Len(queue) : q[j] = queue[j]
  BY SMTT(30) DEF Inv, QueueOK
<1>3. \A j \in 1..Len(q) : j \in 1..Len(queue) \/ j = Len(queue) + 1
  BY <1>2, SMTT(30)
<1> HIDE DEF q
<1>4. \A j \in 1..Len(queue) : queue[j][1] # "delete"
  BY <1>1 DEF Inv, QueueOK
<1>5. client.alive
  BY <1>1 DEF Inv, QueueOK
<1>6. QueueOK'
  <2>1. ASSUME NEW j \in 1..Len(q)
        PROVE  /\ q[j][1] = "go" => q[j][2] \in {0, 5}
               /\ q[j][1] = "delete" => j = Len(q) /\ o.removing
    <3>1. CASE j \in 1..Len(queue)
      BY <3>1, <1>2, <1>4 DEF Inv, QueueOK
    <3>2. CASE j = Len(queue) + 1
      BY <3>2, <1>1, <1>2
    <3> QED BY <3>1, <3>2, <1>3
  <2> QED BY <2>1, <1>1, <1>2, <1>5 DEF QueueOK, q
<1> DEFINE a == All(client)
           n == owner.ops
<1>7. /\ a \in Seq(Nat) /\ n \in Nat /\ Numbered(a, queue, n)
      /\ \A k \in 1..Len(a) : a[k] \in Nat
      /\ \A j \in 1..Len(queue) : queue[j][2] \in Nat
  <2>1. client.sent \in Seq(Nat) /\ client.pkts \in Seq(Nat) /\ n \in Nat
    BY DEF Inv, ClientOK, Client, QueueOK, OwnerType
  <2>2. \A j \in 1..Len(queue) : queue[j] \in Message
    BY <1>2, SMTT(30)
  <2>3. \A j \in 1..Len(queue) : queue[j][2] \in Nat
    BY <2>2 DEF Message
  <2>4. a \in Seq(Nat)
    BY <2>1, Joined DEF All
  <2>5. Numbered(a, queue, n)
    BY DEF Inv
  <2> HIDE DEF a, n
  <2>6. \A k \in 1..Len(a) : a[k] \in Nat
    BY <2>4, SMTT(30)
  <2> QED BY <2>1, <2>3, <2>4, <2>5, <2>6
<1> HIDE DEF a, n
<1>8. Numbered(a, q, n + 1)
  <2>1. /\ \A k, l \in 1..Len(a) : k < l => a[k] < a[l]
        /\ \A k \in 1..Len(a) : a[k] <= n + 1
    BY <1>7, SMTT(30) DEF Numbered
  <2>2. ASSUME NEW j \in 1..Len(q), q[j][1] = "write"
        PROVE  /\ q[j][2] <= n + 1
               /\ \A k \in 1..Len(a) : a[k] < q[j][2]
               /\ \A l \in 1..Len(q) : q[l][1] = "write" /\ j < l => q[j][2] < q[l][2]
    <3>1. CASE j \in 1..Len(queue)
      <4>1. /\ queue[j][2] \in Nat /\ queue[j][2] <= n
            /\ \A k \in 1..Len(a) : a[k] < queue[j][2]
            /\ \A l \in 1..Len(queue) : queue[l][1] = "write" /\ j < l => queue[j][2] < queue[l][2]
        BY <3>1, <2>2, <1>2, <1>7 DEF Numbered
      <4>2. ASSUME NEW l \in 1..Len(q), q[l][1] = "write", j < l
            PROVE  q[j][2] < q[l][2]
        <5>1. CASE l \in 1..Len(queue)
          BY <5>1, <4>1, <4>2, <3>1, <1>2
        <5>2. CASE l = Len(queue) + 1
          BY <5>2, <4>1, <4>2, <3>1, <1>1, <1>2, <1>7, SMTT(30) DEF n
        <5> QED BY <5>1, <5>2, <1>3
      <4> QED BY <4>1, <4>2, <3>1, <1>2, <1>7, SMTT(30)
    <3>2. CASE j = Len(queue) + 1
      <4>1. q[j][2] = n + 1
        BY <3>2, <2>2, <1>1, <1>2 DEF n
      <4>2. \A l \in 1..Len(q) : ~(j < l)
        BY <3>2, <1>2, SMTT(30)
      <4>3. \A k \in 1..Len(a) : a[k] < n + 1
        BY <1>7, SMTT(30) DEF Numbered
      <4> QED BY <4>1, <4>2, <4>3, <1>7, SMTT(30)
    <3> QED BY <3>1, <3>2, <1>3
  <2> QED BY <2>1, <2>2 DEF Numbered
<1>9. Numbered(All(client), queue, owner.ops)'
  BY <1>1, <1>8 DEF a, n, q
<1>10. ClientOK(client')
  BY <1>1 DEF Inv
<1>11. Serves(client, client')
  BY <1>1 DEF Serves
<1>12. Kept'
  <2>1. Writes(q) = Writes(queue) \cup IF m[1] = "write" THEN {m[2]} ELSE {}
    BY <1>2, WritesAdded DEF q
  <2> QED BY <2>1, <1>1 DEF Inv, Kept, q
<1> QED BY <1>6, <1>9, <1>10, <1>11, <1>12 DEF Inv

\* A step of the worker that takes no message and keeps the packets.
LEMMA KeptOK ==
    ASSUME Inv, ClientOK(client'), client'.alive = client.alive, All(client') = All(client),
           queue' = queue, owner' = owner
    PROVE  Inv'
<1>1. QueueOK'
  BY DEF Inv, QueueOK
<1>2. Numbered(All(client), queue, owner.ops)' /\ Kept'
  BY DEF Inv, Kept
<1> QED BY <1>1, <1>2 DEF Inv

\* What the worker's queue is when the message at its head has been taken.
LEMMA TakenOK ==
    ASSUME Inv, queue # <<>>, queue' = Tail(queue),
           owner' \in OwnerType, owner'.removing = owner.removing,
           queue[1][1] = "delete" \/ client'.alive
    PROVE  QueueOK'
<1>1. /\ queue \in Seq(Message) /\ 1 \in 1..Len(queue) /\ Len(queue) \in Nat
      /\ Tail(queue) \in Seq(Message) /\ Len(Tail(queue)) = Len(queue) - 1
      /\ \A j \in 1..Len(Tail(queue)) : j + 1 \in 1..Len(queue) /\ Tail(queue)[j] = queue[j + 1]
  BY SMTT(30) DEF Inv, QueueOK
<1>2. ASSUME NEW j \in 1..Len(Tail(queue))
      PROVE  /\ Tail(queue)[j][1] = "go" => Tail(queue)[j][2] \in {0, 5}
             /\ Tail(queue)[j][1] = "delete" => j = Len(Tail(queue)) /\ owner.removing
  <2>1. j \in Nat /\ j + 1 \in 1..Len(queue) /\ Tail(queue)[j] = queue[j + 1]
    BY <1>1, SMTT(30)
  <2>2. /\ queue[j + 1][1] = "go" => queue[j + 1][2] \in {0, 5}
        /\ queue[j + 1][1] = "delete" => j + 1 = Len(queue) /\ owner.removing
    BY <2>1 DEF Inv, QueueOK
  <2>3. j + 1 = Len(queue) => j = Len(Tail(queue))
    <3> DEFINE n == Len(queue)
               t == Len(Tail(queue))
    <3>1. n \in Nat /\ t = n - 1 /\ j \in Nat
      BY <1>1, <2>1
    <3> HIDE DEF n, t
    <3>2. j + 1 = n => j = t
      BY <3>1, SMTT(30)
    <3> QED BY <3>2 DEF n, t
  <2> DEFINE p == Tail(queue)
             r == queue[j + 1]
  <2>4. p[j] = r
    BY <2>1
  <2> HIDE DEF p, r
  <2> QED BY <2>2, <2>3, <2>4 DEF p, r
<1>3. queue[1][1] = "delete" => Tail(queue) = <<>> /\ owner.removing
  <2>1. queue[1][1] = "delete" => Len(queue) = 1 /\ owner.removing
    BY <1>1 DEF Inv, QueueOK
  <2> QED BY <2>1, <1>1, SMTT(30)
<1> QED BY <1>1, <1>2, <1>3 DEF Inv, QueueOK

\* The worker runs what the owner has queued.
LEMMA RunCallbackOK ==
    ASSUME Inv, RunCallback
    PROVE  Inv' /\ Serves(client, client')
<1> DEFINE a == All(client)
           op == queue[1][1]
           arg == queue[1][2]
           due == IF op = "clear" THEN owner.due \ Range(client.pkts) ELSE owner.due
<1>1. /\ queue # <<>> /\ queue' = Tail(queue)
      /\ queue \in Seq(Message) /\ Head(queue) = queue[1]
      /\ owner \in OwnerType /\ Numbered(a, queue, owner.ops)
      /\ ClientOK(client) /\ client.alive
  BY SMTT(30) DEF Inv, QueueOK, RunCallback
<1>0. /\ owner' \in OwnerType /\ owner'.removing = owner.removing
      /\ owner'.ops = owner.ops /\ owner.ops \in Nat /\ owner'.due = due
  <2>1. owner' = [owner EXCEPT !.due = due] /\ due \in SUBSET Nat
    BY <1>1 DEF RunCallback, OwnerType
  <2> HIDE DEF due
  <2> QED BY <1>1, <2>1 DEF OwnerType
<1>a. /\ owner.due = Range(a) \cup Writes(queue)
      /\ Writes(queue) = Writes(Tail(queue)) \cup IF op = "write" THEN {arg} ELSE {}
  BY <1>1, WritesTaken DEF Inv, Kept
<1>2. 1 \in 1..Len(queue) /\ queue[1] \in Message
  BY <1>1, SMTT(30)
<1>3. arg \in Nat /\ (op = "go" => arg \in {0, 5})
  BY <1>2 DEF Message, Inv, QueueOK
<1>4. client.sent \in Seq(Nat) /\ client.pkts \in Seq(Nat)
  BY <1>1 DEF ClientOK, Client
<1>5. a \in Seq(Nat)
  BY <1>4, Joined DEF All
<1>6. Numbered(a, Tail(queue), owner.ops)
  <2> HIDE DEF a
  <2>1. \A k \in 1..Len(a) : a[k] = a[k]
    OBVIOUS
  <2>2. Len(a) <= Len(a)
    BY <1>5, SMTT(30)
  <2> QED BY <1>0, <1>1, <1>5, <2>1, <2>2, NumberedLess
<1>7. \/ op = "go" /\ FreeSocks(client) # {} /\ client' \in GoStage(client, arg)
      \/ op = "write" /\ client' = Write(client, arg)
      \/ op = "clear" /\ client' = [client EXCEPT !.pkts = <<>>]
      \/ op = "delete" /\ client' = [Clean(client) EXCEPT !.alive = FALSE]
  BY <1>1 DEF RunCallback, QueueClear, DeleteUnsafe
<1> HIDE DEF op, arg
<1>8. CASE op = "go" /\ FreeSocks(client) # {} /\ client' \in GoStage(client, arg)
  <2>1. /\ ClientOK(client') /\ Serves(client, client') /\ client'.alive
        /\ client'.sent = client.sent /\ client'.pkts = client.pkts
    BY <1>1, <1>3, <1>8, GoStageOK
  <2>2. QueueOK'
    BY <1>0, <1>1, <2>1, TakenOK
  <2>3. Numbered(All(client), queue, owner.ops)'
    BY <1>0, <1>1, <1>6, <2>1 DEF All
  <2>9. Kept'
    BY <1>0, <1>1, <1>a, <2>1, <1>8 DEF Kept, All
  <2> QED BY <2>1, <2>2, <2>3, <2>9 DEF Inv
<1>9. CASE op = "write" /\ client' = Write(client, arg)
  <2>1. /\ ClientOK(client') /\ Serves(client, client') /\ client'.alive
        /\ All(client') = Append(a, arg)
    BY <1>1, <1>3, <1>9, WriteOK
  <2>2. QueueOK'
    BY <1>0, <1>1, <2>1, TakenOK
  <2>3. Numbered(Append(a, arg), Tail(queue), owner.ops)
    <3> HIDE DEF a
    <3> QED BY <1>0, <1>1, <1>5, <1>9, NumberedMore DEF op, arg
  <2>4. Numbered(All(client), queue, owner.ops)'
    BY <1>0, <1>1, <2>1, <2>3
  <2>8. Range(Append(a, arg)) = Range(a) \cup {arg}
    BY <1>3, <1>5, RangeAdded
  <2>9. Kept'
    BY <1>0, <1>1, <1>a, <1>9, <2>1, <2>8 DEF Kept
  <2> QED BY <2>1, <2>2, <2>4, <2>9 DEF Inv
<1>10. CASE op = "clear" /\ client' = [client EXCEPT !.pkts = <<>>]
  <2>1. /\ ClientOK(client') /\ Serves(client, client') /\ client'.alive
        /\ client'.sent = client.sent /\ client'.pkts = <<>>
    BY <1>1, <1>10, ClearOK
  <2>2. QueueOK'
    BY <1>0, <1>1, <2>1, TakenOK
  <2> DEFINE b == client.sent
  <2>3. All(client') = b
    BY <1>4, <2>1, Joined DEF All
  <2>4. b \in Seq(Nat) /\ Len(b) <= Len(a) /\ \A k \in 1..Len(b) : b[k] = a[k]
    BY <1>4, Joined DEF All
  <2>5. Numbered(b, Tail(queue), owner.ops)
    <3> HIDE DEF a, b
    <3> QED BY <1>0, <1>1, <1>5, <2>4, NumberedLess
  <2>6. Numbered(All(client), queue, owner.ops)'
    BY <1>0, <1>1, <2>3, <2>5
  <2>7. Range(a) = Range(b) \cup Range(client.pkts)
    BY <1>4, RangeJoined DEF All
  <2>8. /\ Range(b) \cap Range(client.pkts) = {}
        /\ Writes(queue) \cap Range(client.pkts) = {}
    BY <1>0, <1>1, <1>4, Apart DEF All
  <2>9. Kept'
    BY <1>0, <1>1, <1>a, <1>10, <2>3, <2>7, <2>8 DEF Kept
  <2> QED BY <2>1, <2>2, <2>6, <2>9 DEF Inv
<1>11. CASE op = "delete" /\ client' = [Clean(client) EXCEPT !.alive = FALSE]
  <2>1. /\ ClientOK(client') /\ Serves(client, client')
        /\ client'.sent = client.sent /\ client'.pkts = client.pkts
    BY <1>1, <1>11, DeleteOK
  <2>2. QueueOK'
    BY <1>0, <1>1, <1>11, TakenOK DEF op
  <2>3. Numbered(All(client), queue, owner.ops)'
    BY <1>0, <1>1, <1>6, <2>1 DEF All
  <2>9. Kept'
    BY <1>0, <1>1, <1>a, <2>1, <1>11 DEF Kept, All
  <2> QED BY <2>1, <2>2, <2>3, <2>9 DEF Inv
<1> QED BY <1>7, <1>8, <1>9, <1>10, <1>11

\* Every step keeps the invariant and is a step of the service, or nothing
\* the owner sees.
LEMMA NextOK ==
    ASSUME Inv, [Next]_vars
    PROVE  Inv' /\ Serves(client, client')
<1>0. ClientOK(client) /\ client.sent \in Seq(Nat) /\ client.pkts \in Seq(Nat)
  BY DEF Inv, ClientOK, Client
<1>1. ASSUME ClientOK(client'), Serves(client, client'), Same(client, client'),
             queue' = queue, owner' = owner
      PROVE  Inv' /\ Serves(client, client')
  BY <1>1, KeptOK DEF Same, All
<1>2. CASE ClientStep(Owner)
  BY <1>2, OwnerOK DEF ClientStep
<1>3. CASE ClientStep(RunCallback)
  BY <1>3, RunCallbackOK DEF ClientStep
<1>4. CASE ClientStep(ReconnectTimer)
  <2>1. ReconnectTimer /\ queue' = queue /\ owner' = owner
    BY <1>4 DEF ClientStep, ReconnectTimer
  <2> QED BY <2>1, <1>0, <1>1, ReconnectOK
<1>5. ASSUME NEW i \in Socks, ClientStep(HttpStep(i))
      PROVE  Inv' /\ Serves(client, client')
  <2>1. HttpStep(i) /\ queue' = queue /\ owner' = owner
    BY <1>5 DEF ClientStep, HttpStep, HttpConnected, HttpPeerClosed, HttpResponse,
                HttpDelete, ConnectTimeout, AnswerTimeout, HttpTimeout
  <2> QED BY <2>1, <1>0, <1>1, HttpStepOK
<1>6. ASSUME NEW i \in Socks, ClientStep(HttpError(i))
      PROVE  Inv' /\ Serves(client, client')
  <2>1. HttpError(i) /\ queue' = queue /\ owner' = owner
    BY <1>6 DEF ClientStep, HttpError
  <2> QED BY <2>1, <1>0, <1>1, HttpErrorOK
<1>7. ASSUME NEW i \in Socks, ServerAnswers(i)
      PROVE  Inv' /\ Serves(client, client')
  <2>1. /\ client.sock[i].phase = "sent" /\ queue' = queue /\ owner' = owner
        /\ \E r \in Ids \cup {BadReply} : client' = [client EXCEPT !.sock[i].rep = r]
    BY <1>7 DEF ServerAnswers
  <2>2. \E r \in Int : client' = [client EXCEPT !.sock[i].rep = r]
    <3>1. PICK r \in Ids \cup {BadReply} : client' = [client EXCEPT !.sock[i].rep = r]
      BY <2>1
    <3>2. r \in Int
      BY IdsAssumption, SMTT(30) DEF BadReply
    <3> QED BY <3>1, <3>2
  <2> QED BY <2>1, <2>2, <1>0, <1>1, SocketStep
<1>8. CASE ClientStep(StreamStep)
  <2>0. StreamStep
    BY <1>8 DEF ClientStep
  <2>1. CASE StreamConnected
    <3>1. queue' = queue /\ owner' = owner
      BY <2>1 DEF StreamConnected
    <3>2. /\ ClientOK(client') /\ Serves(client, client') /\ client'.alive = client.alive
          /\ client'.sent = client.sent \o client.pkts /\ client'.pkts = <<>>
      BY <1>0, <2>1, StreamConnectedOK
    <3>3. client.sent \o client.pkts \in Seq(Nat)
      BY <1>0, Joined
    <3>4. All(client') = All(client)
      BY <3>2, <3>3, Joined DEF All
    <3> QED BY <3>1, <3>2, <3>4, KeptOK
  <2>2. CASE StreamError
    BY <2>2, <1>0, <1>1, StreamErrorOK DEF StreamError
  <2>3. CASE StreamTimerOff \/ StreamRead
    BY <2>3, <1>0, <1>1, StreamQuietOK DEF StreamTimerOff, StreamRead
  <2> QED BY <2>0, <2>1, <2>2, <2>3 DEF StreamStep
<1>9. CASE client' = client /\ queue' = queue /\ owner' = owner
  BY <1>0, <1>9, KeptOK DEF Serves
<1>10. ServerOpens \/ (\E sid \in Ids : ServerCloses(sid)) \/ UNCHANGED vars
         => client' = client /\ queue' = queue /\ owner' = owner
  BY DEF ServerOpens, ServerCloses, cvars, vars
<1> QED BY <1>2, <1>3, <1>4, <1>5, <1>6, <1>7, <1>8, <1>9, <1>10 DEF Next

-----------------------------------------------------------------------------
\* A client of one of the shapes waits for one callback or for none.
LEMMA InvWaits == Inv => WaitsOnOne
<1> SUFFICES ASSUME Inv PROVE WaitsOnOne
  OBVIOUS
<1>1. client \in Client /\ (Shape(client) \/ Idle(client))
  BY DEF Inv, ClientOK
<1>2. Cardinality({}) = 0 /\ Cardinality({"timer"}) = 1 /\ Cardinality({"http"}) = 1
      /\ Cardinality({"stream"}) = 1
  BY FS_EmptySet, FS_Singleton
<1>3. CASE Idle(client) \/ AtRest(client) \/ Stopped(client)
  <2>1. Waits = {} /\ client.status # "IN_PROGRESS" /\ Quiet(client)
    BY <1>3 DEF Waits, Idle, AtRest, Stopped, Quiet
  <2> QED BY <2>1, <1>2 DEF WaitsOnOne, Quiet
<1>4. CASE Streaming(client)
  <2>1. Waits = {}
    BY <1>4 DEF Waits, Streaming
  <2> QED BY <2>1, <1>2, <1>4 DEF WaitsOnOne, Streaming, STAGE_STREAM_STREAMING
<1>5. CASE Dialling(client) /\ OnTimer(client)
  <2>1. Waits = {"timer"}
    BY <1>5 DEF Waits, OnTimer
  <2> QED BY <2>1, <1>2, <1>5, SMTT(30) DEF WaitsOnOne, Dialling, OnTimer
<1>6. CASE Dialling(client) /\ OnHttp(client)
  <2>1. Waits = {"http"}
    BY <1>6 DEF Waits, OnHttp
  <2> QED
    BY <2>1, <1>2, <1>6, SMTT(30)
       DEF WaitsOnOne, Dialling, OnHttp, STAGE_ENC_INIT, STAGE_STREAM_CTL
<1>7. CASE Dialling(client) /\ OnStream(client)
  <2>1. Waits = {"stream"}
    BY <1>7 DEF Waits, OnStream
  <2> QED
    BY <2>1, <1>2, <1>7, SMTT(30)
       DEF WaitsOnOne, Dialling, OnStream, STAGE_STREAM_SESSION
<1> QED BY <1>1, <1>3, <1>4, <1>5, <1>6, <1>7 DEF Shape, Dialling

\* A deleted client is idle.
LEMMA InvCallbacks == Inv => NoLateCallback
<1> SUFFICES ASSUME Inv PROVE NoLateCallback
  OBVIOUS
<1>1. \A i \in Socks : client.sock[i].phase # "free" /\ i # client.http =>
          client.sock[i].phase = "closing" /\ client.sock[i].called
  BY ClientAssumption DEF Inv, ClientOK, SocksOK, SocksBut
<1>2. ~client.alive => Waits = {} /\ client.stream = "none" /\ queue = <<>>
  BY DEF Inv, ClientOK, QueueOK, Idle, Quiet, Waits
<1> QED BY <1>1, <1>2 DEF NoLateCallback

\* Only a streaming client has its stream up, and it keeps no packets.
LEMMA InvPackets == Inv => PacketsInOrder
<1> SUFFICES ASSUME Inv PROVE PacketsInOrder
  OBVIOUS
<1>1. client.stream = "up" => client.pkts = <<>>
  BY
     DEF Inv, ClientOK, Shape, AtRest, Idle, Stopped, Quiet, Dialling, OnTimer, OnHttp, OnStream,
         Streaming
<1>2. \A k, l \in 1..Len(All(client)) : k < l => All(client)[k] < All(client)[l]
  BY DEF Inv, Numbered
<1>3. owner.due = Range(All(client)) \cup Underway
  BY DEF Inv, Kept, Writes, Underway
<1> QED BY <1>1, <1>2, <1>3 DEF PacketsInOrder, All

\* What Serves allows is a step of ClientService, or one the owner does not
\* see.
LEMMA ServesOK ==
    ASSUME Serves(client, client')
    PROVE  [Service!SNext]_(Service!svars)
<1>1. client'.always = client.always
  BY DEF Serves
<1>2. CASE Phase(client') = Phase(client) /\ client'.said = client.said
  BY <1>1, <1>2 DEF Phase, Service!svars
<1>3. CASE Phase(client) = "rest" /\ Phase(client') = "trying"
           /\ client'.said \in {"nothing", "error"}
  BY <1>1, <1>3 DEF Phase, Service!SNext, Service!Start
<1>4. CASE Phase(client) # "gone" /\ Phase(client') = "rest"
           /\ client'.said \in {"nothing", client.said}
  BY <1>1, <1>4 DEF Phase, Service!SNext, Service!Reset
<1>5. CASE Phase(client) = "trying" /\ Phase(client') = "up" /\ client'.said = "connected"
  BY <1>1, <1>5 DEF Phase, Service!SNext, Service!Connect
<1>6. CASE Phase(client) = "up" /\ Phase(client') = "trying" /\ client'.said = "error"
  BY <1>1, <1>6 DEF Phase, Service!SNext, Service!Break
<1>7. CASE Phase(client) = "trying" /\ Phase(client') = "trying" /\ client.said = "nothing"
           /\ client'.said = "error"
  BY <1>1, <1>7 DEF Phase, Service!SNext, Service!Retry
<1>8. CASE /\ Phase(client) = "trying" /\ client'.said = "last"
           /\ Phase(client') = IF client.always THEN "trying" ELSE "failed"
  BY <1>1, <1>8 DEF Phase, Service!SNext, Service!GiveUp
<1>9. CASE Phase(client) \in {"rest", "trying"} /\ Phase(client') = "failed"
           /\ client'.said \in {"nothing", client.said}
  BY <1>1, <1>9 DEF Phase, Service!SNext, Service!FailSilently
<1>10. CASE Phase(client) # "gone" /\ Phase(client') = "gone" /\ client'.said = client.said
  BY <1>1, <1>10 DEF Phase, Service!SNext, Service!Delete
<1> QED BY <1>2, <1>3, <1>4, <1>5, <1>6, <1>7, <1>8, <1>9, <1>10 DEF Serves

\* Whatever order the owner's calls, the timers, the sockets and the server
\* come in: a client on its way waits for exactly one callback and any other
\* for none, no socket but the current one can call back and a freed client
\* is called by nothing, and no packet written is lost, doubled or overtaken
\* before it is on the channel (dap_client_pvt.c, dap_client_http.c,
\* dap_client.c).
THEOREM UplinkSafety == Spec => [](WaitsOnOne /\ NoLateCallback /\ PacketsInOrder)
<1>1. Inv /\ [Next]_vars => Inv'
  BY NextOK
<1> QED BY InitOK, <1>1, InvWaits, InvCallbacks, InvPackets, PTL DEF Spec

\* The client implements the service its owner relies on: the callbacks come
\* in the order ClientService promises, with one report per round of attempts
\* and none after the client is gone.
THEOREM UplinkImplements == Spec => ImplementsService
<1>1. Init => Service!SInit
  <2> SUFFICES ASSUME Init PROVE Service!SInit
    OBVIOUS
  <2>1. PICK a \in AlwaysReconnect : client = NewClient(a)
    BY DEF Init, CInit
  <2>2. /\ client.alive /\ client.status = "COMPLETE" /\ client.stage = STAGE_BEGIN
        /\ client.said = "nothing" /\ client.always = a /\ a \in BOOLEAN
    BY <2>1, ClientAssumption DEF NewClient
  <2> QED BY <2>2 DEF Service!SInit
<1>2. Inv /\ [Next]_vars => Inv' /\ [Service!SNext]_(Service!svars)
  BY NextOK, ServesOK
<1> QED BY InitOK, <1>1, <1>2, PTL DEF Spec, ImplementsService, Service!SSpec

-----------------------------------------------------------------------------
\* The ids a client presents.  No request and no stream that connects:
Off(d) == d.http = 0 /\ d.stream \in {"none", "dead"}

\* what is asked for, what was answered and the session stay as they are:
Keeps(c, d) ==
    /\ d.http = c.http /\ d.stream = c.stream /\ d.stage = c.stage /\ d.sid = c.sid
    /\ c.http # 0 => /\ d.sock[c.http].req = c.sock[c.http].req
                     /\ d.sock[c.http].rep = c.sock[c.http].rep

\* a request that has just been made:
Fresh(d, stage, keyid) ==
    /\ d.http # 0 /\ d.stream = "none" /\ d.stage = stage
    /\ d.sock[d.http].req = keyid /\ d.sock[d.http].rep = NoReply

\* a stream that connects with the session sid:
Dials(d, sid) == d.http = 0 /\ d.stream = "connecting" /\ d.sid = sid

\* and the steps of a client among these.  The ids are those of the answer to
\* the current request.
Moves(c, d) ==
    \/ Off(d)
    \/ Keeps(c, d)
    \/ Fresh(d, 1, 0)
    \/ /\ c.http # 0 /\ c.sock[c.http].rep > 0
       /\ \/ c.stage = 1 /\ Fresh(d, 2, c.sock[c.http].rep)
          \/ c.stage = 2 /\ Dials(d, c.sock[c.http].rep)
    \/ c.stream = "connecting" /\ d.stream = "up" /\ d.http = 0 /\ d.sid = c.sid

\* A failure leaves nothing under way.
LEMMA FailedOff ==
    ASSUME NEW c \in Client, Quiet(c), NEW k \in Socks \cup {0}, Sound(c, k)
    PROVE  Off(Failed(c))
<1>1. Fails(c, Failed(c))
  BY FailedOK
<1> QED BY <1>1 DEF Fails, Stopped, OnTimer, Quiet, Off

\* The stage changes, the ids do not.
LEMMA StageIds ==
    ASSUME NEW c \in Client, NEW stage \in Nat
    PROVE  LET d == [c EXCEPT !.stage = stage, !.status = "IN_PROGRESS"]
           IN  d.key = c.key /\ d.sid = c.sid
BY DEF Client

\* dap_client_pvt_request: the request carries the key id it is given.
LEMMA RequestFresh ==
    ASSUME NEW c \in Client, NEW k \in Socks \cup {0}, Sound(c, k), Ready(c),
           FreeSocks(c) # {}, NEW keyid \in Int, NEW d \in Request(c, keyid)
    PROVE  Off(d) \/ Fresh(d, c.stage, keyid)
<1> DEFINE j == CHOOSE i \in Socks : i \in FreeSocks(c)
<1>1. j \in Socks /\ j # 0
  BY ClientAssumption DEF FreeSocks
<1> HIDE DEF j
<1>2. [c EXCEPT !.http = 0] = c
  BY DEF Client, Ready, Quiet
<1>3. PICK ph \in {"connecting", "orphan"} :
        \/ d = Failed(c)
        \/ d = [c EXCEPT !.http = j, !.sock[j] = [FreeSock EXCEPT !.phase = ph, !.req = keyid]]
  BY <1>2, SMTT(30) DEF Request, j
<1>4. CASE d = Failed(c)
  BY <1>4, FailedOff DEF Ready
<1>5. CASE d = [c EXCEPT !.http = j, !.sock[j] = [FreeSock EXCEPT !.phase = ph, !.req = keyid]]
  <2> DEFINE r == [FreeSock EXCEPT !.phase = ph, !.req = keyid]
             s == [c.sock EXCEPT ![j] = r]
  <2>1. r.req = keyid /\ r.rep = NoReply
    BY DEF FreeSock
  <2> HIDE DEF r
  <2>2. s[j] = r
    BY <1>1 DEF Client
  <2>3. d = [c EXCEPT !.http = j, !.sock = s]
    BY <1>5 DEF r, Client
  <2> HIDE DEF s
  <2>4. d.http = j /\ d.sock = s /\ d.stream = c.stream /\ d.stage = c.stage
    BY <2>3 DEF Client
  <2> QED BY <1>1, <2>1, <2>2, <2>4 DEF Fresh, Ready
<1> QED BY <1>3, <1>4, <1>5

\* The ENC_INIT case of s_stage_status_after: a request without a key.
LEMMA EncInitFresh ==
    ASSUME NEW c \in Client, NEW k \in Socks \cup {0}, Sound(c, k), Ready(c),
           FreeSocks(c) # {}, NEW d \in BeginEncInit(c)
    PROVE  Off(d) \/ Fresh(d, 1, 0)
<1> DEFINE b == [c EXCEPT !.stage = 1, !.status = "IN_PROGRESS"]
<1>1. /\ b \in Client /\ Sound(b, k) /\ Same(c, b) /\ b.stage = 1
      /\ b.status = "IN_PROGRESS" /\ b.attempts = c.attempts /\ b.said = c.said
      /\ b.timer = c.timer /\ b.http = c.http /\ b.stream = c.stream /\ b.sock = c.sock
  BY StageOK
<1>2. d = FailedSilently(b) \/ d \in Request(b, 0)
  BY DEF BeginEncInit, PlainRequest, STAGE_ENC_INIT
<1> HIDE DEF b
<1>3. Ready(b) /\ FreeSocks(b) # {}
  BY <1>1 DEF Ready, Quiet, Same, FreeSocks
<1>4. CASE d = FailedSilently(b)
  BY <1>1, <1>3, <1>4 DEF FailedSilently, Client, Ready, Quiet, Off
<1>5. CASE d \in Request(b, 0)
  <2> DEFINE z == 0
  <2>1. z \in Int /\ d \in Request(b, z)
    BY <1>5, SMTT(30)
  <2> HIDE DEF z
  <2>2. Off(d) \/ Fresh(d, b.stage, z)
    BY <1>1, <1>3, <2>1, RequestFresh
  <2> QED BY <1>1, <2>2 DEF z
<1> QED BY <1>2, <1>4, <1>5

\* The STREAM_CTL case: the request carries the session key's id.
LEMMA StreamCtlFresh ==
    ASSUME NEW c \in Client, NEW k \in Socks \cup {0}, Sound(c, k), Ready(c),
           FreeSocks(c) # {}, NEW d \in BeginStreamCtl(c)
    PROVE  Off(d) \/ Fresh(d, 2, c.key)
<1> DEFINE b == [c EXCEPT !.stage = 2, !.status = "IN_PROGRESS"]
<1>1. /\ b \in Client /\ Sound(b, k) /\ Same(c, b) /\ b.stage = 2
      /\ b.status = "IN_PROGRESS" /\ b.attempts = c.attempts /\ b.said = c.said
      /\ b.timer = c.timer /\ b.http = c.http /\ b.stream = c.stream /\ b.sock = c.sock
  BY StageOK
<1>2. b.key = c.key /\ c.key \in Int
  BY StageIds DEF Client
<1>3. d \in Request(b, c.key)
  BY <1>2 DEF BeginStreamCtl, EncRequest, STAGE_STREAM_CTL
<1> HIDE DEF b
<1>4. Ready(b) /\ FreeSocks(b) # {}
  BY <1>1 DEF Ready, Quiet, Same, FreeSocks
<1>5. Off(d) \/ Fresh(d, b.stage, c.key)
  BY <1>1, <1>2, <1>3, <1>4, RequestFresh
<1> QED BY <1>1, <1>5

\* The STREAM_SESSION case: the stream connects with the session id kept.
LEMMA SessionDials ==
    ASSUME NEW c \in Client, NEW k \in Socks \cup {0}, Sound(c, k), Ready(c),
           NEW d \in BeginSession(c)
    PROVE  Off(d) \/ Dials(d, c.sid)
<1> DEFINE b == [c EXCEPT !.stage = 3, !.status = "IN_PROGRESS"]
           x == [b EXCEPT !.stream = "dead"]
           u == [b EXCEPT !.stream = "connecting"]
<1>1. /\ b \in Client /\ Sound(b, k) /\ Same(c, b) /\ b.stage = 3
      /\ b.status = "IN_PROGRESS" /\ b.attempts = c.attempts /\ b.said = c.said
      /\ b.timer = c.timer /\ b.http = c.http /\ b.stream = c.stream /\ b.sock = c.sock
  BY StageOK
<1>2. b.sid = c.sid
  BY StageIds
<1>3. d = FailedSilently(b) \/ d = Failed(x) \/ d = u
  BY DEF BeginSession, STAGE_STREAM_SESSION
<1> HIDE DEF b
<1>4. /\ x \in Client /\ Sound(x, k) /\ x.stream = "dead" /\ x.timer = b.timer
      /\ x.http = b.http
  BY <1>1, StreamSet
<1>5. u.stream = "connecting" /\ u.http = b.http /\ u.sid = b.sid
  BY <1>1, StreamSet
<1> HIDE DEF x, u
<1>6. CASE d = FailedSilently(b)
  BY <1>1, <1>6 DEF FailedSilently, Client, Ready, Quiet, Off
<1>7. CASE d = Failed(x)
  <2>1. Quiet(x)
    BY <1>1, <1>4 DEF Ready, Quiet
  <2> QED BY <1>4, <1>7, <2>1, FailedOff
<1>8. CASE d = u
  BY <1>1, <1>2, <1>5, <1>8 DEF Dials, Ready, Quiet
<1> QED BY <1>3, <1>6, <1>7, <1>8

\* s_request_response: the id the answer names is the one presented next.
LEMMA ResponseMoves ==
    ASSUME NEW c \in Client, SocksOK(c), Dialling(c), OnHttp(c), FreeSocks(c) # {},
           NEW rep \in Int, rep > 0 => rep = c.sock[c.http].rep,
           NEW d \in RequestResponse(c, rep)
    PROVE  Moves(c, d)
<1> DEFINE b == [c EXCEPT !.http = 0]
           x == [b EXCEPT !.key = rep]
           u == [b EXCEPT !.sid = rep]
<1>1. /\ b \in Client /\ Sound(b, c.http) /\ Ready(b) /\ Same(c, b)
      /\ b.stage = c.stage /\ b.attempts = c.attempts /\ b.said = c.said
      /\ FreeSocks(b) # {}
  BY ForgetOK
<1>2. c.http \in Socks \cup {0} /\ c.http # 0
  BY DEF Client, OnHttp
<1>3. \/ c.stage = 1 /\ d \in EncInitResponse(b, rep)
      \/ c.stage = 2 /\ d \in StreamCtlResponse(b, rep)
  BY DEF RequestResponse, OnHttp, STAGE_ENC_INIT
<1> HIDE DEF b
<1>4. CASE d = Failed(b)
  BY <1>4, <1>1, <1>2, FailedOff DEF Ready, Moves
<1>5. CASE rep > 0 /\ c.stage = 1
  <2>1. x \in Client
    BY <1>1 DEF Client
  <2>2. /\ Same(b, x) /\ x.stage = b.stage /\ x.attempts = b.attempts /\ x.said = b.said
        /\ x.timer = b.timer /\ x.stream = b.stream /\ x.http = b.http /\ x.sock = b.sock
        /\ x.key = rep
    BY <1>1 DEF Client, Same
  <2>3. d \in GoOn(x, BeginStreamCtl(x))
    BY <1>3, <1>5, SMTT(30) DEF EncInitResponse
  <2> HIDE DEF x
  <2>4. x.target > x.stage
    BY <2>2, <1>1, <1>5, SMTT(30) DEF Ready, Same
  <2>5. d \in BeginStreamCtl(x)
    BY <2>3, <2>4 DEF GoOn
  <2>6. Sound(x, c.http)
    BY <2>1, <2>2, <1>1 DEF Sound, SocksBut
  <2>7. Ready(x) /\ FreeSocks(x) # {}
    BY <2>2, <1>1 DEF Ready, Quiet, Same, FreeSocks
  <2>8. Off(d) \/ Fresh(d, 2, x.key)
    BY <2>1, <2>5, <2>6, <2>7, <1>2, StreamCtlFresh
  <2> QED BY <2>2, <2>8, <1>2, <1>5 DEF Moves
<1>6. CASE rep > 0 /\ c.stage = 2
  <2>1. u \in Client
    BY <1>1 DEF Client
  <2>2. /\ Same(b, u) /\ u.stage = b.stage /\ u.attempts = b.attempts /\ u.said = b.said
        /\ u.timer = b.timer /\ u.stream = b.stream /\ u.http = b.http /\ u.sock = b.sock
        /\ u.sid = rep
    BY <1>1 DEF Client, Same
  <2>3. d \in GoOn(u, BeginSession(u))
    BY <1>3, <1>6, SMTT(30) DEF StreamCtlResponse
  <2> HIDE DEF u
  <2>4. u.target > u.stage
    BY <2>2, <1>1, <1>6, SMTT(30) DEF Ready, Same
  <2>5. d \in BeginSession(u)
    BY <2>3, <2>4 DEF GoOn
  <2>6. Sound(u, c.http)
    BY <2>1, <2>2, <1>1 DEF Sound, SocksBut
  <2>7. Ready(u)
    BY <2>2, <1>1 DEF Ready, Quiet, Same
  <2>8. Off(d) \/ Dials(d, u.sid)
    BY <2>1, <2>5, <2>6, <2>7, <1>2, SessionDials
  <2> QED BY <2>2, <2>8, <1>2, <1>6 DEF Moves
<1>7. rep > 0 \/ d = Failed(b)
  BY <1>3 DEF EncInitResponse, StreamCtlResponse
<1> QED BY <1>3, <1>4, <1>5, <1>6, <1>7

\* A failed request leaves nothing under way.
LEMMA RequestErrorMoves ==
    ASSUME NEW c \in Client, SocksOK(c), Dialling(c), OnHttp(c)
    PROVE  Moves(c, RequestError(c))
<1> DEFINE b == [c EXCEPT !.http = 0]
<1>1. /\ b \in Client /\ Sound(b, c.http) /\ Ready(b)
  BY ForgetOK
<1>2. RequestError(c) = Failed(b)
  BY DEF RequestError, EncInitError, StreamCtlError
<1> HIDE DEF b
<1>3. c.http \in Socks \cup {0}
  BY DEF Client
<1> QED BY <1>1, <1>2, <1>3, FailedOff DEF Ready, Moves

\* Marking or deleting a socket that is not the current one changes no id.
LEMMA MarkMoves ==
    ASSUME NEW c, NEW b \in Client, NEW k \in Socks, Sound(b, k), Moves(c, b),
           NEW d, \/ d = [b EXCEPT !.sock[k].phase = "closing", !.sock[k].called = TRUE]
                  \/ d = [b EXCEPT !.sock[k] = FreeSock]
    PROVE  Moves(c, d)
<1>1. /\ Alike(b, d) /\ d.sid = b.sid
      /\ \A j \in Socks : j # k => d.sock[j] = b.sock[j]
  <2>1. CASE d = [b EXCEPT !.sock[k].phase = "closing", !.sock[k].called = TRUE]
    BY <2>1, MarkOK
  <2>2. CASE d = [b EXCEPT !.sock[k] = FreeSock]
    BY <2>2, MarkOK
  <2> QED BY <2>1, <2>2
<1>2. /\ d.http = b.http /\ d.stream = b.stream /\ d.stage = b.stage /\ d.sid = b.sid
      /\ b.http # 0 => d.sock[b.http] = b.sock[b.http]
  BY <1>1 DEF Alike, Sound, Client
<1>3. Off(b) => Off(d)
  BY <1>2 DEF Off
<1>4. Keeps(c, b) => Keeps(c, d)
  BY <1>2 DEF Keeps
<1>5. \A st, id : Fresh(b, st, id) => Fresh(d, st, id)
  BY <1>2 DEF Fresh
<1>6. \A id : Dials(b, id) => Dials(d, id)
  BY <1>2 DEF Dials
<1> QED BY <1>2, <1>3, <1>4, <1>5, <1>6 DEF Moves

\* The steps of the HTTP sockets present no id but the one just answered.
LEMMA HttpMoves ==
    ASSUME ClientOK(client), NEW i \in Socks, HttpStep(i) \/ HttpError(i)
    PROVE  Moves(client, client')
<1>0. client \in Client /\ SocksOK(client) /\ client.sock[i] \in SockType
  BY DEF ClientOK, Client
<1>1. \A rep \in Readable(i) : rep \in Int /\ (rep > 0 => rep = client.sock[i].rep)
  BY <1>0, SMTT(30) DEF Readable, BadReply, SockType
<1>2. CASE HttpConnected(i) \/ HttpPeerClosed(i)
  <2>1. PICK ph \in {"sent", "closing"} : client' = [client EXCEPT !.sock[i].phase = ph]
    BY <1>2 DEF HttpConnected, HttpPeerClosed
  <2> DEFINE s == [client.sock[i] EXCEPT !.phase = ph]
  <2>2. s \in SockType /\ s.req = client.sock[i].req /\ s.rep = client.sock[i].rep
    BY <1>0 DEF SockType
  <2>3. client' = [client EXCEPT !.sock[i] = s]
    BY <1>0, <2>1, SockFields
  <2> HIDE DEF s
  <2>4. /\ Alike(client, client') /\ client'.sid = client.sid /\ client'.sock[i] = s
        /\ \A j \in Socks : j # i => client'.sock[j] = client.sock[j]
    BY <1>0, <2>2, <2>3, SockSet, SMTT(30)
  <2>5. client.http \in Socks \cup {0}
    BY <1>0 DEF Client
  <2>6. Keeps(client, client')
    BY <2>2, <2>4, <2>5 DEF Keeps, Alike
  <2> QED BY <2>6 DEF Moves
<1>3. ASSUME client.sock[i].phase \in {"connecting", "sent"},
             \/ client' = [RequestError(client) EXCEPT
                             !.sock[i].phase = "closing", !.sock[i].called = TRUE]
             \/ client' = [RequestError(client) EXCEPT !.sock[i] = FreeSock]
      PROVE  Moves(client, client')
  <2>1. i = client.http /\ Dialling(client) /\ OnHttp(client)
    BY <1>3, CurrentSocket
  <2>2. Sound(RequestError(client), i) /\ Moves(client, RequestError(client))
    BY <1>0, <2>1, RequestErrorOK, RequestErrorMoves
  <2>3. RequestError(client) \in Client
    BY <2>2 DEF Sound
  <2> QED BY <1>3, <2>2, <2>3, MarkMoves
<1>4. CASE ConnectTimeout(i) \/ AnswerTimeout(i) \/ HttpError(i)
  BY <1>3, <1>4 DEF ConnectTimeout, AnswerTimeout, HttpTimeout, HttpError
<1>5. ASSUME NEW rep \in Readable(i), HttpResponse(i, rep)
      PROVE  Moves(client, client')
  <2>1. i = client.http /\ Dialling(client) /\ OnHttp(client)
    BY <1>5, CurrentSocket DEF HttpResponse
  <2>2. PICK b \in RequestResponse(client, rep) :
          client' = [b EXCEPT !.sock[i].phase = "closing", !.sock[i].called = TRUE]
    BY <1>5 DEF HttpResponse
  <2>3. FreeSocks(client) # {} /\ rep \in Int /\ (rep > 0 => rep = client.sock[client.http].rep)
    BY <1>1, <1>5, <2>1 DEF HttpResponse
  <2>4. Sound(b, i) /\ Moves(client, b)
    BY <1>0, <2>1, <2>3, RequestResponseOK, ResponseMoves
  <2>5. b \in Client
    BY <2>4 DEF Sound
  <2> QED BY <2>2, <2>4, <2>5, MarkMoves
<1>6. ASSUME NEW rep \in Readable(i), HttpDelete(i, rep)
      PROVE  Moves(client, client')
  <2>1. CASE client.sock[i].called
    <3>1. client' = [client EXCEPT !.sock[i] = FreeSock] /\ client.sock[i].phase = "closing"
      BY <1>6, <2>1 DEF HttpDelete
    <3>2. Sound(client, i)
      BY <1>0, <2>1, <3>1, ClientAssumption DEF SocksOK, SocksBut, Sound
    <3>3. Moves(client, client)
      BY DEF Moves, Keeps
    <3> QED BY <1>0, <3>1, <3>2, <3>3, MarkMoves
  <2>2. CASE ~client.sock[i].called
    <3>1. PICK b \in {RequestError(client)}
                      \cup (IF FreeSocks(client) = {} THEN {}
                            ELSE RequestResponse(client, rep)) :
            client' = [b EXCEPT !.sock[i] = FreeSock]
      BY <1>6, <2>2 DEF HttpDelete
    <3>2. i = client.http /\ Dialling(client) /\ OnHttp(client)
      BY <1>6, <2>2, CurrentSocket DEF HttpDelete
    <3>3. \/ b = RequestError(client)
          \/ FreeSocks(client) # {} /\ b \in RequestResponse(client, rep)
      BY <3>1
    <3>4. rep \in Int /\ (rep > 0 => rep = client.sock[client.http].rep)
      BY <1>1, <3>2
    <3>5. Sound(b, i) /\ Moves(client, b)
      BY <1>0, <3>2, <3>3, <3>4, RequestErrorOK, RequestErrorMoves, RequestResponseOK,
         ResponseMoves
    <3>6. b \in Client
      BY <3>5 DEF Sound
    <3> QED BY <3>1, <3>5, <3>6, MarkMoves
  <2> QED BY <2>1, <2>2
<1> QED BY <1>2, <1>4, <1>5, <1>6 DEF HttpStep

\* s_timer_reconnect_callback begins an attempt without a key.
LEMMA ReconnectMoves ==
    ASSUME ClientOK(client), ReconnectTimer
    PROVE  Moves(client, client')
<1> DEFINE c == client
           x == [c EXCEPT !.timer = FALSE]
<1>1. c \in Client /\ SocksOK(c) /\ c.timer /\ FreeSocks(c) # {} /\ client' \in BeginEncInit(x)
  BY DEF ClientOK, ReconnectTimer
<1>2. Dialling(c) /\ OnTimer(c)
  BY <1>1
     DEF ClientOK, Shape, AtRest, Idle, Streaming, Stopped, Quiet, Dialling, OnHttp, OnStream
<1>3. x \in Client
  BY <1>1 DEF Client
<1>4. /\ Same(c, x) /\ x.attempts = c.attempts /\ x.said = c.said /\ ~x.timer
      /\ x.stream = c.stream /\ x.http = c.http /\ x.sock = c.sock
  BY <1>1 DEF Client, Same
<1> HIDE DEF x
<1>5. Sound(x, 0) /\ FreeSocks(x) # {}
  BY <1>1, <1>3, <1>4, SoundZero, SMTT(30) DEF SocksOK, SocksBut, FreeSocks
<1>6. Ready(x)
  BY <1>2, <1>4 DEF Ready, Quiet, OnTimer, Dialling, Same
<1> QED BY <1>1, <1>3, <1>5, <1>6, EncInitFresh DEF Moves

\* s_go_stage_on_client_worker_unsafe likewise, or it leaves nothing under way.
LEMMA GoStageMoves ==
    ASSUME NEW c, ClientOK(c), c.alive, FreeSocks(c) # {}, NEW stage \in {0, 5},
           NEW e \in GoStage(c, stage)
    PROVE  Moves(c, e)
<1> DEFINE d == [c EXCEPT !.said = "nothing", !.target = stage]
<1>1. c \in Client /\ SocksOK(c) /\ Shape(c)
  BY DEF ClientOK
<1>2. d \in Client
  BY <1>1 DEF Client
<1>3. /\ d.said = "nothing" /\ d.target = stage /\ d.attempts = c.attempts
      /\ d.timer = c.timer /\ d.http = c.http /\ d.stream = c.stream /\ d.sock = c.sock
  BY <1>1 DEF Client
<1>4. e \in IF c.status = "COMPLETE" /\ c.stage = c.target /\ c.target <= stage
            THEN IF c.target < stage THEN BeginEncInit(d) ELSE {c}
            ELSE {BeginBegin(d)}
  BY DEF GoStage
<1> HIDE DEF d
<1>5. SocksOK(d)
  BY <1>1, <1>3 DEF SocksOK, SocksBut
<1>6. CASE e = c
  BY <1>6 DEF Moves, Keeps
<1>7. CASE e = BeginBegin(d)
  <2>1. AtRest(e)
    BY <1>2, <1>5, <1>7, BeginBeginOK
  <2> QED BY <2>1 DEF AtRest, Idle, Quiet, Off, Moves
<1>8. CASE /\ c.status = "COMPLETE" /\ c.stage = c.target /\ c.target < stage
           /\ e \in BeginEncInit(d)
  <2>1. AtRest(c) /\ stage = 5
    BY <1>1, <1>8, SMTT(30)
       DEF Client, Shape, Streaming, Stopped, Dialling, OnTimer, OnHttp, OnStream
  <2>2. Ready(d) /\ FreeSocks(d) # {}
    BY <1>3, <2>1 DEF Ready, Quiet, AtRest, Idle, FreeSocks
  <2>3. Sound(d, 0)
    BY <1>2, <1>5, SoundZero
  <2> QED BY <1>2, <1>8, <2>2, <2>3, EncInitFresh DEF Moves
<1> QED BY <1>4, <1>6, <1>7, <1>8

\* dap_client_write_unsafe keeps the attempt, or sends the client to the
\* beginning.
LEMMA WriteMoves ==
    ASSUME NEW c, ClientOK(c), NEW pkt \in Nat
    PROVE  Moves(c, Write(c, pkt))
<1> DEFINE s == Append(c.sent, pkt)
           t == Append(c.pkts, pkt)
           u == [c EXCEPT !.sent = s]
           x == [c EXCEPT !.pkts = t]
           y == [x EXCEPT !.target = 5]
<1>1. c \in Client /\ SocksOK(c) /\ c.sent \in Seq(Nat) /\ c.pkts \in Seq(Nat)
  BY DEF ClientOK, Client
<1>2. s \in Seq(Nat) /\ t \in Seq(Nat)
  BY <1>1, SMTT(30)
<1>3. Write(c, pkt) = IF c.stream = "up" THEN u
                      ELSE IF c.target = 5 /\ c.status = "IN_PROGRESS" THEN x
                      ELSE BeginBegin(y)
  BY DEF Write, QueueAdd, STAGE_STREAM_STREAMING
<1> HIDE DEF s, t
<1>4. x \in Client
  BY <1>1, <1>2 DEF Client
<1>5. /\ u.stage = c.stage /\ u.http = c.http /\ u.stream = c.stream /\ u.sid = c.sid
      /\ u.sock = c.sock
  BY <1>1 DEF Client
<1>6. /\ x.stage = c.stage /\ x.http = c.http /\ x.stream = c.stream /\ x.sid = c.sid
      /\ x.sock = c.sock
  BY <1>1 DEF Client
<1> HIDE DEF u, x
<1>7. y \in Client /\ y.http = x.http /\ y.sock = x.sock
  BY <1>4 DEF Client
<1> HIDE DEF y
<1>8. SocksOK(y)
  BY <1>1, <1>6, <1>7 DEF SocksOK, SocksBut
<1>9. AtRest(BeginBegin(y))
  BY <1>7, <1>8, BeginBeginOK
<1>10. Moves(c, u) /\ Moves(c, x)
  BY <1>5, <1>6 DEF Moves, Keeps
<1>11. Moves(c, BeginBegin(y))
  BY <1>9 DEF AtRest, Idle, Quiet, Off, Moves
<1> QED BY <1>3, <1>10, <1>11

\* The callbacks the owner has queued.
LEMMA RunCallbackMoves ==
    ASSUME Inv, RunCallback
    PROVE  Moves(client, client')
<1> DEFINE op == queue[1][1]
           arg == queue[1][2]
<1>1. /\ queue # <<>> /\ queue \in Seq(Message) /\ Head(queue) = queue[1]
      /\ ClientOK(client) /\ client.alive /\ client \in Client /\ SocksOK(client)
  BY SMTT(30) DEF Inv, QueueOK, RunCallback, ClientOK
<1>2. 1 \in 1..Len(queue) /\ queue[1] \in Message
  BY <1>1, SMTT(30)
<1>3. arg \in Nat /\ (op = "go" => arg \in {0, 5})
  BY <1>2 DEF Message, Inv, QueueOK
<1>4. \/ op = "go" /\ FreeSocks(client) # {} /\ client' \in GoStage(client, arg)
      \/ op = "write" /\ client' = Write(client, arg)
      \/ op = "clear" /\ client' = [client EXCEPT !.pkts = <<>>]
      \/ op = "delete" /\ client' = [Clean(client) EXCEPT !.alive = FALSE]
  BY <1>1 DEF RunCallback, QueueClear, DeleteUnsafe
<1> HIDE DEF op, arg
<1>5. CASE op = "go" /\ FreeSocks(client) # {} /\ client' \in GoStage(client, arg)
  BY <1>1, <1>3, <1>5, GoStageMoves
<1>6. CASE op = "write" /\ client' = Write(client, arg)
  BY <1>1, <1>3, <1>6, WriteMoves
<1>7. CASE op = "clear" /\ client' = [client EXCEPT !.pkts = <<>>]
  BY <1>1, <1>7 DEF Client, Moves, Keeps
<1>8. CASE op = "delete" /\ client' = [Clean(client) EXCEPT !.alive = FALSE]
  <2> DEFINE b == Clean(client)
  <2>1. b \in Client /\ Idle(b)
    BY <1>1, CleanSound
  <2>2. client' = [b EXCEPT !.alive = FALSE]
    BY <1>8
  <2> HIDE DEF b
  <2> QED BY <2>1, <2>2 DEF Client, Idle, Quiet, Off, Moves
<1> QED BY <1>4, <1>5, <1>6, <1>7, <1>8

\* The stream socket: the stream is up with the session it connected with.
LEMMA StreamMoves ==
    ASSUME ClientOK(client), StreamStep
    PROVE  Moves(client, client')
<1>0. client \in Client /\ SocksOK(client)
  BY DEF ClientOK
<1>1. CASE StreamConnected
  <2>1. /\ client'.stream = "up" /\ client'.http = 0 /\ client'.sid = client.sid
        /\ client.stream = "connecting"
    BY <1>1, StreamConnectedOK DEF StreamConnected
  <2> QED BY <2>1 DEF Moves
<1>2. CASE StreamError
  <2> DEFINE x == [client EXCEPT !.stream = "dead"]
  <2>1. client' = Failed(x) /\ client.stream \in {"connecting", "up"}
    BY <1>2 DEF StreamError, Aborted
  <2>2. ~client.timer /\ client.http = 0
    BY <2>1
       DEF ClientOK, Shape, AtRest, Idle, Streaming, Stopped, Quiet, Dialling, OnHttp,
                OnTimer, OnStream
  <2>3. Sound(client, 0)
    BY <1>0, SoundZero
  <2>4. /\ x \in Client /\ Sound(x, 0) /\ x.stream = "dead" /\ x.timer = client.timer
        /\ x.http = client.http
    BY <1>0, <2>3, StreamSet
  <2> HIDE DEF x
  <2>5. Quiet(x)
    BY <2>2, <2>4 DEF Quiet
  <2> QED BY <2>1, <2>4, <2>5, FailedOff DEF Moves
<1>3. CASE StreamTimerOff \/ StreamRead
  BY <1>0, <1>3 DEF StreamTimerOff, StreamRead, Client, Moves, Keeps
<1> QED BY <1>1, <1>2, <1>3 DEF StreamStep

-----------------------------------------------------------------------------
\* The two tables of the server and what the client c holds of them.  An
\* answer the client has not read yet already names an entry of K (the key
\* storage) or an unopened session of S; w is the server's view of the stream.
Known(c, K, S) ==
    LET s == c.sock[c.http]
    IN  c.http # 0 =>
          /\ c.stage = 1 => s.req = 0 /\ (s.rep > 0 => s.rep \in K)
          /\ c.stage = 2 => /\ s.req # 0
                            /\ s.rep = NoReply => s.req \in K
                            /\ s.rep > 0 => s.rep \in Ids /\ S[s.rep] = "new"

Hands(c, K, S, w) ==
    /\ S \in [Ids -> {"none", "new", "open"}]
    /\ Known(c, K, S)
    /\ c.stream = "connecting" => c.sid \in Ids /\ S[c.sid] = "new"
    /\ w = "asked" => c.stream = "up" /\ c.sid \in Ids /\ S[c.sid] = "new"

\* A step of the client, the tables staying as they are.
LEMMA MovesHands ==
    ASSUME NEW c, NEW d, NEW K, NEW S, NEW w, NEW v, Hands(c, K, S, w), Moves(c, d),
           v = IF d.stream # "up" THEN "none" ELSE IF c.stream # "up" THEN "asked" ELSE w
    PROVE  Hands(d, K, S, v)
<1>1. CASE Off(d)
  BY <1>1 DEF Off, Hands, Known
<1>2. CASE Keeps(c, d)
  <2>1. Known(d, K, S)
    BY <1>2 DEF Keeps, Hands, Known
  <2> QED BY <1>2, <2>1 DEF Keeps, Hands
<1>3. CASE Fresh(d, 1, 0)
  BY <1>3, SMTT(30) DEF Fresh, Hands, Known, NoReply
<1>4. CASE /\ c.http # 0 /\ c.sock[c.http].rep > 0
           /\ c.stage = 1 /\ Fresh(d, 2, c.sock[c.http].rep)
  <2>1. c.sock[c.http].rep \in K /\ c.sock[c.http].rep # 0
    BY <1>4, SMTT(30) DEF Hands, Known
  <2> QED BY <1>4, <2>1, SMTT(30) DEF Fresh, Hands, Known, NoReply
<1>5. CASE /\ c.http # 0 /\ c.sock[c.http].rep > 0
           /\ c.stage = 2 /\ Dials(d, c.sock[c.http].rep)
  BY <1>5 DEF Dials, Hands, Known
<1>6. CASE c.stream = "connecting" /\ d.stream = "up" /\ d.http = 0 /\ d.sid = c.sid
  BY <1>6 DEF Hands, Known
<1> QED BY <1>1, <1>2, <1>3, <1>4, <1>5, <1>6 DEF Moves

\* The tables and the client agree at the beginning.
LEMMA HandsInit == Init => Hands(client, keys, sessions, conn)
<1> SUFFICES ASSUME Init PROVE Hands(client, keys, sessions, conn)
  OBVIOUS
<1>1. client.http = 0 /\ client.stream = "none"
  BY SMTT(30) DEF Init, CInit, NewClient
<1> QED BY <1>1 DEF Init, UInit, Hands, Known

\* A handler of the server: the request handled is the current one, so the
\* key it uses up is named by no other.
LEMMA AnswersHands ==
    ASSUME ClientOK(client), Hands(client, keys, sessions, conn), NEW i \in Socks,
           ServerAnswers(i)
    PROVE  Hands(client, keys, sessions, conn)'
<1>1. client.sock[i].phase = "sent" /\ client.sock[i].rep = NoReply /\ conn' = conn
  BY DEF ServerAnswers
<1>2. /\ i = client.http /\ OnHttp(client) /\ client \in Client
      /\ client.sock[i] \in SockType
  BY <1>1, CurrentSocket DEF ClientOK, Client
<1>3. PICK rep \in Ids \cup {BadReply} :
        /\ IF client.sock[i].req = 0 THEN EncHttpProc(Busy, rep)
           ELSE StreamCtlProc(client.sock[i].req, Busy, BadReply, rep)
        /\ client' = [client EXCEPT !.sock[i].rep = rep]
  BY DEF ServerAnswers
<1>4. rep \in Int /\ (rep > 0 => rep \in Ids) /\ rep # NoReply
  BY IdsAssumption, SMTT(30) DEF BadReply, NoReply
<1> DEFINE s == [client.sock[i] EXCEPT !.rep = rep]
<1>5. s \in SockType /\ s.req = client.sock[i].req /\ s.rep = rep
  BY <1>2, <1>4 DEF SockType
<1>6. client' = [client EXCEPT !.sock[i] = s]
  BY <1>2, <1>3, SockFields
<1> HIDE DEF s
<1>7. /\ Alike(client, client') /\ client'.sid = client.sid /\ client'.sock[i] = s
  BY <1>2, <1>5, <1>6, SockSet, SMTT(30)
<1>8. /\ client'.http = i /\ client'.stage = client.stage /\ client'.stream = "none"
      /\ i # 0 /\ client.stage \in {1, 2} /\ conn # "asked"
  BY <1>2, <1>7 DEF Alike, OnHttp, Hands
<1>9. /\ client.stage = 1 => client.sock[i].req = 0
      /\ client.stage = 2 => client.sock[i].req # 0 /\ client.sock[i].req \in keys
  BY <1>1, <1>2, <1>8 DEF Hands, Known
<1>10. sessions \in [Ids -> {"none", "new", "open"}]
  BY DEF Hands
<1>11. CASE client.stage = 1
  <2>1. keys' = keys \cup {rep} /\ sessions' = sessions
    BY <1>3, <1>9, <1>11 DEF EncHttpProc
  <2> QED BY <1>1, <1>5, <1>7, <1>8, <1>9, <1>10, <1>11, <2>1 DEF Hands, Known
<1>12. CASE client.stage = 2
  <2>1. sessions' = [sessions EXCEPT ![rep] = "new"]
    BY <1>3, <1>9, <1>12 DEF StreamCtlProc
  <2>2. sessions' \in [Ids -> {"none", "new", "open"}] /\ (rep \in Ids => sessions'[rep] = "new")
    BY <1>10, <2>1
  <2> QED BY <1>1, <1>4, <1>5, <1>7, <1>8, <1>9, <1>12, <2>2 DEF Hands, Known
<1> QED BY <1>8, <1>11, <1>12

\* The server opens the session for the stream that presents it, and closes
\* sessions that are open.
LEMMA ServerHands ==
    ASSUME ClientOK(client), Hands(client, keys, sessions, conn),
           ServerOpens \/ \E sid \in Ids : ServerCloses(sid)
    PROVE  Hands(client, keys, sessions, conn)'
<1>0. sessions \in [Ids -> {"none", "new", "open"}]
  BY DEF Hands
<1>1. CASE ServerOpens
  <2>1. /\ conn = "asked" /\ conn' # "asked" /\ client' = client
        /\ sessions' = [sessions EXCEPT ![client.sid] = IF @ = "new" THEN "open" ELSE @]
    BY <1>1 DEF ServerOpens, HeadersRead, cvars
  <2>2. client.stream = "up" /\ client.http = 0
    BY <2>1
       DEF Hands, ClientOK, Shape, AtRest, Idle, Streaming, Stopped, Quiet, Dialling, OnHttp,
                OnTimer, OnStream
  <2>3. sessions' \in [Ids -> {"none", "new", "open"}]
    BY <1>0, <2>1
  <2> QED BY <2>1, <2>2, <2>3 DEF Hands, Known
<1>2. ASSUME NEW sid \in Ids, ServerCloses(sid)
      PROVE  Hands(client, keys, sessions, conn)'
  <2>1. /\ sessions[sid] = "open" /\ sessions' = [sessions EXCEPT ![sid] = "none"]
        /\ keys' = keys /\ client' = client /\ (conn' = "asked" => conn = "asked")
    BY <1>2 DEF ServerCloses, SessionClose, cvars
  <2>2. /\ sessions' \in [Ids -> {"none", "new", "open"}]
        /\ \A x \in Ids : sessions[x] = "new" => sessions'[x] = "new"
    BY <1>0, <2>1
  <2> DEFINE S == sessions
             T == sessions'
  <2>3. Known(client, keys, T)
    <3> HIDE DEF T
    <3> QED BY <2>2 DEF Hands, Known, T
  <2> QED BY <2>1, <2>2, <2>3 DEF Hands
<1> QED BY <1>1, <1>2

\* The tables and the client agree after every step.
LEMMA HandsStep ==
    ASSUME Inv, Hands(client, keys, sessions, conn), [Next]_vars
    PROVE  Hands(client, keys, sessions, conn)'
<1>0. ClientOK(client)
  BY DEF Inv
<1>1. ASSUME Moves(client, client'), ConnFollows, UNCHANGED uvars
      PROVE  Hands(client, keys, sessions, conn)'
  <2>1. keys' = keys /\ sessions' = sessions
    BY <1>1 DEF uvars
  <2>2. conn' = IF client'.stream # "up" THEN "none"
                ELSE IF client.stream # "up" THEN "asked" ELSE conn
    BY <1>1 DEF ConnFollows
  <2> QED BY <1>1, <2>1, <2>2, MovesHands
<1>2. CASE ClientStep(Owner)
  <2>1. client' = client
    BY <1>2 DEF ClientStep, Owner, AskStage, AskWrite, AskOther
  <2>2. Moves(client, client')
    BY <2>1 DEF Moves, Keeps
  <2> QED BY <1>1, <1>2, <2>2 DEF ClientStep
<1>3. CASE ClientStep(RunCallback)
  BY <1>1, <1>3, RunCallbackMoves DEF ClientStep
<1>4. CASE ClientStep(ReconnectTimer)
  BY <1>0, <1>1, <1>4, ReconnectMoves DEF ClientStep
<1>5. ASSUME NEW i \in Socks, ClientStep(HttpStep(i)) \/ ClientStep(HttpError(i))
      PROVE  Hands(client, keys, sessions, conn)'
  BY <1>0, <1>1, <1>5, HttpMoves DEF ClientStep
<1>6. ASSUME NEW i \in Socks, ServerAnswers(i)
      PROVE  Hands(client, keys, sessions, conn)'
  BY <1>0, <1>6, AnswersHands
<1>7. CASE ClientStep(StreamStep)
  BY <1>0, <1>1, <1>7, StreamMoves DEF ClientStep
<1>8. CASE ServerOpens \/ \E sid \in Ids : ServerCloses(sid)
  BY <1>0, <1>8, ServerHands
<1>9. CASE UNCHANGED vars
  BY <1>9 DEF vars
<1> QED BY <1>2, <1>3, <1>4, <1>5, <1>6, <1>7, <1>8, <1>9 DEF Next

\* What the tables and the client agree on is what the server is asked for.
LEMMA HandsAccepted ==
    ASSUME Inv, Hands(client, keys, sessions, conn)
    PROVE  HandshakeAccepted
<1>1. ASSUME NEW i \in InFlight, client.sock[i].req # 0, client.sock[i].rep = NoReply
      PROVE  client.sock[i].req \in keys
  <2>1. i = client.http /\ OnHttp(client)
    BY CurrentSocket DEF Inv, InFlight
  <2> QED BY <1>1, <2>1 DEF Hands, Known, OnHttp
<1>2. conn = "asked" => Opens(client.sid)
  BY DEF Hands, Opens
<1> QED BY <1>1, <1>2 DEF HandshakeAccepted

\* Whatever requests were given up before, and whatever became of them: the
\* key id of a stream_ctl request still to be answered is in the server's
\* storage, and the session id of a stream that has just connected names a
\* session nobody has opened (dap_client_pvt.c, s_enc_init_response and
\* s_stream_ctl_response; dap_stream_ctl.c; dap_stream_session.c).
THEOREM UplinkHandshake == Spec => []HandshakeAccepted
<1> DEFINE IInv == Inv /\ Hands(client, keys, sessions, conn)
<1>1. Init => IInv
  BY InitOK, HandsInit
<1>2. IInv /\ [Next]_vars => IInv'
  BY NextOK, HandsStep
<1>3. IInv => HandshakeAccepted
  BY HandsAccepted
<1> QED BY <1>1, <1>2, <1>3, PTL DEF Spec

=============================================================================
