------------------------------ MODULE StreamRx ------------------------------
(***************************************************************************)
(* One direction of a stream: channel packets are cut into stream packets  *)
(* (dap_stream_ch_pkt.c, dap_stream_pkt.c), travel as bytes of a TCP       *)
(* connection and are put together again (dap_stream.c).                   *)
(*                                                                         *)
(* The bytes of the connection are counted from 0.  The first `junk' bytes *)
(* are not packets: the reply header of the HTTP server, which the client  *)
(* leaves in its input buffer because it is already in stage STREAMING     *)
(* when the header comes; on the server's side there are none.  A packet   *)
(* lies on the bytes at..end-1.  The input buffer holds the bytes          *)
(* lo..hi-1.  dap_stream_data_proc_read looks for the next signature,      *)
(* handles every whole packet and returns the sum of their sizes, by which *)
(* the caller shortens the buffer from its front.                          *)
(*                                                                         *)
(* Message m has sequence number m - 1.  A fragmented message is cut into  *)
(* the channel header, full fragments and the rest, which is short only if *)
(* it is not the second fragment (the message is longer than a full one).  *)
(* A shift in the message is counted in fragments.  The two ends share the *)
(* session key, so that a packet always decodes; packets are well formed   *)
(* and name channels the receiver has.                                     *)
(***************************************************************************)
EXTENDS Integers, Sequences, FiniteSets

CONSTANTS
    Junks,          \* lengths of what precedes the first packet
    ControlSize,    \* size of KEEPALIVE and ALIVE: the bare header
    ShortSize,      \* size of a DATA packet, of a first and a last fragment
    FullSize,       \* size of a full fragment
    Fragments,      \* numbers of fragments of a fragmented message
    MaxMsgs,        \* bound: messages
    MaxControls     \* bound: KEEPALIVE and ALIVE packets

ASSUME RxAssumption ==
    /\ Junks \subseteq Nat
    /\ ControlSize \in Nat \ {0}
    /\ ShortSize \in Nat /\ ShortSize >= ControlSize
    /\ FullSize \in Nat /\ FullSize >= ShortSize
    /\ \A j \in Junks : j < FullSize
    /\ Fragments \subseteq Nat \ {0, 1}
    /\ MaxMsgs \in Nat
    /\ MaxControls \in Nat

VARIABLES
    junk,       \* bytes before the first packet
    wire,       \* the packets written, in order
    seq_id,     \* the writer's stream: messages written
    lo, hi,     \* the reader's buf_in
    pos, used,  \* l_pos as the index of the next packet, l_processed_size
    last,       \* client_last_seq_id_packet
    frag,       \* buf_fragments, buf_fragments_size_filled and _size_total
    delivered,  \* what packet_in_callback was given
    is_active,  \* the reader's stream
    out         \* KEEPALIVE packets the reader wrote and the peer has not seen,
                \* and ALIVE packets it wrote

rxvars == <<junk, wire, seq_id, lo, hi, pos, used, last, frag, delivered, is_active, out>>

rvars == <<last, frag, delivered, is_active, out>>

\* A stream packet: fragment k of n of message m; n = 1 for a DATA packet, 0 for
\* KEEPALIVE and ALIVE.
Packet == [type : {"DATA", "FRAGMENT", "KEEPALIVE", "ALIVE"},
           m : Nat, k : Nat, n : Nat, at : Nat, end : Nat]

\* buf_fragments: the message the channel header in it is of, the size that
\* header states, the messages the bytes are of; 0 is a header of zeros.
NoFrag == [hdr |-> 0, size |-> 0, from |-> {}, filled |-> 0, total |-> 0]

RxInit ==
    /\ junk \in Junks
    /\ wire = <<>>
    /\ seq_id = 0
    /\ lo = 0 /\ hi = 0
    /\ pos = 0 /\ used = 0
    /\ last = 0
    /\ frag = NoFrag
    /\ delivered = <<>>
    /\ is_active = FALSE
    /\ out = [keepalive |-> 0, alive |-> 0]

(***************************************************************************)
(* Writing                                                                 *)
(***************************************************************************)
WireEnd == IF wire = <<>> THEN junk ELSE wire[Len(wire)].end

Pkt(type, m, k, n, at, size) ==
    [type |-> type, m |-> m, k |-> k, n |-> n, at |-> at, end |-> at + size]

\* dap_stream_ch_pkt_write_unsafe with a message that fits one packet.
WriteData ==
    /\ seq_id < MaxMsgs
    /\ seq_id' = seq_id + 1
    /\ wire' = Append(wire, Pkt("DATA", seq_id + 1, 1, 1, WireEnd, ShortSize))
    /\ UNCHANGED <<junk, lo, hi, pos, used, rvars>>

FragmentAt(k) == WireEnd + IF k = 1 THEN 0 ELSE ShortSize + (k - 2) * FullSize

FragmentSize(k, n) == IF k = 1 \/ (k = n /\ n > 2) THEN ShortSize ELSE FullSize

\* The same with a longer message: all its fragments are written at once.
WriteFragments(n) ==
    /\ seq_id < MaxMsgs
    /\ seq_id' = seq_id + 1
    /\ wire' = wire \o [k \in 1..n |->
                  Pkt("FRAGMENT", seq_id + 1, k, n, FragmentAt(k), FragmentSize(k, n))]
    /\ UNCHANGED <<junk, lo, hi, pos, used, rvars>>

Controls == {i \in 1..Len(wire) : wire[i].n = 0}

\* s_callback_keepalive of a peer that was idle.
WriteKeepalive ==
    /\ Cardinality(Controls) < MaxControls
    /\ wire' = Append(wire, Pkt("KEEPALIVE", seq_id, 0, 0, WireEnd, ControlSize))
    /\ UNCHANGED <<junk, seq_id, lo, hi, pos, used, rvars>>

\* The peer's answer to a KEEPALIVE of the reader.
WriteAlive ==
    /\ out.keepalive > 0
    /\ Cardinality(Controls) < MaxControls
    /\ wire' = Append(wire, Pkt("ALIVE", seq_id, 0, 0, WireEnd, ControlSize))
    /\ out' = [out EXCEPT !.keepalive = @ - 1]
    /\ UNCHANGED <<junk, seq_id, lo, hi, pos, used, last, frag, delivered, is_active>>

\* s_callback_keepalive of the reader: it asks when it was idle.  (More than
\* one question without an answer is taken for one.)
KeepaliveTimer ==
    /\ pos = 0
    /\ is_active' = FALSE
    /\ out' = IF is_active THEN out ELSE [out EXCEPT !.keepalive = 1]
    /\ UNCHANGED <<junk, wire, seq_id, lo, hi, pos, used, last, frag, delivered>>

(***************************************************************************)
(* Reading                                                                 *)
(***************************************************************************)
\* The worker has received bytes up to h and calls the read callback:
\* the first signature in the buffer is looked for.
Recv(h) ==
    /\ pos = 0
    /\ hi < h
    /\ hi' = h
    /\ used' = 0
    /\ pos' = 1 + Cardinality({i \in 1..Len(wire) : wire[i].at < lo})
    /\ UNCHANGED <<junk, wire, seq_id, lo, rvars>>

Whole == pos \in 1..Len(wire) /\ wire[pos].end <= hi

\* The next whole packet has been handled.
Handled ==
    /\ used' = used + (wire[pos].end - wire[pos].at)
    /\ pos' = pos + 1
    /\ UNCHANGED <<junk, wire, seq_id, lo, hi>>

\* Mutant: the number that is expected counts as a replay.
LooseOffByOne(seq) == (seq # 0 \/ last # 0) /\ seq <= last + 1

\* s_detect_loose_packet, for sequence number seq.
Loose(seq) == (seq # 0 \/ last # 0) /\ seq < last + 1

SeqIdOf(m) == IF m = 0 THEN 0 ELSE m - 1

\* Check of the sequence number, and the channel's packet_in_callback.
Deliver(seq, m, from) ==
    /\ last' = seq
    /\ delivered' = IF Loose(seq) THEN delivered
                    ELSE Append(delivered, [m |-> m, from |-> from])

\* STREAM_PKT_TYPE_DATA_PACKET.  The sequence number is looked up in
\* buf_fragments when there is something in it.
ProcData ==
    /\ Whole /\ wire[pos].type = "DATA"
    /\ LET p == wire[pos]
       IN  Deliver(SeqIdOf(IF frag.filled # 0 THEN frag.hdr ELSE p.m), p.m, {p.m})
    /\ Handled
    /\ is_active' = TRUE
    /\ UNCHANGED <<frag, out>>

\* Fragment p is copied into buf_fragments, which is allocated anew if it is
\* too small for the message of p.
Filled(p) ==
    LET fresh == frag.total < p.n
    IN  [hdr |-> IF p.k = 1 THEN p.m ELSE IF fresh THEN 0 ELSE frag.hdr,
         size |-> IF p.k = 1 THEN p.n ELSE IF fresh THEN 0 ELSE frag.size,
         from |-> {p.m} \cup (IF fresh /\ frag.filled # 0 THEN {0} ELSE frag.from),
         filled |-> p.k,
         total |-> IF fresh THEN p.n ELSE frag.total]

\* STREAM_PKT_TYPE_FRAGMENT_PACKET: out of place, or not the last one ...
ProcFragment ==
    /\ Whole /\ wire[pos].type = "FRAGMENT"
    /\ LET p == wire[pos]
       IN  \/ frag.filled # p.k - 1 /\ frag' = NoFrag
           \/ frag.filled = p.k - 1 /\ p.k < p.n /\ frag' = Filled(p)
    /\ Handled
    /\ is_active' = TRUE
    /\ UNCHANGED <<last, delivered, out>>

\* Mutant: a last fragment is taken wherever it belongs.
ProcLastUnplaced ==
    /\ Whole /\ wire[pos].type = "FRAGMENT"
    /\ frag.filled # 0 /\ wire[pos].k = wire[pos].n
    /\ LET f == Filled(wire[pos])
       IN  IF f.total = f.size THEN Deliver(SeqIdOf(f.hdr), f.hdr, f.from)
           ELSE UNCHANGED <<last, delivered>>
    /\ frag' = NoFrag
    /\ Handled
    /\ is_active' = TRUE
    /\ UNCHANGED out

\* ... or the last one: the message is delivered if the size in its header is
\* the size of the buffer, and the buffer is emptied.
ProcLastFragment ==
    /\ Whole /\ wire[pos].type = "FRAGMENT"
    /\ frag.filled = wire[pos].k - 1 /\ wire[pos].k = wire[pos].n
    /\ LET f == Filled(wire[pos])
       IN  IF f.total = f.size THEN Deliver(SeqIdOf(f.hdr), f.hdr, f.from)
           ELSE UNCHANGED <<last, delivered>>
    /\ frag' = NoFrag
    /\ Handled
    /\ is_active' = TRUE
    /\ UNCHANGED out

\* STREAM_PKT_TYPE_KEEPALIVE is answered, STREAM_PKT_TYPE_ALIVE only noted.
\* Nothing writes packets of type STREAM_PKT_TYPE_SERVICE_PACKET.
ProcControl ==
    /\ Whole /\ wire[pos].n = 0
    /\ is_active' = (wire[pos].type = "KEEPALIVE")
    /\ out' = IF wire[pos].type = "KEEPALIVE" THEN [out EXCEPT !.alive = @ + 1] ELSE out
    /\ Handled
    /\ UNCHANGED <<last, frag, delivered>>

\* Mutant: the buffer is emptied.
ShrinkAll ==
    /\ pos # 0 /\ ~Whole
    /\ lo' = hi
    /\ pos' = 0
    /\ UNCHANGED <<junk, wire, seq_id, hi, used, rvars>>

\* No whole packet is left: dap_events_socket_shrink_buf_in by what was handled.
Shrink ==
    /\ pos # 0 /\ ~Whole
    /\ lo' = IF lo + used < hi THEN lo + used ELSE hi
    /\ pos' = 0
    /\ UNCHANGED <<junk, wire, seq_id, hi, used, rvars>>

Read == ProcData \/ ProcFragment \/ ProcLastFragment \/ ProcControl \/ Shrink

RxNext ==
    \/ WriteData
    \/ \E n \in Fragments : WriteFragments(n)
    \/ WriteKeepalive
    \/ WriteAlive
    \/ KeepaliveTimer
    \/ \E h \in 1..WireEnd : Recv(h)
    \/ Read

RxSpec == RxInit /\ [][RxNext]_rxvars

\* TCP delivers what was written, and the worker's callback ends.
RxFairness == WF_rxvars(Recv(WireEnd)) /\ WF_rxvars(Read)

RxFairSpec == RxSpec /\ RxFairness

(***************************************************************************)
(* Properties                                                              *)
(***************************************************************************)
\* The buffer is shortened by the packets handled, not by the bytes passed
\* over.  That is right if what is passed over is shorter than any packet.
ShortJunk == junk < ControlSize

\* Messages are delivered in the order they were written, each once, however
\* TCP cuts the bytes and however messages, fragments and control packets
\* follow each other (dap_stream.c:675-845, dap_stream_ch_pkt.c:239-300).
DeliveredInOrder ==
    ShortJunk => \A i \in 1..Len(delivered) : delivered[i].m = i

\* Whatever is left at the front of the buffer, and however often packets are
\* handled again because of it, a message delivered is made of its own
\* fragments: the check of mem_shift never lets in another message's
\* (dap_stream.c:741-758).
WholeMessages ==
    \A i \in 1..Len(delivered) : delivered[i].from = {delivered[i].m}

\* In the end every message written has come to its channel: none stays in
\* the buffer or is taken for a replay (s_detect_loose_packet).
EveryMessageDelivered == ShortJunk => <>[](Len(delivered) = seq_id)

=============================================================================
